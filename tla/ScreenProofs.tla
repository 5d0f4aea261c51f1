---------------------------- MODULE ScreenProofs ----------------------------
(***************************************************************************)
(* The routes of the riders and the road of the simulated ride, for any    *)
(* number of riders, destinations, positions and roads: what is shown is   *)
(* of this trip and of this ride, whatever answers come late, a rider who  *)
(* waits for a route has asked for one, and the part of a ride drawn as    *)
(* done ends at the marker.                                                *)
(***************************************************************************)
EXTENDS MapScreen, FoldLemmas

\* Only a listed rider has an entry, and none is listed without a trip.
EntriesAreListed == \A p \in Riders : entry[p] # None => where[p] # None

\* A listed rider has an entry, and it remembers the route on the map, be it
\* that of another trip. (That it is this trip's is what the effect looks at.)
RoutesRemembered ==
    \A p \in Legend :
        /\ entry[p] # None
        /\ entry[p].origin # None => routes[p] = [from |-> entry[p].origin, to |-> entry[p].dest]

RoutesInv == RoutesTypeOK /\ EntriesAreListed /\ RoutesRemembered /\ NoRiderIsStuck

\* The entry of a rider for a destination is an entry, for that destination; it
\* is busy only if it was, and remembers a route only if it did.
LEMMA AimedAt ==
    ASSUME RoutesTypeOK, NEW p \in Riders, NEW d \in Dests
    PROVE  /\ Aimed(p, d) \in Entry /\ Aimed(p, d).dest = d
           /\ Aimed(p, d).busy => entry[p] # None /\ entry[p].busy
           /\ Aimed(p, d).origin # None =>
                entry[p] # None /\ entry[p].dest = d /\ entry[p].origin = Aimed(p, d).origin
<1>1. entry[p] \in Entry \cup {None}
  BY DEF RoutesTypeOK
<1>2. CASE entry[p] = None
  BY <1>2 DEF Aimed, Entry
<1>3. CASE entry[p] # None
  BY <1>1, <1>3 DEF Aimed, Entry
<1>4. QED
  BY <1>2, <1>3

\* The effect that asks for routes, whatever trip and positions it runs with.
LEMMA RouteEffectKeeps ==
    ASSUME RoutesInv,
           trip' \in Dests \cup {None}, where' \in [Riders -> Positions \cup {None}],
           trip' = None => where' = Nobody, UNCHANGED hidden,
           RouteEffect(trip', where')
    PROVE  RoutesInv'
<1> USE RoutesAssumption, RecordAssumption
<1>0. /\ trip \in Dests \cup {None} /\ where \in [Riders -> Positions \cup {None}]
      /\ entry \in [Riders -> Entry \cup {None}] /\ routes \in [Riders -> Route \cup {None}]
      /\ asked \in [Request -> 0 .. MaxAsked] /\ hidden \subseteq Riders
  BY DEF RoutesInv, RoutesTypeOK
<1>1. CASE trip' = None
  <2>1. routes' = Nobody /\ entry' = Nobody /\ asked' = asked /\ where' = Nobody
    BY <1>1 DEF RouteEffect
  <2>2. RoutesTypeOK'
    BY <1>0, <1>1, <2>1 DEF RoutesTypeOK, Nobody
  <2>3. EntriesAreListed' /\ RoutesRemembered' /\ NoRiderIsStuck'
    BY <2>1 DEF EntriesAreListed, RoutesRemembered, NoRiderIsStuck, Legend, Nobody
  <2>4. QED
    BY <2>2, <2>3 DEF RoutesInv
<1>2. CASE trip' # None
  <2> DEFINE d == trip'
             at == where'
             Active == {p \in Riders : at[p] # None}
             Asks == {p \in Active : Due(Aimed(p, d), at[p])}
  <2>0. d \in Dests
    BY <1>2
  <2>1. /\ routes' = [p \in Riders |-> IF p \in Active THEN routes[p] ELSE None]
        /\ entry' = [p \in Riders |-> IF p \notin Active THEN None
                                      ELSE [Aimed(p, d) EXCEPT !.busy = @ \/ p \in Asks]]
        /\ asked' = [q \in Request |->
                       IF q.rider \in Asks /\ q.from = at[q.rider] /\ q.to = d
                       THEN asked[q] + 1 ELSE asked[q]]
        /\ \A q \in Request : asked'[q] <= MaxAsked
    BY <1>2 DEF RouteEffect
  <2>2. ASSUME NEW p \in Active
        PROVE  /\ entry'[p] \in Entry /\ entry'[p].dest = d
               /\ entry'[p].origin = Aimed(p, d).origin
               /\ entry'[p].busy => p \in Asks \/ (entry[p] # None /\ entry[p].busy)
    <3>1. entry'[p] = [Aimed(p, d) EXCEPT !.busy = @ \/ p \in Asks]
      BY <2>1
    <3>2. Aimed(p, d) \in Entry /\ Aimed(p, d).dest = d
          /\ (Aimed(p, d).busy => entry[p] # None /\ entry[p].busy)
      BY <2>0, AimedAt DEF RoutesInv
    <3>3. QED
      BY <3>1, <3>2 DEF Entry
  <2>3. ASSUME NEW q \in Request
        PROVE  asked'[q] \in 0 .. MaxAsked /\ asked'[q] >= asked[q]
    BY <1>0, <2>1
  <2>4. RoutesTypeOK'
    <3>1. routes' \in [Riders -> Route \cup {None}]
      BY <1>0, <2>1
    <3>2. entry' \in [Riders -> Entry \cup {None}]
      BY <2>1, <2>2
    <3>3. asked' \in [Request -> 0 .. MaxAsked]
      BY <2>1, <2>3
    <3>4. QED
      BY <1>0, <1>2, <3>1, <3>2, <3>3 DEF RoutesTypeOK
  <2>5. EntriesAreListed'
    BY <2>1 DEF EntriesAreListed
  <2>6. RoutesRemembered'
    <3>1. SUFFICES ASSUME NEW p \in Active
                   PROVE  /\ entry'[p] # None
                          /\ entry'[p].origin # None =>
                               routes'[p] = [from |-> entry'[p].origin, to |-> entry'[p].dest]
      BY DEF RoutesRemembered, Legend
    <3>2. entry'[p] # None
      BY <2>2
    <3>3. ASSUME entry'[p].origin # None
          PROVE  routes'[p] = [from |-> entry'[p].origin, to |-> entry'[p].dest]
      <4>1. entry[p] # None /\ entry[p].dest = d /\ entry[p].origin = entry'[p].origin /\ entry'[p].dest = d
        BY <2>0, <2>2, <3>3, AimedAt DEF RoutesInv
      <4>2. p \in Legend
        BY <4>1 DEF RoutesInv, EntriesAreListed, Legend
      <4>3. QED
        BY <2>1, <3>3, <4>1, <4>2 DEF RoutesInv, RoutesRemembered
    <3>4. QED
      BY <3>2, <3>3
  <2>7. NoRiderIsStuck'
    <3>1. SUFFICES ASSUME NEW p \in Active, entry'[p].busy
                   PROVE  \E q \in Request : q.rider = p /\ asked'[q] > 0
      BY <2>1 DEF NoRiderIsStuck, AskedFor
    <3>2. CASE p \in Asks
      <4> DEFINE q == [rider |-> p, from |-> at[p], to |-> d]
      <4>1. q \in Request
        BY <2>0 DEF Request
      <4>2. asked'[q] = asked[q] + 1
        BY <2>1, <3>2, <4>1
      <4>3. asked[q] \in Nat
        BY <1>0, <4>1
      <4>4. QED
        BY <4>1, <4>2, <4>3
    <3>3. CASE p \notin Asks
      <4>1. entry[p] # None /\ entry[p].busy
        BY <2>2, <3>1, <3>3
      <4>2. PICK q \in Request : q.rider = p /\ asked[q] > 0
        BY <4>1 DEF RoutesInv, NoRiderIsStuck, AskedFor
      <4>3. asked'[q] >= asked[q] /\ asked[q] \in Nat /\ asked'[q] \in Nat
        BY <1>0, <2>3, <4>2
      <4>4. QED
        BY <4>2, <4>3
    <3>4. QED
      BY <3>2, <3>3
  <2>8. QED
    BY <2>4, <2>5, <2>6, <2>7 DEF RoutesInv
<1>3. QED
  BY <1>1, <1>2

\* Nothing that the routes are made of changes.
LEMMA RoutesUntouched ==
    ASSUME RoutesInv, UNCHANGED routeVars
    PROVE  RoutesInv'
BY DEF routeVars, RoutesInv, RoutesTypeOK, EntriesAreListed, RoutesRemembered, NoRiderIsStuck,
       AskedFor, Legend

\* A request is over: the entry that there is by now becomes e, which is free.
LEMMA OverKeeps ==
    ASSUME RoutesInv, NEW q \in Request, NEW e \in Entry, ~e.busy, Over(q, e),
           \/ /\ e.origin = q.from /\ e.dest = q.to
              /\ routes' = [routes EXCEPT ![q.rider] = [from |-> q.from, to |-> q.to]]
           \/ /\ entry[q.rider] # None =>
                    e.origin = entry[q.rider].origin /\ e.dest = entry[q.rider].dest
              /\ UNCHANGED routes
    PROVE  RoutesInv'
<1> USE RoutesAssumption, RecordAssumption
<1>0. /\ entry \in [Riders -> Entry \cup {None}] /\ routes \in [Riders -> Route \cup {None}]
      /\ asked \in [Request -> 0 .. MaxAsked] /\ q.rider \in Riders
  BY DEF RoutesInv, RoutesTypeOK, Request
<1>1. /\ asked[q] > 0 /\ asked' = [asked EXCEPT ![q] = @ - 1]
      /\ entry' = [entry EXCEPT ![q.rider] = IF @ = None THEN None ELSE e]
      /\ UNCHANGED <<trip, where, hidden>>
  BY DEF Over
<1>2. [from |-> q.from, to |-> q.to] \in Route
  BY DEF Request, Route
<1>3. \A p \in Riders : p # q.rider => entry'[p] = entry[p] /\ routes'[p] = routes[p]
  BY <1>0, <1>1
<1>4. entry'[q.rider] = IF entry[q.rider] = None THEN None ELSE e
  BY <1>0, <1>1
<1>5. \A r \in Request : r # q => asked'[r] = asked[r]
  BY <1>0, <1>1
<1>6. RoutesTypeOK'
  <2>1. entry' \in [Riders -> Entry \cup {None}] /\ asked' \in [Request -> 0 .. MaxAsked]
    BY <1>0, <1>1
  <2>2. routes' \in [Riders -> Route \cup {None}]
    BY <1>0, <1>2
  <2>3. trip = None => entry' = Nobody
    BY <1>0, <1>1 DEF RoutesInv, RoutesTypeOK, Nobody
  <2>4. QED
    BY <1>1, <2>1, <2>2, <2>3 DEF RoutesInv, RoutesTypeOK, Nobody
<1>7. EntriesAreListed'
  BY <1>1, <1>3, <1>4 DEF RoutesInv, EntriesAreListed
<1>8. RoutesRemembered'
  <2>1. SUFFICES ASSUME NEW p \in Legend
                 PROVE  /\ entry'[p] # None
                        /\ entry'[p].origin # None =>
                             routes'[p] = [from |-> entry'[p].origin, to |-> entry'[p].dest]
    BY <1>1 DEF RoutesRemembered, Legend
  <2>2. p \in Riders /\ entry[p] # None
        /\ (entry[p].origin # None => routes[p] = [from |-> entry[p].origin, to |-> entry[p].dest])
    BY DEF RoutesInv, RoutesRemembered, Legend
  <2>3. CASE p # q.rider
    BY <1>3, <2>2, <2>3
  <2>4. CASE p = q.rider
    <3>1. entry'[p] = e /\ e # None
      BY <1>4, <2>2, <2>4
    <3>2. CASE routes' = [routes EXCEPT ![q.rider] = [from |-> q.from, to |-> q.to]]
               /\ e.origin = q.from /\ e.dest = q.to
      BY <1>0, <2>4, <3>1, <3>2
    <3>3. CASE UNCHANGED routes /\ e.origin = entry[p].origin /\ e.dest = entry[p].dest
      BY <2>2, <3>1, <3>3
    <3>4. QED
      BY <2>2, <2>4, <3>2, <3>3
  <2>5. QED
    BY <2>3, <2>4
<1>9. NoRiderIsStuck'
  <2>1. SUFFICES ASSUME NEW p \in Riders, entry'[p] # None, entry'[p].busy
                 PROVE  \E r \in Request : r.rider = p /\ asked'[r] > 0
    BY DEF NoRiderIsStuck, AskedFor
  <2>2. p # q.rider /\ entry[p] # None /\ entry[p].busy
    BY <1>3, <1>4, <2>1
  <2>3. PICK r \in Request : r.rider = p /\ asked[r] > 0
    BY <2>2 DEF RoutesInv, NoRiderIsStuck, AskedFor
  <2>4. QED
    BY <1>5, <2>2, <2>3
<1>10. QED
  BY <1>6, <1>7, <1>8, <1>9 DEF RoutesInv

\* Every step of the routes keeps their invariant.
LEMMA RoutesInductive ==
    ASSUME RoutesInv, RoutesNext
    PROVE  RoutesInv'
<1> USE RoutesAssumption
<1>0. /\ trip \in Dests \cup {None} /\ where \in [Riders -> Positions \cup {None}]
      /\ entry \in [Riders -> Entry \cup {None}] /\ hidden \subseteq Riders
  BY DEF RoutesInv, RoutesTypeOK
<1>1. ASSUME NEW d \in Dests \cup {None}, NEW at \in [Riders -> Positions \cup {None}], SetTrip(d, at)
      PROVE  RoutesInv'
  <2>1. trip' = d /\ where' = at /\ (d = None => at = Nobody) /\ RouteEffect(d, at) /\ UNCHANGED hidden
    BY <1>1 DEF SetTrip
  <2>2. RouteEffect(trip', where')
    BY <2>1
  <2>3. QED
    BY <2>1, <2>2, RouteEffectKeeps
<1>2. ASSUME NEW p \in Riders, NEW x \in Positions \cup {None}, Hear(p, x) PROVE RoutesInv'
  <2>1. trip # None /\ where' = [where EXCEPT ![p] = x] /\ RouteEffect(trip, where') /\ trip' = trip
        /\ UNCHANGED hidden
    BY <1>2 DEF Hear
  <2>2. where' \in [Riders -> Positions \cup {None}]
    BY <1>0, <2>1
  <2>3. RouteEffect(trip', where')
    BY <2>1
  <2>4. QED
    BY <1>0, <2>1, <2>2, <2>3, RouteEffectKeeps
<1>3. ASSUME NEW p \in Riders, IntervalEnds(p) PROVE RoutesInv'
  <2>1. entry[p] # None /\ entry' = [entry EXCEPT ![p].recent = FALSE]
        /\ UNCHANGED <<trip, where, routes, asked, hidden>>
    BY <1>3 DEF IntervalEnds
  <2>2. entry[p] \in Entry
    BY <1>0, <2>1
  <2>3. /\ entry'[p] \in Entry /\ entry'[p].busy = entry[p].busy
        /\ entry'[p].origin = entry[p].origin /\ entry'[p].dest = entry[p].dest
        /\ \A r \in Riders : r # p => entry'[r] = entry[r]
    BY <1>0, <2>1, <2>2 DEF Entry
  <2>4. entry' \in [Riders -> Entry \cup {None}]
    BY <1>0, <2>1, <2>3
  <2>5. entry'[p] # None
    BY <2>3, RecordAssumption
  <2>6. trip # None
    BY <2>1 DEF RoutesInv, RoutesTypeOK, Nobody
  <2>7. QED
    BY <2>1, <2>3, <2>4, <2>5, <2>6
    DEF RoutesInv, RoutesTypeOK, EntriesAreListed, RoutesRemembered, NoRiderIsStuck, AskedFor, Legend
<1>4. ASSUME UNCHANGED <<trip, where, entry, routes, asked>>, hidden' \subseteq Riders PROVE RoutesInv'
  BY <1>4 DEF RoutesInv, RoutesTypeOK, EntriesAreListed, RoutesRemembered, NoRiderIsStuck, AskedFor, Legend
<1>5. ASSUME NEW p \in Riders, ToggleRider(p) PROVE RoutesInv'
  BY <1>0, <1>4, <1>5 DEF ToggleRider
<1>6. CASE ToggleAll
  BY <1>0, <1>4, <1>6 DEF ToggleAll, Legend
<1>7. ASSUME NEW q \in Request, RouteAnswers(q) PROVE RoutesInv'
  <2> DEFINE e == [busy |-> FALSE, recent |-> TRUE, origin |-> q.from, dest |-> q.to]
  <2>1. e \in Entry /\ ~e.busy /\ e.origin = q.from /\ e.dest = q.to
    BY DEF Entry, Request
  <2>2. Over(q, e) /\ routes' = [routes EXCEPT ![q.rider] = [from |-> q.from, to |-> q.to]]
    BY <1>7 DEF RouteAnswers
  <2>3. QED
    BY <2>1, <2>2, OverKeeps
<1>8. ASSUME NEW q \in Request, RouteFails(q) PROVE RoutesInv'
  <2> DEFINE e == [entry[q.rider] EXCEPT !.busy = FALSE]
  <2>0. q.rider \in Riders
    BY DEF Request
  <2>1. CASE entry[q.rider] # None
    <3>1. entry[q.rider] \in Entry
      BY <1>0, <2>0, <2>1
    <3>2. e \in Entry /\ ~e.busy /\ e.origin = entry[q.rider].origin /\ e.dest = entry[q.rider].dest
      BY <3>1 DEF Entry
    <3>3. Over(q, e) /\ UNCHANGED routes
      BY <1>8 DEF RouteFails
    <3>4. QED
      BY <3>2, <3>3, OverKeeps
  <2>2. CASE entry[q.rider] = None
    <3> DEFINE f == [busy |-> FALSE, recent |-> FALSE, origin |-> q.from, dest |-> q.to]
    <3>1. f \in Entry /\ ~f.busy
      BY DEF Entry, Request
    <3>2. Over(q, e) /\ UNCHANGED routes
      BY <1>8 DEF RouteFails
    <3>3. Over(q, f)
      BY <1>0, <2>0, <2>2, <3>2 DEF Over
    <3>4. QED
      BY <2>2, <3>1, <3>2, <3>3, OverKeeps
  <2>3. QED
    BY <2>1, <2>2
<1>9. QED
  BY <1>1, <1>2, <1>3, <1>5, <1>6, <1>7, <1>8 DEF RoutesNext
-----------------------------------------------------------------------------
(* The screen and the ride. *)

\* Without a screen nobody is listed, and nothing has been asked for; the road
\* is asked for only for the ride that is on, and while there is none.
RideInv ==
    /\ mounted \in BOOLEAN /\ leaving \in BOOLEAN /\ (leaving => mounted)
    /\ sim \in SimRoutes \cup {None}
    /\ roadAsked \subseteq {sim} \ {None}
    /\ roadAsked # {} => path = NoPath
    /\ path = NoPath \/ path.of = sim
    /\ mounted /\ sim # None =>
          shown = Waypoints[sim] \/ (path.of = sim /\ shown = path.line)

ScreenInv == RoutesInv /\ RideInv

\* The effects of another ride.
LEMMA SimEffectsKeep ==
    ASSUME NEW r \in SimRoutes \cup {None}, SimEffects(r), sim' = r,
           mounted' \in BOOLEAN, leaving' \in BOOLEAN, leaving' => mounted'
    PROVE  RideInv'
BY RideAssumption DEF SimEffects, RideInv, NoPath

\* Nothing that the ride is made of changes, but for the place and the progress.
LEMMA RideUntouched ==
    ASSUME RideInv, UNCHANGED <<mounted, leaving, sim, path, shown, roadAsked>>
    PROVE  RideInv'
BY DEF RideInv

\* Every step of the screen keeps the invariant.
LEMMA ScreenInductive ==
    ASSUME ScreenInv, Next
    PROVE  ScreenInv'
<1> USE RideAssumption, RoutesAssumption
<1>1. CASE mounted /\ RoutesNext /\ UNCHANGED <<mounted, leaving, rideVars>>
  BY <1>1, RoutesInductive, RideUntouched DEF ScreenInv, rideVars
<1>2. ASSUME NEW r \in SimRoutes, StartSim(r) PROVE ScreenInv'
  BY <1>2, RoutesUntouched, SimEffectsKeep DEF ScreenInv, RideInv, StartSim
<1>3. CASE StopSim
  BY <1>3, RoutesUntouched, SimEffectsKeep DEF ScreenInv, RideInv, StopSim
<1>4. ASSUME NEW r \in SimRoutes, RoadAnswers(r) \/ RoadFails(r) PROVE ScreenInv'
  <2>1. UNCHANGED routeVars /\ UNCHANGED <<mounted, leaving, sim, shown>>
        /\ r \in roadAsked /\ roadAsked' = roadAsked \ {r} /\ (path' = NoPath \/ path'.of = r)
    BY <1>4 DEF RoadAnswers, RoadFails
  <2>2. roadAsked' = {} /\ r = sim /\ path = NoPath
    BY <2>1 DEF ScreenInv, RideInv
  <2>3. mounted /\ sim # None => shown = Waypoints[sim]
    BY <2>1, <2>2 DEF ScreenInv, RideInv, NoPath
  <2>4. path' = NoPath \/ path'.of = sim
    BY <2>1, <2>2
  <2>5. RideInv'
    BY <2>1, <2>2, <2>3, <2>4 DEF ScreenInv, RideInv
  <2>6. QED
    BY <2>1, <2>5, RoutesUntouched DEF ScreenInv
<1>5. ASSUME NEW r \in SimRoutes, StaleRoadAnswers(r) PROVE ScreenInv'
  BY <1>5, RoutesUntouched, RideUntouched DEF ScreenInv, StaleRoadAnswers
<1>6. CASE RenderLine
  <2>1. UNCHANGED routeVars /\ UNCHANGED <<mounted, leaving, sim, path, roadAsked>>
        /\ shown' = RouteLine(sim, path) /\ sim # None
    BY <1>6 DEF RenderLine
  <2>2. shown' = Waypoints[sim] \/ (path.of = sim /\ shown' = path.line)
    BY <2>1 DEF RouteLine, NoPath, ScreenInv, RideInv
  <2>3. QED
    BY <2>1, <2>2, RoutesUntouched DEF ScreenInv, RideInv
<1>7. CASE Tick \/ Geolocation
  BY <1>7, RoutesUntouched, RideUntouched DEF ScreenInv, Tick, Geolocation
<1>8. CASE Enter
  <2>1. RideInv'
    <3>1. SimEffects(sim) /\ sim' = sim /\ mounted' = TRUE /\ leaving' = leaving
      BY <1>8 DEF Enter
    <3>2. QED
      BY <3>1, SimEffectsKeep DEF ScreenInv, RideInv
  <2>2. RoutesInv'
    <3>1. trip' = trip /\ where' \in [Riders -> Positions \cup {None}]
          /\ (trip = None => where' = Nobody) /\ RouteEffect(trip, where') /\ UNCHANGED hidden
      BY <1>8 DEF Enter
    <3>2. RouteEffect(trip', where') /\ trip' \in Dests \cup {None}
      BY <3>1 DEF ScreenInv, RoutesInv, RoutesTypeOK
    <3>3. QED
      BY <3>1, <3>2, RouteEffectKeeps DEF ScreenInv
  <2>3. QED
    BY <2>1, <2>2 DEF ScreenInv
<1>9. CASE Leave
  <2>1. RideInv'
    <3>1. mounted' = TRUE /\ leaving' = TRUE /\ sim' = None
      BY <1>9 DEF Leave, ScreenInv, RideInv
    <3>2. CASE sim = None
      <4>1. UNCHANGED <<path, shown, roadAsked>>
        BY <1>9, <3>2 DEF Leave
      <4>2. QED
        BY <3>1, <3>2, <4>1 DEF ScreenInv, RideInv
    <3>3. CASE sim # None
      BY <1>9, <3>1, <3>3, SimEffectsKeep DEF Leave
    <3>4. QED
      BY <3>2, <3>3
  <2>2. RoutesInv'
    <3>1. trip' = None /\ where' = Nobody /\ RouteEffect(trip', where') /\ UNCHANGED hidden
      BY <1>9 DEF Leave
    <3>2. where' \in [Riders -> Positions \cup {None}]
      BY <3>1 DEF Nobody
    <3>3. QED
      BY <3>1, <3>2, RouteEffectKeeps DEF ScreenInv
  <2>3. QED
    BY <2>1, <2>2 DEF ScreenInv
<1>10. CASE Return
  BY <1>10, RoutesUntouched DEF Return, ScreenInv, RideInv, rideVars
<1>11. CASE Unmount
  <2>1. RideInv'
    BY <1>11 DEF Unmount, ScreenInv, RideInv, NoPath
  <2>2. RoutesInv'
    <3>1. where' = Nobody /\ entry' = Nobody /\ routes' = Nobody /\ hidden' = {}
          /\ asked' = [q \in Request |-> 0] /\ trip' = trip
      BY <1>11 DEF Unmount
    <3>2. RoutesTypeOK'
      BY <3>1 DEF ScreenInv, RoutesInv, RoutesTypeOK, Nobody
    <3>3. QED
      BY <3>1, <3>2 DEF RoutesInv, EntriesAreListed, RoutesRemembered, NoRiderIsStuck, Legend, Nobody
  <2>3. QED
    BY <2>1, <2>2 DEF ScreenInv
<1>12. QED
  BY <1>1, <1>2, <1>3, <1>4, <1>5, <1>6, <1>7, <1>8, <1>9, <1>10, <1>11 DEF Next

\* There is no screen to begin with.
LEMMA ScreenInitial ==
    ASSUME Init
    PROVE  ScreenInv
<1> USE RideAssumption, RoutesAssumption
<1>1. trip = None /\ where = Nobody /\ entry = Nobody /\ routes = Nobody
      /\ asked = [q \in Request |-> 0] /\ hidden = {}
  BY DEF Init, RoutesInit
<1>2. RoutesInv
  BY <1>1 DEF RoutesInv, RoutesTypeOK, EntriesAreListed, RoutesRemembered, NoRiderIsStuck, Legend, Nobody
<1>3. RideInv
  BY DEF Init, RideInv, NoPath
<1>4. QED
  BY <1>2, <1>3 DEF ScreenInv

\* Nothing changes, nothing breaks.
LEMMA ScreenStutters ==
    ASSUME ScreenInv, UNCHANGED vars
    PROVE  ScreenInv'
BY RoutesUntouched, RideUntouched DEF ScreenInv, vars, rideVars

\* ScreenInv always holds.
LEMMA ScreenCorrect == Spec => []ScreenInv
<1>1. ScreenInv /\ [Next]_vars => ScreenInv'
  BY ScreenInductive, ScreenStutters
<1>2. QED
  BY <1>1, ScreenInitial, PTL DEF Spec

\* A rider who is not asked for again is shown the way to this trip's
\* destination, from where the entry says (App.tsx 743-799).
THEOREM RoutesAreOfThisTrip == Spec => []RoutesFollowTrip
<1>1. ScreenInv => RoutesFollowTrip
  BY DEF ScreenInv, RoutesInv, RoutesRemembered, RoutesFollowTrip
<1>2. QED
  BY <1>1, ScreenCorrect, PTL

\* Whoever waits for a route has a request under way (App.tsx 793-798).
THEOREM RidersAreAskedFor == Spec => []NoRiderIsStuck
<1>1. ScreenInv => NoRiderIsStuck
  BY DEF ScreenInv, RoutesInv
<1>2. QED
  BY <1>1, ScreenCorrect, PTL

\* The road under the ride is of the route that is simulated (App.tsx 559-587).
THEOREM RoadFollowsRide == Spec => []RoadIsOfThisRoute
<1>1. ScreenInv => RoadIsOfThisRoute
  BY DEF ScreenInv, RideInv, RoadIsOfThisRoute, NoPath
<1>2. QED
  BY <1>1, ScreenCorrect, PTL

-----------------------------------------------------------------------------
(* Distances along a line.                                                 *)

Plus == [x \in Nat \X Nat |-> x[1] + x[2]]

\* The sum of a sequence is the outcome of its additions.
LEMMA SumFold ==
    ASSUME NEW q \in Seq(Nat)
    PROVE  Sum(q) = Outcome(Nat, Plus, 0, q)
<1> DEFINE Body(it) == [s \in SUBSET DOMAIN q |->
                          IF s = {} THEN 0 ELSE it[s \ {Max(s)}] + q[Max(s)]]
           it == CHOOSE x : x = Body(x)
<1>0. Plus \in Steps(Nat, Nat)
  BY DEF Plus, Steps
<1>1. PICK t \in FoldTables(Nat, Plus, 0, q) : TRUE
  BY <1>0, FoldTableExists
<1>2. t = Body(t)
  BY <1>1, TakeGreatest DEF FoldTables, Plus
<1>3. it = Body(it)
  <2> HIDE DEF Body
  <2> QED
    BY <1>2
<1>4. LikeFoldTable(Nat, Plus, 0, q, it)
  <2> HIDE DEF it
  <2> QED
    BY <1>3, TakeGreatest DEF LikeFoldTable, Plus
<1>5. Sum(q) = it[DOMAIN q]
  BY DEF Sum, FoldLeft, MapThenFoldSet
<1> QED
  <2> DEFINE N == Nat
             z == 0
  <2>1. Plus \in Steps(N, N) /\ z \in N /\ q \in Seq(N) /\ LikeFoldTable(N, Plus, z, q, it)
    BY <1>0, <1>4
  <2>2. it[DOMAIN q] = Outcome(N, Plus, z, q)
    <3> HIDE DEF it, N, z
    <3> QED
      BY <2>1, FoldTableOutcome
  <2> QED
    BY <1>5, <2>2

\* The sum of no numbers, and with one more.
LEMMA Sums ==
    ASSUME NEW q \in Seq(Nat)
    PROVE  /\ Sum(<<>>) = 0
           /\ Sum(q) \in Nat
           /\ \A n \in Nat : Sum(Append(q, n)) = Sum(q) + n
<1>1. Plus \in Steps(Nat, Nat) /\ \A x, y \in Nat : Plus[<<x, y>>] = x + y
  BY DEF Plus, Steps
<1>2. <<>> \in Seq(Nat) /\ \A n \in Nat : Append(q, n) \in Seq(Nat)
  OBVIOUS
<1> DEFINE N == Nat
           z == 0
<1>3. Outcome(N, Plus, z, <<>>) = z /\ Outcome(N, Plus, z, q) \in N
  <2>1. Plus \in Steps(N, N) /\ z \in N /\ q \in Seq(N)
    BY <1>1
  <2> HIDE DEF N, z
  <2> QED
    BY <2>1, OutcomeEmpty, OutcomeType
<1>4. Sum(<<>>) = 0 /\ Sum(q) \in Nat
  BY <1>2, <1>3, SumFold
<1>5. ASSUME NEW n \in Nat PROVE Sum(Append(q, n)) = Sum(q) + n
  <2>1. Outcome(Nat, Plus, 0, Append(q, n)) = Plus[<<Outcome(Nat, Plus, 0, q), n>>]
    BY <1>1, OutcomeAppend
  <2> QED
    BY <1>1, <1>2, <1>4, <2>1, SumFold
<1> QED
  BY <1>4, <1>5

\* The distance from the start of a line to the end of its segment i.
Upto(line, i) == Sum(SubSeq(line, 1, i))

\* A segment adds its length to that distance.
LEMMA Distances ==
    ASSUME NEW line \in Seq(Nat)
    PROVE  /\ Upto(line, 0) = 0
           /\ Upto(line, Len(line)) = LineLength(line)
           /\ \A i \in 0 .. Len(line) : Upto(line, i) \in Nat
           /\ \A i \in 1 .. Len(line) : Upto(line, i) = Upto(line, i - 1) + line[i]
<1>1. Len(line) \in Nat /\ \A i \in 1 .. Len(line) : line[i] \in Nat
  OBVIOUS
<1>2. \A i \in 0 .. Len(line) : SubSeq(line, 1, i) \in Seq(Nat)
  OBVIOUS
<1>3. SubSeq(line, 1, 0) = <<>>
  OBVIOUS
<1>4. SubSeq(line, 1, Len(line)) = line
  OBVIOUS
<1>5. ASSUME NEW i \in 1 .. Len(line)
      PROVE  SubSeq(line, 1, i) = Append(SubSeq(line, 1, i - 1), line[i])
  OBVIOUS
<1>6. Upto(line, 0) = 0
  BY <1>2, <1>3, Sums DEF Upto
<1>7. Upto(line, Len(line)) = LineLength(line)
  BY <1>4 DEF Upto, LineLength
<1>8. \A i \in 0 .. Len(line) : Upto(line, i) \in Nat
  BY <1>2, Sums DEF Upto
<1>9. ASSUME NEW i \in 1 .. Len(line)
      PROVE  Upto(line, i) = Upto(line, i - 1) + line[i]
  <2>1. i - 1 \in 0 .. Len(line)
    BY <1>1
  <2> QED
    BY <1>1, <1>2, <1>5, <2>1, Sums DEF Upto
<1> QED
  BY <1>6, <1>7, <1>8, <1>9

\* The way to the end of a segment is no longer than the line.
LEMMA LineIsLongest ==
    ASSUME NEW line \in Seq(Nat), NEW i \in 0 .. Len(line)
    PROVE  Upto(line, i) <= LineLength(line)
<1> DEFINE S == {n \in Nat : i + n <= Len(line) => Upto(line, i) <= Upto(line, i + n)}
<1>1. Len(line) \in Nat /\ \A n \in 1 .. Len(line) : line[n] \in Nat
  OBVIOUS
<1>2. 0 \in S
  BY <1>1, Distances
<1>3. ASSUME NEW n \in Nat, n \in S PROVE n + 1 \in S
  <2> SUFFICES ASSUME i + (n + 1) <= Len(line) PROVE Upto(line, i) <= Upto(line, i + (n + 1))
    OBVIOUS
  <2>1. /\ i + (n + 1) \in 1 .. Len(line) /\ (i + (n + 1)) - 1 = i + n
        /\ i + n \in 0 .. Len(line) /\ i + n <= Len(line)
    BY <1>1
  <2>2. Upto(line, i + (n + 1)) = Upto(line, i + n) + line[i + (n + 1)]
    BY <2>1, Distances
  <2>3. Upto(line, i) \in Nat /\ Upto(line, i + n) \in Nat /\ line[i + (n + 1)] \in Nat
    BY <1>1, <2>1, Distances
  <2>4. Upto(line, i) <= Upto(line, i + n)
    BY <1>3, <2>1
  <2> QED
    BY <2>2, <2>3, <2>4
<1>4. \A n \in Nat : n \in S
  <2> HIDE DEF S
  <2> QED
    BY <1>2, <1>3, NumbersByInduction
<1>5. Len(line) - i \in Nat /\ i + (Len(line) - i) = Len(line)
  BY <1>1
<1>6. \A n \in Nat : i + n <= Len(line) => Upto(line, i) <= Upto(line, i + n)
  BY <1>4
<1>7. Upto(line, i) <= Upto(line, i + (Len(line) - i))
  BY <1>1, <1>5, <1>6
<1> QED
  BY <1>5, <1>7, Distances

\* A line that is shown has a length.
LEMMA LinesHaveLength ==
    ASSUME NEW line \in Lines
    PROVE  line \in Seq(Nat) /\ Len(line) > 0 /\ LineLength(line) \in Nat \ {0}
<1>1. line \in Seq(Nat) /\ Len(line) \in Nat
  BY RideAssumption
<1>2. PICK i \in 1 .. Len(line) : line[i] > 0
  BY <1>1, RideAssumption
<1>3. /\ Upto(line, i) = Upto(line, i - 1) + line[i]
      /\ Upto(line, i - 1) \in Nat /\ i - 1 \in 0 .. Len(line) /\ i \in 0 .. Len(line)
      /\ LineLength(line) \in Nat /\ line[i] \in Nat
  <2>1. i - 1 \in 0 .. Len(line) /\ i \in 0 .. Len(line) /\ Len(line) \in 0 .. Len(line)
    BY <1>1
  <2> QED
    BY <1>1, <2>1, Distances
<1>4. Upto(line, i) <= LineLength(line)
  BY <1>1, <1>3, LineIsLongest
<1> QED
  BY <1>1, <1>2, <1>3, <1>4

\* Where a distance short of the end leads to: the loops stop, at a segment
\* that starts no further and ends no nearer.
LEMMA FirstStop ==
    ASSUME NEW line \in Lines, NEW d \in Nat, d < LineLength(line)
    PROVE  /\ Stops(line, d) \cup {Len(line)} = Stops(line, d)
           /\ Min(Stops(line, d)) \in 1 .. Len(line)
           /\ Upto(line, Min(Stops(line, d)) - 1) <= d
           /\ d <= Upto(line, Min(Stops(line, d)))
           /\ OnSegment(line, d, Min(Stops(line, d))) = d
<1> DEFINE i == Min(Stops(line, d))
           N == Len(line)
<1>1. /\ line \in Seq(Nat) /\ N \in Nat /\ N > 0 /\ DOMAIN line = 1 .. N
      /\ \A k \in 1 .. N : line[k] \in Nat
  BY LinesHaveLength
<1>2. \A k \in 1 .. N : /\ Upto(line, k - 1) \in Nat /\ Upto(line, k) \in Nat
                        /\ Upto(line, k) = Upto(line, k - 1) + line[k]
                        /\ Remaining(line, d, k) = d - Upto(line, k - 1)
                        /\ k \in Stops(line, d) <=> d <= Upto(line, k)
  <2> TAKE k \in 1 .. N
  <2>1. k \in 0 .. N /\ k - 1 \in 0 .. N
    BY <1>1
  <2>2. /\ Upto(line, k - 1) \in Nat /\ Upto(line, k) \in Nat
        /\ Upto(line, k) = Upto(line, k - 1) + line[k]
    BY <1>1, <2>1, Distances
  <2>3. Remaining(line, d, k) = d - Upto(line, k - 1)
    BY DEF Remaining, Upto
  <2>4. k \in Stops(line, d) <=> Remaining(line, d, k) <= line[k]
    BY <1>1 DEF Stops
  <2> QED
    BY <1>1, <2>2, <2>3, <2>4
<1>3. N \in Stops(line, d)
  BY <1>1, <1>2, Distances
<1>4. i \in Stops(line, d) /\ \A k \in Stops(line, d) : i <= k
  <2>1. Stops(line, d) \subseteq Nat
    BY <1>1 DEF Stops
  <2> QED
    BY <1>3, <2>1, LeastOf
<1>5. i \in 1 .. N
  BY <1>1, <1>4 DEF Stops
<1> HIDE DEF i
<1>6. d <= Upto(line, i)
  BY <1>2, <1>4, <1>5
<1>7. Upto(line, i - 1) <= d
  <2>1. CASE i = 1
    BY <1>1, <2>1, Distances
  <2>2. CASE i # 1
    <3>1. i - 1 \in 1 .. N /\ ~(i <= i - 1)
      BY <1>1, <1>5, <2>2
    <3>2. i - 1 \notin Stops(line, d)
      BY <1>4, <3>1
    <3> QED
      BY <1>2, <3>1, <3>2
  <2> QED
    BY <2>1, <2>2
<1>8. OnSegment(line, d, i) = d
  <2> DEFINE x == Remaining(line, d, i)
  <2>1. x = d - Upto(line, i - 1) /\ x \in Nat /\ x <= line[i] /\ line[i] \in Nat
    BY <1>1, <1>2, <1>5, <1>6, <1>7
  <2>2. Min({x, line[i]}) = x
    <3> HIDE DEF x
    <3>1. {x, line[i]} \subseteq Nat /\ {x, line[i]} # {}
      BY <2>1
    <3>2. Min({x, line[i]}) \in {x, line[i]} /\ Min({x, line[i]}) <= x
      BY <3>1, LeastOf
    <3> QED
      BY <2>1, <3>2
  <2>3. OnSegment(line, d, i) = Upto(line, i - 1) + x
    BY <2>2 DEF OnSegment, Upto
  <2> QED
    BY <1>2, <1>5, <2>1, <2>3
<1> QED
  BY <1>3, <1>5, <1>6, <1>7, <1>8 DEF i

\* getLinePosition leads that distance along the line.
LEMMA PlaceAtDistance ==
    ASSUME NEW line \in Lines, NEW d \in Nat, d < LineLength(line)
    PROVE  LinePosition(line, d) = d
BY FirstStop DEF LinePosition

\* sliceLineByDistance ends there, and goes along the segments: for any line,
\* empty segments included, and any distance short of its end, the two loops
\* of App.tsx 212-282 agree.
THEOREM SliceEndsAtDistance ==
    ASSUME NEW line \in Lines, NEW d \in Nat, d < LineLength(line)
    PROVE  LET done == SliceLine(line, d) IN
           /\ Last(done) = d
           /\ \A k \in DOMAIN done \ {Len(done)} :
                 done[k] <= done[k + 1] /\ done[k + 1] - done[k] <= line[k]
<1>1. CASE d = 0
  <2>1. SliceLine(line, d) = <<0>>
    BY <1>1 DEF SliceLine
  <2> QED
    BY <1>1, <2>1 DEF Last
<1>2. CASE d # 0
  <2> DEFINE i == Min(Stops(line, d))
             c == Corners(line, i)
             done == SliceLine(line, d)
  <2>1. /\ i \in 1 .. Len(line) /\ Upto(line, i - 1) <= d /\ d <= Upto(line, i)
        /\ OnSegment(line, d, i) = d
    BY FirstStop
  <2>2. done = Append(c, d)
    <3>1. ~(d <= 0) /\ ~(d >= LineLength(line))
      BY <1>2, LinesHaveLength
    <3> QED
      BY <2>1, <3>1 DEF SliceLine
  <2> HIDE DEF i, done
  <2>3. line \in Seq(Nat) /\ Len(line) \in Nat /\ i \in Nat
    BY <2>1, LinesHaveLength
  <2>4. \A k \in 1 .. i : /\ Upto(line, k - 1) \in Nat /\ Upto(line, k) \in Nat
                          /\ Upto(line, k) = Upto(line, k - 1) + line[k] /\ line[k] \in Nat
    <3> TAKE k \in 1 .. i
    <3>1. k \in 1 .. Len(line) /\ k \in 0 .. Len(line) /\ k - 1 \in 0 .. Len(line)
      BY <2>1, <2>3
    <3> QED
      BY <2>3, <3>1, Distances
  <2>5. c = [k \in 1 .. i |-> Upto(line, k - 1)]
    BY DEF Corners, Upto
  <2>6. c \in Seq(Nat) /\ Len(c) = i
    BY <2>3, <2>4, <2>5
  <2>7. /\ Len(done) = i + 1 /\ DOMAIN done = 1 .. i + 1 /\ done[i + 1] = d
        /\ \A k \in 1 .. i : done[k] = Upto(line, k - 1)
    BY <2>2, <2>3, <2>5, <2>6
  <2>8. ASSUME NEW k \in 1 .. i
        PROVE  done[k] <= done[k + 1] /\ done[k + 1] - done[k] <= line[k]
    <3>1. CASE k = i
      BY <2>1, <2>4, <2>7, <3>1
    <3>2. CASE k # i
      <4>1. k + 1 \in 1 .. i /\ (k + 1) - 1 = k
        BY <2>3, <3>2
      <4>2. done[k + 1] = Upto(line, k) /\ done[k] = Upto(line, k - 1)
        BY <2>7, <4>1
      <4> QED
        BY <2>4, <4>2
    <3> QED
      BY <3>1, <3>2
  <2>9. DOMAIN done \ {Len(done)} = 1 .. i
    BY <2>3, <2>7
  <2>10. Last(done) = d
    BY <2>7 DEF Last
  <2> QED
    BY <2>8, <2>9, <2>10 DEF done
<1> QED
  BY <1>1, <1>2

-----------------------------------------------------------------------------
(* Where the marker is.                                                    *)

\* While a ride is on, the timer goes by one of the lines, and a marker that
\* is along the line shown is where the progress says, short of its end.
PlaceInv ==
    /\ progress \in Nat
    /\ path \in [of : SimRoutes \cup {None}, line : Roads \cup {<<>>}]
    /\ shown \in Lines \cup {<<>>}
    /\ stale \subseteq SimRoutes
    /\ mounted /\ sim # None => shown \in Lines
    /\ location \in Nat \cup {None, Elsewhere}
    /\ location \in Nat =>
          /\ mounted /\ sim # None
          /\ progress < LineLength(shown)
          /\ location = LinePosition(shown, progress)

\* A place along another line is not a distance along this one.
LEMMA AwayIsNoDistance ==
    Away(location) \in {None, Elsewhere} /\ Away(location) \notin Nat
BY RideAssumption DEF Away

\* Nothing that the place is made of changes.
LEMMA PlaceUntouched ==
    ASSUME PlaceInv, UNCHANGED <<mounted, sim, progress, path, shown, stale, location>>
    PROVE  PlaceInv'
BY DEF PlaceInv

\* The effects of another ride, with the place where it is no distance.
LEMMA SimEffectsPlace ==
    ASSUME ScreenInv, PlaceInv, NEW r \in SimRoutes \cup {None}, SimEffects(r), sim' = r,
           progress' \in Nat, location' \in {None, Elsewhere}
    PROVE  PlaceInv'
<1>1. /\ path' = NoPath /\ stale' = stale \cup roadAsked
      /\ shown' = IF r = None THEN <<>> ELSE Waypoints[r]
  BY DEF SimEffects
<1>2. roadAsked \subseteq SimRoutes
  BY DEF ScreenInv, RideInv
<1>3. r # None => shown' \in Lines
  BY <1>1 DEF Lines
<1>4. location' \notin Nat
  BY RideAssumption
<1>5. path' \in [of : SimRoutes \cup {None}, line : Roads \cup {<<>>}]
  BY <1>1 DEF NoPath
<1> QED
  BY <1>1, <1>2, <1>3, <1>4, <1>5 DEF PlaceInv

\* Every step keeps the place: only the timer puts the marker on the line.
LEMMA PlaceInductive ==
    ASSUME ScreenInv, PlaceInv, [Next]_vars
    PROVE  PlaceInv'
<1> USE RideAssumption, RoutesAssumption
<1>1. ASSUME UNCHANGED rideVars, UNCHANGED mounted PROVE PlaceInv'
  BY <1>1, PlaceUntouched DEF rideVars
<1>2. CASE \/ UNCHANGED vars
           \/ Return
           \/ mounted /\ RoutesNext /\ UNCHANGED <<mounted, leaving, rideVars>>
  BY <1>1, <1>2 DEF vars, Return
<1>3. ASSUME NEW r \in SimRoutes, StartSim(r) PROVE PlaceInv'
  BY <1>3, AwayIsNoDistance, SimEffectsPlace DEF StartSim
<1>4. CASE StopSim
  BY <1>4, AwayIsNoDistance, SimEffectsPlace DEF StopSim
<1>5. ASSUME NEW r \in SimRoutes, RoadAnswers(r) \/ RoadFails(r) PROVE PlaceInv'
  <2>1. path' \in [of : SimRoutes \cup {None}, line : Roads \cup {<<>>}]
    BY <1>5 DEF RoadAnswers, RoadFails, NoPath
  <2>2. UNCHANGED <<mounted, sim, progress, shown, stale, location>>
    BY <1>5 DEF RoadAnswers, RoadFails
  <2>3. QED
    BY <2>1, <2>2 DEF PlaceInv
<1>6. ASSUME NEW r \in SimRoutes, StaleRoadAnswers(r) PROVE PlaceInv'
  BY <1>6 DEF StaleRoadAnswers, PlaceInv
<1>7. CASE RenderLine
  <2>1. /\ sim \in SimRoutes /\ shown' = RouteLine(sim, path)
        /\ location' = Away(location)
        /\ UNCHANGED <<mounted, sim, progress, path, stale>>
    BY <1>7 DEF RenderLine, ScreenInv, RideInv
  <2>2. shown' \in Lines
    BY <2>1 DEF RouteLine, Lines, PlaceInv
  <2>3. QED
    BY <2>1, <2>2, AwayIsNoDistance DEF PlaceInv
<1>8. CASE Tick
  <2>1. /\ mounted /\ sim # None /\ shown \in Lines /\ progress \in Nat
        /\ UNCHANGED <<mounted, sim, path, shown, stale>>
        /\ progress' = IF progress + Pace >= LineLength(shown) THEN 0 ELSE progress + Pace
        /\ location' = LinePosition(shown, progress')
    BY <1>8 DEF Tick, PlaceInv
  <2>2. LineLength(shown) \in Nat \ {0}
    BY <2>1, LinesHaveLength
  <2>3. progress' \in Nat /\ progress' < LineLength(shown)
    BY <2>1, <2>2
  <2>4. location' \in Nat
    BY <2>1, <2>3, PlaceAtDistance
  <2>5. QED
    BY <2>1, <2>3, <2>4 DEF PlaceInv
<1>9. CASE Geolocation
  BY <1>9 DEF Geolocation, PlaceInv
<1>10. CASE Enter
  <2>1. SimEffects(sim) /\ ~mounted /\ UNCHANGED <<sim, progress, location>>
    BY <1>10 DEF Enter
  <2>2. location \in {None, Elsewhere} /\ progress \in Nat /\ sim \in SimRoutes \cup {None}
    BY <2>1 DEF PlaceInv, ScreenInv, RideInv
  <2>3. QED
    BY <2>1, <2>2, SimEffectsPlace
<1>11. CASE Leave
  <2>1. sim' = None /\ progress' = 0 /\ location' = None
    BY <1>11 DEF Leave
  <2>2. CASE sim = None
    BY <1>11, <2>1, <2>2 DEF Leave, PlaceInv
  <2>3. CASE sim # None
    BY <1>11, <2>1, <2>3, SimEffectsPlace DEF Leave
  <2>4. QED
    BY <2>2, <2>3
<1>12. CASE Unmount
  <2>1. /\ path' = NoPath /\ shown' = <<>> /\ stale' = {} /\ ~mounted'
        /\ location' = Away(location) /\ UNCHANGED <<sim, progress>>
    BY <1>12 DEF Unmount
  <2>2. path' \in [of : SimRoutes \cup {None}, line : Roads \cup {<<>>}]
    BY <2>1 DEF NoPath
  <2>3. QED
    BY <2>1, <2>2, AwayIsNoDistance DEF PlaceInv
<1>13. QED
  <2>1. CASE Next
    BY <1>2, <1>3, <1>4, <1>5, <1>6, <1>7, <1>8, <1>9, <1>10, <1>11, <1>12, <2>1 DEF Next
  <2>2. QED
    BY <1>2, <2>1

\* PlaceInv always holds.
LEMMA PlaceCorrect == Spec => []PlaceInv
<1>1. Init => PlaceInv
  BY RideAssumption DEF Init, NoPath, PlaceInv
<1>2. QED
  BY <1>1, PlaceInductive, ScreenCorrect, PTL DEF Spec

\* The variables of the screen hold what they should, and a road is asked for
\* only for the ride that is on.
THEOREM ScreenTypeCorrect == Spec => []TypeOK
<1>1. ScreenInv /\ PlaceInv => TypeOK
  BY DEF ScreenInv, RoutesInv, RideInv, PlaceInv, TypeOK
<1>2. QED
  BY <1>1, ScreenCorrect, PlaceCorrect, PTL

\* Whatever the lines and the pace, and whenever the road replaces the line
\* through the waypoints: what the map draws as done ends at the marker and
\* runs along the line shown (App.tsx 212-282, 803-851).
THEOREM MarkerEndsDone == Spec => []DoneEndsAtMarker
<1>1. ASSUME ScreenInv, PlaceInv PROVE DoneEndsAtMarker
  <2> SUFFICES ASSUME sim # None, location \in Nat
               PROVE  LET done == SliceLine(shown, progress) IN
                      /\ Last(done) = location
                      /\ progress < LineLength(shown)
                      /\ \A i \in DOMAIN done \ {Len(done)} :
                            done[i] <= done[i + 1] /\ done[i + 1] - done[i] <= shown[i]
    BY DEF DoneEndsAtMarker
  <2>1. /\ shown \in Lines /\ progress \in Nat /\ progress < LineLength(shown)
        /\ location = LinePosition(shown, progress)
    BY <1>1 DEF PlaceInv
  <2>2. location = progress
    BY <2>1, PlaceAtDistance
  <2>3. QED
    BY <2>1, <2>2, SliceEndsAtDistance
<1>2. QED
  BY <1>1, ScreenCorrect, PlaceCorrect, PTL

=============================================================================
