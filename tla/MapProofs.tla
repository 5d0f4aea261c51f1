------------------------------ MODULE MapProofs ------------------------------
(***************************************************************************)
(* What the map component keeps, for any number of styles, children,       *)
(* markers and popups: children draw on a style that is loaded, what they  *)
(* drew is what they were given, whoever waits for a style will have it,   *)
(* and popups are where their markers are.                                 *)
(***************************************************************************)
EXTENDS MapView, TLAPS

\* Without a map nothing is under way; a map that has been seen to load has a
\* style; a child that has drawn nothing has no feature state.
CanvasFacts ==
    /\ ~up => /\ ~isLoaded /\ ~isStyleLoaded /\ ~changed
              /\ first = None /\ fetching = None /\ canvas = None
    /\ isLoaded => canvas # None
    /\ \A o \in Overlays : drawn[o] = None => lit[o] = {}

CanvasInv == CanvasTypeOK /\ CanvasFacts /\ SafeToAdd /\ DrawnIsWanted /\ StyleWillLoad

\* The effects of all children keep the types, and what is drawn to what is wanted.
LEMMA RedrawDraws ==
    ASSUME CanvasInv, NEW loaded \in BOOLEAN, NEW styled \in BOOLEAN,
           Redraw(loaded, styled), Recovers(loaded, styled), UNCHANGED wanted
    PROVE  /\ drawn' \in [Overlays -> Data \cup {None}] /\ changed' \in BOOLEAN /\ wiped' \in BOOLEAN
           /\ hovered' \in [Overlays -> Arcs \cup {None}] /\ lit' \in [Overlays -> SUBSET Arcs]
           /\ changed => changed'
           /\ \A o \in Overlays : drawn'[o] \in {None, wanted[o]} /\ lit'[o] \subseteq {hovered'[o]}
           /\ \A o \in Overlays : drawn'[o] = None => lit'[o] = {}
           /\ loaded /\ styled /\ ~wiped' => drawn' = wanted
           /\ ~(loaded /\ styled) => drawn' = NoOverlays
<1> USE CanvasAssumption DEF CanvasInv, CanvasTypeOK, CanvasFacts, SafeToAdd, DrawnIsWanted,
                             MayDraw, NoOverlays, Dark
<1>1. CASE (loaded /\ styled) = (isLoaded /\ isStyleLoaded)
  BY <1>1 DEF Redraw, Recovers
<1>2. CASE (loaded /\ styled) # (isLoaded /\ isStyleLoaded)
  <2>1. /\ drawn' = IF loaded /\ styled THEN wanted ELSE NoOverlays
        /\ lit' = Dark /\ hovered' = NoOverlays
        /\ changed' = (changed \/ wanted # NoOverlays)
        /\ wiped' = FALSE
    BY <1>2 DEF Redraw, Recovers
  <2>2. QED
    BY <1>2, <2>1
<1>3. QED
  BY <1>1, <1>2

\* The steps that change the flags.
LEMMA FlagsInductive ==
    ASSUME CanvasInv,
           StyleTimeout \/ LoadHandler \/ \E s \in Styles : ChangeStyle(s)
    PROVE  CanvasInv'
<1> USE CanvasAssumption DEF CanvasInv, CanvasTypeOK, CanvasFacts, SafeToAdd, DrawnIsWanted,
                             StyleWillLoad, MayDraw
<1>1. CASE StyleTimeout
  <2>1. isLoaded \in BOOLEAN /\ UNCHANGED wanted /\ Redraw(isLoaded, TRUE) /\ Recovers(isLoaded, TRUE)
    BY <1>1 DEF StyleTimeout
  <2>2. QED
    BY <1>1, <2>1, RedrawDraws DEF StyleTimeout
<1>2. CASE LoadHandler
  <2>1. isStyleLoaded \in BOOLEAN /\ UNCHANGED wanted
        /\ Redraw(TRUE, isStyleLoaded) /\ Recovers(TRUE, isStyleLoaded)
    BY <1>2 DEF LoadHandler
  <2>2. QED
    BY <1>2, <2>1, RedrawDraws DEF LoadHandler
<1>3. ASSUME NEW s \in Styles, ChangeStyle(s) PROVE CanvasInv'
  <2>1. isLoaded \in BOOLEAN /\ UNCHANGED wanted
        /\ Redraw(isLoaded, FALSE) /\ Recovers(isLoaded, FALSE)
    BY <1>3 DEF ChangeStyle
  <2>2. QED
    BY <1>3, <2>1, RedrawDraws DEF ChangeStyle
<1>4. QED
  BY <1>1, <1>2, <1>3

\* The children: they mount, get other data, go, and are hovered.
LEMMA ChildrenInductive ==
    ASSUME CanvasInv, NEW o \in Overlays,
           \/ \E d \in Data : MountOverlay(o, d) \/ UpdateOverlay(o, d)
           \/ UnmountOverlay(o)
           \/ \E a \in Arcs \cup {None} : SetHover(o, a)
    PROVE  CanvasInv'
<1> USE CanvasAssumption DEF CanvasInv, CanvasTypeOK, CanvasFacts, SafeToAdd, DrawnIsWanted,
                             StyleWillLoad, MayDraw, NoOverlays, flags
<1>1. ASSUME NEW d \in Data, MountOverlay(o, d) PROVE CanvasInv'
  <2>1. CASE isLoaded /\ isStyleLoaded
    <3>1. /\ wanted' = [wanted EXCEPT ![o] = d] /\ drawn' = [drawn EXCEPT ![o] = d] /\ changed' = TRUE
          /\ UNCHANGED <<up, current, flags, hovered, first, fetching, canvas, lit, wiped, lost>>
      BY <1>1, <2>1 DEF MountOverlay
    <3>2. wanted' \in [Overlays -> Data \cup {None}] /\ drawn' \in [Overlays -> Data \cup {None}]
      BY <3>1
    <3>3. drawn = wanted => drawn' = wanted'
      BY <3>1
    <3>4. up
      BY <1>1 DEF MountOverlay
    <3>5. QED
      BY <2>1, <3>1, <3>2, <3>3, <3>4
  <2>2. CASE ~(isLoaded /\ isStyleLoaded)
    BY <1>1, <2>2 DEF MountOverlay
  <2>3. QED
    BY <2>1, <2>2
<1>2. ASSUME NEW d \in Data, UpdateOverlay(o, d) PROVE CanvasInv'
  BY <1>2 DEF UpdateOverlay
<1>3. CASE UnmountOverlay(o)
  BY <1>3 DEF UnmountOverlay
<1>4. ASSUME NEW a \in Arcs \cup {None}, SetHover(o, a) PROVE CanvasInv'
  <2>1. /\ hovered' = [hovered EXCEPT ![o] = a]
        /\ UNCHANGED <<up, current, flags, wanted, first, fetching, canvas, drawn, changed, wiped, lost>>
    BY <1>4 DEF SetHover
  <2>2. ASSUME NEW e \in Overlays
        PROVE  /\ lit'[e] \subseteq {hovered'[e]} /\ lit'[e] \in SUBSET Arcs
               /\ drawn[e] = None => lit'[e] = {}
    <3>1. CASE drawn[o] = None
      BY <1>4, <2>1, <3>1 DEF SetHover
    <3>2. CASE drawn[o] # None
      <4>1. lit' = [lit EXCEPT ![o] = (@ \ {hovered[o]}) \cup ({a} \ {None})]
        BY <1>4, <3>2 DEF SetHover
      <4>2. QED
        BY <2>1, <3>2, <4>1
    <3>3. QED
      BY <3>1, <3>2
  <2>3. lit' \in [Overlays -> SUBSET Arcs]
    BY <1>4, <2>2 DEF SetHover
  <2>4. QED
    BY <2>1, <2>2, <2>3
<1>5. QED
  BY <1>1, <1>2, <1>3, <1>4

\* MapLibre, and the handlers that only set a flag or the timer.
LEMMA LibraryInductive ==
    ASSUME CanvasInv,
           \/ \E s \in Styles : MountMap(s)
           \/ UnmountMap \/ StyleDataHandler \/ FirstStyleLoads \/ StyleComes \/ StyleFails
    PROVE  CanvasInv'
<1> USE CanvasAssumption DEF CanvasInv, CanvasTypeOK, CanvasFacts, SafeToAdd, DrawnIsWanted,
                             StyleWillLoad, MayDraw, NoOverlays, Dark, flags, children
<1>1. ASSUME NEW s \in Styles, MountMap(s) PROVE CanvasInv'
  BY <1>1 DEF MountMap
<1>2. CASE UnmountMap
  BY <1>2 DEF UnmountMap
<1>3. CASE StyleDataHandler \/ FirstStyleLoads
  <2>1. CASE StyleDataHandler
    BY <2>1 DEF StyleDataHandler
  <2>2. CASE FirstStyleLoads
    BY <2>2 DEF FirstStyleLoads
  <2>3. QED
    BY <1>3, <2>1, <2>2
<1>4. CASE StyleComes
  <2>1. CASE canvas = None
    BY <1>4, <2>1 DEF StyleComes
  <2>2. CASE canvas # None
    BY <1>4, <2>2 DEF StyleComes
  <2>3. QED
    BY <2>1, <2>2
<1>5. CASE StyleFails
  BY <1>5 DEF StyleFails
<1>6. QED
  BY <1>1, <1>2, <1>3, <1>4, <1>5

\* Nothing that the canvas is made of changes.
LEMMA CanvasUntouched ==
    ASSUME CanvasInv, UNCHANGED canvasVars
    PROVE  CanvasInv'
BY DEF canvasVars, flags, children, library, CanvasInv, CanvasTypeOK, CanvasFacts, SafeToAdd,
       DrawnIsWanted, StyleWillLoad, MayDraw, NoOverlays

\* Every step of the canvas keeps its invariant.
LEMMA CanvasInductive ==
    ASSUME CanvasInv, CanvasNext \/ UnmountMap
    PROVE  CanvasInv'
BY FlagsInductive, ChildrenInductive, LibraryInductive DEF CanvasNext
-----------------------------------------------------------------------------
(* Markers and popups. *)

MapInv == CanvasInv /\ TypeOK /\ PopupsFollow

\* The canvas does not touch what is above it, which is there only with a map.
LEMMA CanvasStepInductive ==
    ASSUME MapInv, CanvasNext, UNCHANGED markerVars
    PROVE  MapInv'
<1>1. CanvasInv'
  BY CanvasInductive DEF MapInv
<1>2. up => up'
  BY DEF CanvasNext, MountMap, ChangeStyle, StyleDataHandler, StyleTimeout, LoadHandler,
         MountOverlay, UpdateOverlay, UnmountOverlay, SetHover, FirstStyleLoads, StyleComes, StyleFails
<1>3. QED
  BY <1>1, <1>2 DEF MapInv, CanvasInv, TypeOK, PopupsFollow, markerVars, Nowhere

\* A component that is taken off leaves nothing open.
LEMMA TakeOffKeeps ==
    ASSUME MapInv, NEW cs \in SUBSET Components, TakeOff(cs), UNCHANGED told
    PROVE  /\ at' \in [Components -> Spots \cup {None}] /\ popup' \in [Components -> Spots \cup {None}]
           /\ tooltip' \in [Markers -> Spots \cup {None}] /\ behind' \subseteq Markers
           /\ PopupsFollow'
BY MarkersAssumption DEF MapInv, TypeOK, PopupsFollow, TakeOff, Components

\* The steps of markers, popups and the locate button.
LEMMA MarkersInductive ==
    ASSUME MapInv, Next, ~(CanvasNext /\ UNCHANGED markerVars)
    PROVE  MapInv'
<1> USE MarkersAssumption DEF Components
<1>1. ASSUME CanvasInv', up' = up, at' \in [Components -> Spots \cup {None}],
             popup' \in [Components -> Spots \cup {None}],
             tooltip' \in [Markers -> Spots \cup {None}],
             told' \in [Popups -> BOOLEAN], waiting' \in BOOLEAN, behind' \subseteq Markers,
             ~up => at' = Nowhere /\ ~waiting', PopupsFollow'
      PROVE  MapInv'
  BY <1>1 DEF MapInv, CanvasInv, TypeOK, Nowhere
<1>2. CASE UnmountAll
  <2>1. CanvasInv' /\ TakeOff(Components) /\ UNCHANGED told /\ waiting' = FALSE
    BY <1>2, CanvasInductive DEF UnmountAll, MapInv
  <2>2. at' = Nowhere
    BY <2>1 DEF TakeOff, Nowhere
  <2>3. QED
    BY <2>1, <2>2, TakeOffKeeps DEF MapInv, CanvasInv, TypeOK, Nowhere
<1>3. ASSUME NEW c \in Components, NEW x \in Spots, Mount(c, x) PROVE MapInv'
  <2>1. CanvasInv' /\ up' = up
    BY <1>3, CanvasUntouched DEF Mount, MapInv, canvasVars
  <2>2. up /\ waiting' \in BOOLEAN
    BY <1>3 DEF Mount, MapInv, TypeOK
  <2>3. PopupsFollow'
    BY <1>3 DEF Mount, MapInv, TypeOK, PopupsFollow
  <2>4. QED
    BY <1>1, <1>3, <2>1, <2>2, <2>3 DEF Mount, MapInv, TypeOK
<1>4. ASSUME NEW c \in Components, NEW x \in Spots, Render(c, x) PROVE MapInv'
  <2>1. CanvasInv' /\ up' = up
    BY <1>4, CanvasUntouched DEF Render, MapInv, canvasVars
  <2>2. up /\ waiting' \in BOOLEAN
    BY <1>4 DEF Render, MapInv, TypeOK, Nowhere
  <2>3. PopupsFollow'
    BY <1>4 DEF Render, MapInv, TypeOK, PopupsFollow
  <2>4. QED
    BY <1>1, <1>4, <2>1, <2>2, <2>3 DEF Render, MapInv, TypeOK
<1>5. ASSUME NEW c \in Components, Unmount(c) PROVE MapInv'
  <2>1. CanvasInv' /\ up' = up /\ TakeOff({c}) /\ UNCHANGED <<told, waiting>>
    BY <1>5, CanvasUntouched DEF Unmount, MapInv, canvasVars
  <2>2. ~up => at' = Nowhere /\ ~waiting'
    BY <2>1 DEF TakeOff, MapInv, TypeOK, Nowhere
  <2>3. QED
    BY <1>1, <2>1, <2>2, TakeOffKeeps DEF MapInv, TypeOK
<1>6. ASSUME NEW c \in Components, HandleClose(c) PROVE MapInv'
  <2>1. CanvasInv' /\ up' = up
    BY <1>6, CanvasUntouched DEF HandleClose, MapInv, canvasVars
  <2>2. PopupsFollow'
    BY <1>6 DEF HandleClose, MapInv, TypeOK, PopupsFollow
  <2>3. QED
    BY <1>1, <1>6, <2>1, <2>2 DEF HandleClose, MapInv, TypeOK
<1>7. ASSUME NEW m \in Markers, TogglePopup(m) PROVE MapInv'
  <2>1. CanvasInv' /\ up' = up
    BY <1>7, CanvasUntouched DEF TogglePopup, MapInv, canvasVars
  <2>2. PopupsFollow'
    BY <1>7 DEF TogglePopup, MapInv, TypeOK, PopupsFollow
  <2>3. QED
    BY <1>1, <1>7, <2>1, <2>2 DEF TogglePopup, MapInv, TypeOK
<1>8. ASSUME NEW m \in Markers, HandleMouseEnter(m) \/ HandleMouseLeave(m) PROVE MapInv'
  <2>1. CanvasInv' /\ up' = up
    BY <1>8, CanvasUntouched DEF HandleMouseEnter, HandleMouseLeave, MapInv, canvasVars
  <2>2. PopupsFollow'
    BY <1>8 DEF HandleMouseEnter, HandleMouseLeave, MapInv, TypeOK, PopupsFollow
  <2>3. QED
    BY <1>1, <1>8, <2>1, <2>2 DEF HandleMouseEnter, HandleMouseLeave, MapInv, TypeOK
<1>9. CASE ClickMap
  <2>1. CanvasInv' /\ up' = up
    BY <1>9, CanvasUntouched DEF ClickMap, MapInv, canvasVars
  <2>2. PopupsFollow'
    BY <1>9 DEF ClickMap, MapInv, TypeOK, PopupsFollow, Nowhere
  <2>3. QED
    BY <1>1, <1>9, <2>1, <2>2 DEF ClickMap, MapInv, TypeOK, Nowhere
<1>10. CASE HandleLocate \/ Located
  <2>1. CanvasInv' /\ up' = up
    BY <1>10, CanvasUntouched DEF HandleLocate, Located, MapInv, canvasVars
  <2>2. PopupsFollow'
    BY <1>10 DEF HandleLocate, Located, MapInv, PopupsFollow
  <2>3. QED
    BY <1>1, <1>10, <2>1, <2>2 DEF HandleLocate, Located, MapInv, TypeOK
<1>11. QED
  BY <1>2, <1>3, <1>4, <1>5, <1>6, <1>7, <1>8, <1>9, <1>10 DEF Next

\* There is no map to begin with.
LEMMA MapInitial ==
    ASSUME Init
    PROVE  MapInv
<1> USE CanvasAssumption, MarkersAssumption DEF Init, CanvasInit, NoOverlays, Dark, Nowhere
<1>1. CanvasInv
  BY DEF CanvasInv, CanvasTypeOK, CanvasFacts, SafeToAdd, DrawnIsWanted, StyleWillLoad, MayDraw
<1>2. QED
  BY <1>1 DEF MapInv, CanvasInv, TypeOK, PopupsFollow, Components

\* Every step keeps the invariant.
LEMMA MapInductive ==
    ASSUME MapInv, [Next]_vars
    PROVE  MapInv'
<1>1. CASE Next
  BY <1>1, CanvasStepInductive, MarkersInductive
<1>2. CASE UNCHANGED vars
  <2>1. CanvasInv'
    BY <1>2, CanvasUntouched DEF MapInv, vars
  <2>2. QED
    BY <1>2, <2>1 DEF MapInv, CanvasInv, TypeOK, PopupsFollow, Nowhere, vars, markerVars, canvasVars
<1>3. QED
  BY <1>1, <1>2

\* The map component has the shape the code gives it, and nothing is on a map
\* that is not there (map.tsx 220-420, 985-1004).
THEOREM MapTyped == Spec => []TypeOK
<1>1. MapInv => TypeOK
  BY DEF MapInv
<1>2. QED
  BY <1>1, MapInitial, MapInductive, PTL DEF Spec

\* No child adds a source to a style that is not loaded, or one that exists
\* (map.tsx 1071-1105).
THEOREM DrawsSafely == Spec => []SafeToAdd
<1>1. MapInv => SafeToAdd
  BY DEF MapInv, CanvasInv
<1>2. QED
  BY <1>1, MapInitial, MapInductive, PTL DEF Spec

\* What is drawn is what was given last, but for what a late style wiped out
\* (map.tsx 234-245, 301-314, 1107-1119, 1451-1466).
THEOREM DrawnAsGiven == Spec => []DrawnIsWanted
<1>1. MapInv => DrawnIsWanted
  BY DEF MapInv, CanvasInv
<1>2. QED
  BY <1>1, MapInitial, MapInductive, PTL DEF Spec

\* Children that wait for a style wait for something (map.tsx 301-314).
THEOREM StyleOnItsWay == Spec => []StyleWillLoad
<1>1. MapInv => StyleWillLoad
  BY DEF MapInv, CanvasInv
<1>2. QED
  BY <1>1, MapInitial, MapInductive, PTL DEF Spec

\* Popups and tooltips are where their markers are, and owners know which are
\* open (map.tsx 461-466, 555-572, 637-660, 985-1004).
THEOREM PopupsStayWithMarkers == Spec => []PopupsFollow
<1>1. MapInv => PopupsFollow
  BY DEF MapInv
<1>2. QED
  BY <1>1, MapInitial, MapInductive, PTL DEF Spec

=============================================================================
