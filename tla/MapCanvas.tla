------------------------------ MODULE MapCanvas ------------------------------
(***************************************************************************)
(* The map component of ui/map.tsx: the MapLibre map it makes, the two     *)
(* flags that tell its children when they may draw, the change of style,   *)
(* and the children that draw with a source and layers of their own:       *)
(* MapRoute, MapArc and MapClusterLayer.                                   *)
(*                                                                         *)
(* MapLibre is modelled as far as the component sees it. A new style is    *)
(* fetched; when it comes, layers and sources it does not list are gone.   *)
(* Whatever changes the style is reported by "styledata" a frame later.    *)
(***************************************************************************)
EXTENDS Naturals

CONSTANTS
    Styles,     \* basemap styles
    Overlays,   \* children that draw
    Data,       \* what a child is given to draw
    Arcs,       \* features of a child that the pointer may be over
    None

ASSUME CanvasAssumption == None \notin Styles \cup Data \cup Arcs

VARIABLES
    up,             \* mapInstance # null
    current,        \* currentStyleRef
    isLoaded,       \* the map's load event has been seen
    isStyleLoaded,
    styleTimer,     \* styleTimeoutRef is armed
    wanted,         \* the children that are mounted, by what they are to draw
    hovered,        \* hoveredId of a child's handlers
    \* MapLibre.
    first,          \* the style being fetched to begin with
    fetching,       \* the style being fetched by setStyle
    canvas,         \* the style that is loaded
    drawn,          \* sources, with their layers, by the data they have
    lit,            \* features with the state "hover"
    changed,        \* the style has changed since the last frame
    \* History: guards nothing.
    wiped,          \* a style came while children had drawn
    lost            \* a style did not come, or was no change

flags == <<isLoaded, isStyleLoaded, styleTimer>>
children == <<wanted, hovered>>
library == <<first, fetching, canvas, drawn, lit, changed>>
canvasVars == <<up, current, flags, children, library, wiped, lost>>

NoOverlays == [o \in Overlays |-> None]
Dark == [o \in Overlays |-> {}]

CanvasInit ==
    /\ up = FALSE /\ current = None
    /\ isLoaded = FALSE /\ isStyleLoaded = FALSE /\ styleTimer = FALSE
    /\ wanted = NoOverlays /\ hovered = NoOverlays
    /\ first = None /\ fetching = None /\ canvas = None
    /\ drawn = NoOverlays /\ lit = Dark /\ changed = FALSE
    /\ wiped = FALSE /\ lost = FALSE

-----------------------------------------------------------------------------

\* The isLoaded of the context: children may draw.
MayDraw(loaded, styled) == loaded /\ styled

\* Mutant: the cleanups leave layers and sources to the style.
RedrawKeeps(loaded, styled) ==
    LET may == MayDraw(loaded, styled)
        was == MayDraw(isLoaded, isStyleLoaded) IN
    IF may = was
    THEN UNCHANGED <<drawn, lit, hovered, changed>>
    ELSE /\ drawn' = IF may THEN wanted ELSE drawn
         /\ lit' = Dark /\ hovered' = NoOverlays
         /\ changed' = (changed \/ wanted # NoOverlays)

\* The effects of all children when the flags become these: they add what they
\* have to draw, or remove what they had drawn, and forget the pointer.
Redraw(loaded, styled) ==
    LET may == MayDraw(loaded, styled)
        was == MayDraw(isLoaded, isStyleLoaded) IN
    IF may = was
    THEN UNCHANGED <<drawn, lit, hovered, changed>>
    ELSE /\ drawn' = IF may THEN wanted ELSE NoOverlays
         /\ lit' = Dark /\ hovered' = NoOverlays
         /\ changed' = (changed \/ wanted # NoOverlays)

\* What was lost with a style is drawn again once the children start over.
Recovers(loaded, styled) == wiped' = (wiped /\ MayDraw(loaded, styled) = MayDraw(isLoaded, isStyleLoaded))

\* The map is made, with the style of the theme.
MountMap(s) ==
    /\ ~up
    /\ up' = TRUE /\ current' = s /\ first' = s
    /\ UNCHANGED <<flags, children, fetching, canvas, drawn, lit, changed, wiped, lost>>

\* Its cleanup: timer and handlers are gone, the map is removed.
UnmountMap ==
    /\ up
    /\ up' = FALSE /\ current' = None
    /\ isLoaded' = FALSE /\ isStyleLoaded' = FALSE /\ styleTimer' = FALSE
    /\ wanted' = NoOverlays /\ hovered' = NoOverlays
    /\ first' = None /\ fetching' = None /\ canvas' = None
    /\ drawn' = NoOverlays /\ lit' = Dark /\ changed' = FALSE
    /\ wiped' = FALSE /\ lost' = FALSE

\* Another theme, or another style for it: children are told to stop, and the
\* style is asked for.
ChangeStyle(s) ==
    /\ up /\ current # s
    /\ current' = s
    /\ styleTimer' = FALSE
    /\ isStyleLoaded' = FALSE
    /\ Redraw(isLoaded, FALSE)
    /\ Recovers(isLoaded, FALSE)
    /\ fetching' = s
    /\ lost' = FALSE
    /\ UNCHANGED <<up, isLoaded, wanted, first, canvas>>

\* Mutant: only the first style is waited for.
StyleDataHandlerOnce ==
    /\ changed
    /\ changed' = FALSE
    /\ styleTimer' = ~isLoaded
    /\ UNCHANGED <<up, current, isLoaded, isStyleLoaded, children, first, fetching, canvas, drawn, lit, wiped, lost>>

\* styleDataHandler: the timer is set anew.
StyleDataHandler ==
    /\ changed
    /\ changed' = FALSE
    /\ styleTimer' = TRUE
    /\ UNCHANGED <<up, current, isLoaded, isStyleLoaded, children, first, fetching, canvas, drawn, lit, wiped, lost>>

\* 100 ms later: whichever style it was, children may draw.
StyleTimeout ==
    /\ styleTimer
    /\ styleTimer' = FALSE
    /\ isStyleLoaded' = TRUE
    /\ Redraw(isLoaded, TRUE)
    /\ Recovers(isLoaded, TRUE)
    /\ UNCHANGED <<up, current, isLoaded, wanted, first, fetching, canvas, lost>>

\* loadHandler
LoadHandler ==
    /\ up /\ canvas # None /\ ~isLoaded
    /\ isLoaded' = TRUE
    /\ Redraw(TRUE, isStyleLoaded)
    /\ Recovers(TRUE, isStyleLoaded)
    /\ UNCHANGED <<up, current, isStyleLoaded, styleTimer, wanted, first, fetching, canvas, lost>>

-----------------------------------------------------------------------------
(* Children. *)

\* A child mounts with data, and draws if it may.
MountOverlay(o, d) ==
    /\ up /\ wanted[o] = None
    /\ wanted' = [wanted EXCEPT ![o] = d]
    /\ IF MayDraw(isLoaded, isStyleLoaded)
       THEN drawn' = [drawn EXCEPT ![o] = d] /\ changed' = TRUE
       ELSE UNCHANGED <<drawn, changed>>
    /\ UNCHANGED <<up, current, flags, hovered, first, fetching, canvas, lit, wiped, lost>>

\* It gets other data: the source is given them, if it exists.
UpdateOverlay(o, d) ==
    /\ wanted[o] \notin {None, d}
    /\ wanted' = [wanted EXCEPT ![o] = d]
    /\ drawn' = [drawn EXCEPT ![o] = IF @ = None THEN None ELSE d]
    /\ UNCHANGED <<up, current, flags, hovered, first, fetching, canvas, lit, changed, wiped, lost>>

\* Mutant: layers and source stay on the map.
UnmountOverlayLeaves(o) ==
    /\ wanted[o] # None
    /\ wanted' = [wanted EXCEPT ![o] = None]
    /\ hovered' = [hovered EXCEPT ![o] = None]
    /\ UNCHANGED <<up, current, flags, first, fetching, canvas, drawn, lit, changed, wiped, lost>>

\* It goes, with its layers and source, if they exist.
UnmountOverlay(o) ==
    /\ wanted[o] # None
    /\ wanted' = [wanted EXCEPT ![o] = None]
    /\ hovered' = [hovered EXCEPT ![o] = None]
    /\ drawn' = [drawn EXCEPT ![o] = None]
    /\ lit' = [lit EXCEPT ![o] = {}]
    /\ changed' = (changed \/ drawn[o] # None)
    /\ UNCHANGED <<up, current, flags, first, fetching, canvas, wiped, lost>>

\* Mutant: "no arc" is given a feature state as well.
SetHoverUnchecked(o, a) ==
    /\ MayDraw(isLoaded, isStyleLoaded) /\ wanted[o] # None
    /\ a # None => drawn[o] # None
    /\ a # hovered[o]
    /\ hovered' = [hovered EXCEPT ![o] = a]
    /\ lit' = IF drawn[o] = None THEN lit
              ELSE [lit EXCEPT ![o] = (@ \ {hovered[o]}) \cup {a}]
    /\ UNCHANGED <<up, current, flags, wanted, first, fetching, canvas, drawn, changed, wiped, lost>>

\* setHover: the pointer enters an arc, or leaves the last one. The feature
\* states are changed if the source exists.
SetHover(o, a) ==
    /\ MayDraw(isLoaded, isStyleLoaded) /\ wanted[o] # None
    /\ a # None => drawn[o] # None
    /\ a # hovered[o]
    /\ hovered' = [hovered EXCEPT ![o] = a]
    /\ lit' = IF drawn[o] = None THEN lit
              ELSE [lit EXCEPT ![o] = (@ \ {hovered[o]}) \cup ({a} \ {None})]
    /\ UNCHANGED <<up, current, flags, wanted, first, fetching, canvas, drawn, changed, wiped, lost>>

-----------------------------------------------------------------------------
(* MapLibre. *)

\* The first style is there.
FirstStyleLoads ==
    /\ first # None
    /\ canvas' = first /\ first' = None
    /\ changed' = TRUE
    /\ UNCHANGED <<up, current, flags, children, fetching, drawn, lit, wiped, lost>>

\* The style of setStyle is there. Before the first it takes its place; later
\* it is compared with what is shown, and what it does not list is removed.
StyleComes ==
    /\ fetching # None
    /\ fetching' = None
    /\ IF canvas = None
       THEN first' = fetching /\ UNCHANGED <<canvas, drawn, lit, changed, wiped, lost>>
       ELSE /\ canvas' = fetching
            /\ drawn' = NoOverlays /\ lit' = Dark
            /\ changed' = (changed \/ fetching # canvas \/ drawn # NoOverlays)
            /\ wiped' = (wiped \/ drawn # NoOverlays)
            /\ lost' = ~changed'
            /\ UNCHANGED first
    /\ UNCHANGED <<up, current, flags, children>>

\* A style cannot be had: the map goes on with what it has.
StyleFails ==
    /\ \/ fetching # None /\ fetching' = None /\ UNCHANGED first
       \/ first # None /\ first' = None /\ UNCHANGED fetching
    /\ lost' = TRUE
    /\ UNCHANGED <<up, current, flags, children, canvas, drawn, lit, changed, wiped>>

\* All but UnmountMap, which takes what is above the canvas along.
CanvasNext ==
    \/ \E s \in Styles : MountMap(s) \/ ChangeStyle(s)
    \/ StyleDataHandler \/ StyleTimeout \/ LoadHandler
    \/ \E o \in Overlays, d \in Data : MountOverlay(o, d) \/ UpdateOverlay(o, d)
    \/ \E o \in Overlays : UnmountOverlay(o)
    \/ \E o \in Overlays, a \in Arcs \cup {None} : SetHover(o, a)
    \/ FirstStyleLoads \/ StyleComes \/ StyleFails

-----------------------------------------------------------------------------
(* Properties. *)

CanvasTypeOK ==
    /\ up \in BOOLEAN /\ isLoaded \in BOOLEAN /\ isStyleLoaded \in BOOLEAN
    /\ styleTimer \in BOOLEAN /\ changed \in BOOLEAN
    /\ wiped \in BOOLEAN /\ lost \in BOOLEAN
    /\ {current, first, fetching, canvas} \subseteq Styles \cup {None}
    /\ wanted \in [Overlays -> Data \cup {None}]
    /\ drawn \in [Overlays -> Data \cup {None}]
    /\ hovered \in [Overlays -> Arcs \cup {None}]
    /\ lit \in [Overlays -> SUBSET Arcs]

\* Children add sources and layers only to a style that is loaded, and none
\* that is there already; MapLibre throws otherwise, and takes the page down.
\* So what they drew is gone whenever they may not draw (map.tsx 1071-1105).
SafeToAdd ==
    IF MayDraw(isLoaded, isStyleLoaded) THEN canvas # None ELSE drawn = NoOverlays

\* The map shows what its children were given last, and nothing of a child or
\* a map that has gone, through changes of style, late timers and styles that
\* fail; and no arc looks hovered but the one the handlers remember. Excused is
\* what a style that comes after the children started to draw again takes with
\* it (map.tsx 234-245, 301-314, 1107-1119, 1451-1466).
DrawnIsWanted ==
    /\ \A o \in Overlays : drawn[o] \in {None, wanted[o]}
    /\ MayDraw(isLoaded, isStyleLoaded) /\ ~wiped => drawn = wanted
    /\ ~up => wanted = NoOverlays /\ ~styleTimer
    /\ \A o \in Overlays : lit[o] \subseteq {hovered[o]}

\* While children wait for a style, something is under way that ends the wait,
\* or the style asked for has failed or was the one shown (map.tsx 301-314).
StyleWillLoad ==
    up /\ ~isStyleLoaded => first # None \/ fetching # None \/ changed \/ styleTimer \/ lost

=============================================================================
