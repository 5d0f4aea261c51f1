------------------------------- MODULE MapView -------------------------------
(***************************************************************************)
(* The whole of ui/map.tsx: the canvas, and above it markers with the      *)
(* popup and the tooltip bound to them, popups of their own, and the       *)
(* locate button of the controls. A component makes its MapLibre object    *)
(* once, puts it on the map in an effect, and moves it while it renders.   *)
(***************************************************************************)
EXTENDS MapCanvas

CONSTANTS
    Markers,    \* MapMarker, with MarkerPopup and MarkerTooltip
    Popups,     \* MapPopup
    Spots       \* positions on the map

ASSUME MarkersAssumption == None \notin Spots /\ Markers \cap Popups = {}

Components == Markers \cup Popups

VARIABLES
    at,         \* the position a mounted component is given
    popup,      \* where its popup is open
    tooltip,    \* where the tooltip of a marker is open
    told,       \* onClose of a MapPopup has been called
    waiting,    \* MapControls: waitingForLocation
    \* History: guards nothing.
    behind      \* markers that have moved away from under their tooltip

markerVars == <<at, popup, tooltip, told, waiting, behind>>
vars == <<canvasVars, markerVars>>

Nowhere == [c \in Components |-> None]

Init ==
    /\ CanvasInit
    /\ at = Nowhere /\ popup = Nowhere
    /\ tooltip = [m \in Markers |-> None]
    /\ told = [c \in Popups |-> FALSE]
    /\ waiting = FALSE
    /\ behind = {}

-----------------------------------------------------------------------------

\* A marker is put on the map, its popup closed; a MapPopup opens.
Mount(c, x) ==
    /\ up /\ at[c] = None
    /\ at' = [at EXCEPT ![c] = x]
    /\ popup' = [popup EXCEPT ![c] = IF c \in Popups THEN x ELSE None]
    /\ told' = [p \in Popups |-> told[p] /\ p # c]
    /\ UNCHANGED <<canvasVars, tooltip, waiting, behind>>

\* Mutant: a popup stays where it was opened.
RenderMarkerOnly(c, x) ==
    /\ at[c] \notin {None, x}
    /\ at' = [at EXCEPT ![c] = x]
    /\ behind' = behind \cup {m \in Markers : m = c /\ tooltip[m] # None}
    /\ UNCHANGED <<canvasVars, popup, tooltip, told, waiting>>

\* setLngLat takes along the popup bound to a marker; a MapPopup that is open is
\* moved by its own.
Render(c, x) ==
    /\ at[c] \notin {None, x}
    /\ at' = [at EXCEPT ![c] = x]
    /\ popup' = [popup EXCEPT ![c] = IF @ = None THEN None ELSE x]
    /\ behind' = behind \cup {m \in Markers : m = c /\ tooltip[m] # None}
    /\ UNCHANGED <<canvasVars, tooltip, told, waiting>>

\* The cleanups: everything of the components is taken off the map. The handler
\* of "close" is off before a MapPopup is removed.
TakeOff(cs) ==
    /\ at' = [c \in Components |-> IF c \in cs THEN None ELSE at[c]]
    /\ popup' = [c \in Components |-> IF c \in cs THEN None ELSE popup[c]]
    /\ tooltip' = [m \in Markers |-> IF m \in cs THEN None ELSE tooltip[m]]
    /\ behind' = behind \ cs

Unmount(c) ==
    /\ at[c] # None
    /\ TakeOff({c})
    /\ UNCHANGED <<canvasVars, told, waiting>>

\* The map goes, with all that is in it.
UnmountAll ==
    /\ UnmountMap
    /\ TakeOff(Components)
    /\ waiting' = FALSE
    /\ UNCHANGED told

\* A click on a marker toggles the popup that is bound to it.
TogglePopup(m) ==
    /\ at[m] # None
    /\ popup' = [popup EXCEPT ![m] = IF @ = None THEN at[m] ELSE None]
    /\ UNCHANGED <<canvasVars, at, tooltip, told, waiting, behind>>

\* handleClose, by the button of a popup.
HandleClose(c) ==
    /\ popup[c] # None
    /\ popup' = [popup EXCEPT ![c] = None]
    /\ told' = [p \in Popups |-> told[p] \/ p = c]
    /\ UNCHANGED <<canvasVars, at, tooltip, waiting, behind>>

\* A click on the map closes every popup and tooltip.
ClickMap ==
    /\ popup # Nowhere
    /\ popup' = Nowhere
    /\ tooltip' = [m \in Markers |-> None]
    /\ told' = [p \in Popups |-> told[p] \/ popup[p] # None]
    /\ behind' = {}
    /\ UNCHANGED <<canvasVars, at, waiting>>

\* MarkerTooltip: opened where the marker is, and not moved with it.
HandleMouseEnter(m) ==
    /\ at[m] # None
    /\ tooltip' = [tooltip EXCEPT ![m] = at[m]]
    /\ behind' = behind \ {m}
    /\ UNCHANGED <<canvasVars, at, popup, told, waiting>>

HandleMouseLeave(m) ==
    /\ tooltip[m] # None
    /\ tooltip' = [tooltip EXCEPT ![m] = None]
    /\ behind' = behind \ {m}
    /\ UNCHANGED <<canvasVars, at, popup, told, waiting>>

\* handleLocate: the button is disabled ...
HandleLocate ==
    /\ up /\ ~waiting
    /\ waiting' = TRUE
    /\ UNCHANGED <<canvasVars, at, popup, tooltip, told, behind>>

\* ... until the position, or an error, comes.
Located ==
    /\ waiting
    /\ waiting' = FALSE
    /\ UNCHANGED <<canvasVars, at, popup, tooltip, told, behind>>

Next ==
    \/ CanvasNext /\ UNCHANGED markerVars
    \/ UnmountAll
    \/ \E c \in Components, x \in Spots : Mount(c, x) \/ Render(c, x)
    \/ \E c \in Components : Unmount(c) \/ HandleClose(c)
    \/ \E m \in Markers : TogglePopup(m) \/ HandleMouseEnter(m) \/ HandleMouseLeave(m)
    \/ ClickMap \/ HandleLocate \/ Located

Spec == Init /\ [][Next]_vars

-----------------------------------------------------------------------------
(* Properties. *)

\* What each variable holds; nothing is there without a map.
TypeOK ==
    /\ CanvasTypeOK
    /\ at \in [Components -> Spots \cup {None}]
    /\ popup \in [Components -> Spots \cup {None}]
    /\ tooltip \in [Markers -> Spots \cup {None}]
    /\ told \in [Popups -> BOOLEAN] /\ waiting \in BOOLEAN
    /\ behind \subseteq Markers
    /\ ~up => at = Nowhere /\ ~waiting

\* A popup or tooltip is open only where its marker is now, and never for one
\* that has gone - but for a tooltip whose marker moved under it, which stays
\* where it was opened. The owner of a MapPopup has been told exactly when its
\* popup is closed, whatever closed it (map.tsx 461-466, 555-572, 637-660, 985-1004).
PopupsFollow ==
    /\ \A c \in Components : popup[c] \in {None, at[c]}
    /\ \A c \in Popups : at[c] # None => told[c] = (popup[c] = None)
    /\ \A m \in Markers : tooltip[m] \in {None, at[m]} \/ (m \in behind /\ at[m] # None)

=============================================================================
