-------------------------- MODULE DestinationSearch --------------------------
(***************************************************************************)
(* The destination search of the map: typing, the debounced search, the    *)
(* list of results, the route that is fetched for a chosen place, its      *)
(* preview, and the trip that is made of it (DestinationSearch.tsx,        *)
(* TripPanel.tsx, lib/). Answers come in any order, also after the mount   *)
(* that asked for them has gone.                                           *)
(*                                                                         *)
(* A place stands for the query that finds it, for its row in the list and *)
(* for its coordinates.                                                    *)
(***************************************************************************)
EXTENDS Naturals, FiniteSets

CONSTANTS
    Places,     \* what is searched for and chosen
    Requests,   \* requests to /api/search and /api/route under way at a time
    None

ASSUME DestinationAssumption ==
    None \notin Places /\ Requests \cap {"timer", "list", "preview"} = {}

VARIABLES
    mounted,    \* the map screen is there, and with it the search
    leaving,    \* it is on its way out
    query,      \* the text in the box; None: blank
    debounce,   \* debounceRef: the query the armed timer will search for
    results,    \* the query whose results are listed
    loading,    \* the spinner
    request,    \* the requests under way, and whether this mount asked
    located,    \* store: location is known
    preview,    \* store: routePreview, by its destination
    trip,       \* store: trip
    \* History: guards nothing.
    choice,     \* the place last chosen, unless the user or a trip undid that
    overtaken   \* requests the user has moved on from; and the timer, the
                \* list, the preview, when they are what such a request left

local == <<query, debounce, results, loading>>
store == <<located, preview, trip>>
vars == <<mounted, leaving, local, request, store, choice, overtaken>>

Place == Places \cup {None}
Request == [kind : {"none", "search", "route"}, place : Place, mine : BOOLEAN]
NoRequest == [kind |-> "none", place |-> None, mine |-> FALSE]

Init ==
    /\ mounted = FALSE /\ leaving = FALSE
    /\ query = None /\ debounce = None /\ results = None /\ loading = FALSE
    /\ request = [r \in Requests |-> NoRequest]
    /\ located = FALSE /\ preview = None /\ trip = FALSE
    /\ choice = None /\ overtaken = {}

-----------------------------------------------------------------------------

Searches == {r \in Requests : request[r].kind = "search" /\ request[r].mine}
Routes == {r \in Requests : request[r].kind = "route"}
Timer == IF debounce = None THEN {} ELSE {"timer"}

\* The box, the list and the preview are shown only while there is no trip.
Visible == mounted /\ ~trip

\* searchPlaces, getRoute: the request that is sent.
Asked(kind, p) == [kind |-> kind, place |-> p, mine |-> TRUE]

\* What a request leaves behind is as overtaken as the request.
Inherits(what, r) ==
    overtaken' = (overtaken \ {r, what}) \cup (IF r \in overtaken THEN {what} ELSE {})

\* Mutant: a timer that is armed stays.
HandleSearchFirst(p) ==
    /\ Visible /\ p # query
    /\ query' = p
    /\ debounce' = IF debounce = None THEN p ELSE debounce
    /\ results' = IF p = None THEN None ELSE results
    /\ overtaken' = (overtaken \ {"timer"}) \cup Searches
    /\ UNCHANGED <<mounted, leaving, loading, request, store, choice>>

\* handleSearch: the timer is set anew; a blank query empties the list.
HandleSearch(p) ==
    /\ Visible /\ p # query
    /\ query' = p
    /\ debounce' = p
    /\ results' = IF p = None THEN None ELSE results
    /\ overtaken' = (overtaken \ {"timer"}) \cup Searches
    /\ UNCHANGED <<mounted, leaving, loading, request, store, choice>>

\* The timer fires, whatever is shown by now.
DebounceFires ==
    /\ debounce # None
    /\ debounce' = None
    /\ loading' = TRUE
    /\ \E r \in Requests :
          /\ request[r] = NoRequest
          /\ request' = [request EXCEPT ![r] = Asked("search", debounce)]
          /\ Inherits(r, "timer")
    /\ UNCHANGED <<mounted, leaving, query, results, store, choice>>

\* Mutant: the answer is for whichever search is mounted, or will be.
SearchAnswersAnyMount(r) ==
    /\ request[r].kind = "search"
    /\ request' = [request EXCEPT ![r] = NoRequest]
    /\ results' \in {request[r].place, None}
    /\ loading' = FALSE
    /\ Inherits("list", r)
    /\ UNCHANGED <<mounted, leaving, query, debounce, store, choice>>

\* Results, none or an error, for the mount that asked; the spinner stops.
SearchAnswers(r) ==
    /\ request[r].kind = "search"
    /\ request' = [request EXCEPT ![r] = NoRequest]
    /\ IF request[r].mine
       THEN /\ results' \in {request[r].place, None}
            /\ loading' = FALSE
            /\ Inherits("list", r)
       ELSE /\ overtaken' = overtaken \ {r}
            /\ UNCHANGED <<results, loading>>
    /\ UNCHANGED <<mounted, leaving, query, debounce, store, choice>>

\* A press outside closes the list.
HandleClickOutside ==
    /\ Visible /\ results # None
    /\ results' = None
    /\ UNCHANGED <<mounted, leaving, query, debounce, loading, request, store, choice, overtaken>>

\* handleSelect: without a position there is only a toast. The timer goes on.
HandleSelect ==
    /\ Visible /\ results # None
    /\ query' = results
    /\ results' = None
    /\ IF located
       THEN /\ loading' = TRUE
            /\ \E r \in Requests :
                  /\ request[r] = NoRequest
                  /\ request' = [request EXCEPT ![r] = Asked("route", results)]
            /\ choice' = results
            /\ overtaken' = overtaken \cup Searches \cup Timer \cup Routes \cup {"preview"}
       ELSE /\ overtaken' = overtaken \cup Searches \cup Timer
            /\ UNCHANGED <<loading, request, choice>>
    /\ UNCHANGED <<mounted, leaving, debounce, store>>

\* Mutant: the spinner stops only with a route.
RouteAnswersNoFinally(r) ==
    /\ request[r].kind = "route"
    /\ request' = [request EXCEPT ![r] = NoRequest]
    /\ \/ /\ preview' = request[r].place
          /\ Inherits("preview", r)
          /\ loading' = (loading /\ ~request[r].mine)
       \/ /\ UNCHANGED <<preview, loading>>
          /\ overtaken' = overtaken \ {r}
    /\ UNCHANGED <<mounted, leaving, query, debounce, results, located, trip, choice>>

\* The route is previewed, or a toast says that there is none.
RouteAnswers(r) ==
    /\ request[r].kind = "route"
    /\ request' = [request EXCEPT ![r] = NoRequest]
    /\ \/ /\ preview' = request[r].place
          /\ Inherits("preview", r)
       \/ /\ preview' = preview
          /\ overtaken' = overtaken \ {r}
    /\ loading' = (loading /\ ~request[r].mine)
    /\ UNCHANGED <<mounted, leaving, query, debounce, results, located, trip, choice>>

\* handleClear: box, list and preview; what is under way goes on.
HandleClear ==
    /\ Visible
    /\ query # None \/ preview # None
    /\ query' = None /\ results' = None /\ preview' = None
    /\ choice' = None
    /\ overtaken' = overtaken \cup Searches \cup Timer \cup Routes
    /\ UNCHANGED <<mounted, leaving, debounce, loading, request, located, trip>>

\* handleStartNavigation: the preview becomes the trip. The list stays.
HandleStartNavigation ==
    /\ Visible /\ preview # None /\ located
    /\ trip' = TRUE
    /\ preview' = None
    /\ query' = None
    /\ choice' = None
    /\ overtaken' = overtaken \cup Searches \cup Timer \cup Routes \cup {"list"}
    /\ UNCHANGED <<mounted, leaving, debounce, results, loading, request, located>>

-----------------------------------------------------------------------------
(* The screen around the search. *)

\* Mutant: the preview waits behind the trip.
TripArrivesOver ==
    /\ mounted
    /\ trip' = TRUE
    /\ choice' = None
    /\ overtaken' = overtaken \cup Routes
    /\ UNCHANGED <<mounted, leaving, local, request, located, preview>>

\* A trip of the room arrives: the preview makes way.
TripArrives ==
    /\ mounted
    /\ trip' = TRUE
    /\ preview' = None
    /\ choice' = None
    /\ overtaken' = overtaken \cup Routes
    /\ UNCHANGED <<mounted, leaving, local, request, located>>

\* The trip ends, or its panel is closed: the search is shown as it was.
TripGoes ==
    /\ mounted /\ trip
    /\ trip' = FALSE
    /\ UNCHANGED <<mounted, leaving, local, request, located, preview, choice, overtaken>>

\* A fix of the position, or a step of the simulation.
SetLocation ==
    /\ mounted /\ ~located
    /\ located' = TRUE
    /\ UNCHANGED <<mounted, leaving, local, request, preview, trip, choice, overtaken>>

\* Leave: clearLiveData; the screen stays until it has faded.
Leave ==
    /\ mounted
    /\ leaving' = TRUE
    /\ located' = FALSE /\ preview' = None /\ trip' = FALSE
    /\ choice' = None
    /\ overtaken' = overtaken \cup Routes
    /\ UNCHANGED <<mounted, local, request>>

\* The state of the search is gone; no request is cancelled. The timer is not
\* either, but nobody is left to see what its search finds.
Unmount ==
    /\ mounted /\ leaving
    /\ mounted' = FALSE /\ leaving' = FALSE
    /\ query' = None /\ results' = None /\ loading' = FALSE /\ debounce' = None
    /\ request' = [r \in Requests |-> [request[r] EXCEPT !.mine = FALSE]]
    /\ overtaken' = overtaken \ {"timer", "list"}
    /\ UNCHANGED <<store, choice>>

\* The map is asked for, again perhaps before it has gone.
Enter ==
    /\ ~mounted \/ leaving
    /\ mounted' = TRUE /\ leaving' = FALSE
    /\ UNCHANGED <<local, request, store, choice, overtaken>>

Answers(r) == SearchAnswers(r) \/ RouteAnswers(r)

Next ==
    \/ \E p \in Place : HandleSearch(p)
    \/ DebounceFires
    \/ \E r \in Requests : Answers(r)
    \/ HandleClickOutside \/ HandleSelect \/ HandleClear \/ HandleStartNavigation
    \/ TripArrives \/ TripGoes \/ SetLocation
    \/ Leave \/ Unmount \/ Enter

Spec == Init /\ [][Next]_vars

\* A request is answered or fails.
FairSpec == Spec /\ \A r \in Requests : WF_vars(Answers(r))

-----------------------------------------------------------------------------
(* Properties. *)

\* What each variable holds; nothing local survives the mount.
TypeOK ==
    /\ mounted \in BOOLEAN /\ leaving \in BOOLEAN /\ loading \in BOOLEAN
    /\ {query, debounce, results, preview, choice} \subseteq Place
    /\ request \in [Requests -> Request]
    /\ located \in BOOLEAN /\ trip \in BOOLEAN
    /\ overtaken \subseteq Requests \cup {"timer", "list", "preview"}
    /\ ~mounted => local = <<None, None, None, FALSE>> /\ Searches = {}

\* The list is for the text in the box, or a search for that text is still to
\* come, however answers are reordered - unless the list is what a search left
\* that was under way when the user typed, chose, cleared or started
\* (DestinationSearch.tsx 38-63).
ListMatchesQuery ==
    results \notin {None, query} =>
        \/ "list" \in overtaken
        \/ debounce = query
        \/ \E r \in Searches : request[r].place = query

\* The preview is of the place last chosen, across trips that come and go,
\* other choices and rooms, unless it is of a choice whose route was still
\* under way when it was undone (DestinationSearch.tsx 61-140).
PreviewIsTheChoice ==
    preview # None => preview = choice \/ "preview" \in overtaken

\* A spinner stops, whichever of several requests answers first or fails
\* (DestinationSearch.tsx 48-57, 70-92).
SpinnerStops == loading ~> ~loading

=============================================================================
