---------------------------- MODULE SearchProofs ----------------------------
(***************************************************************************)
(* The list is for the text in the box, and the preview is of the place    *)
(* chosen, for any number of places and requests: what is under way either *)
(* is for what the user wants now or is known to be overtaken.             *)
(***************************************************************************)
EXTENDS DestinationSearch, TLAPS

\* The timer and the searches are for the text in the box, the routes for the
\* place chosen, unless they are overtaken.
OnItsWay ==
    /\ debounce \in {None, query} \/ "timer" \in overtaken
    /\ \A r \in Searches : request[r].place = query \/ r \in overtaken
    /\ \A r \in Routes : request[r].place = choice \/ r \in overtaken

SearchInv == TypeOK /\ OnItsWay /\ ListMatchesQuery /\ PreviewIsTheChoice

\* A request is started: the others are as they were.
LEMMA Asking ==
    ASSUME TypeOK, NEW r \in Requests, NEW kind \in {"search", "route"}, NEW p \in Places,
           request[r] = NoRequest, request' = [request EXCEPT ![r] = Asked(kind, p)]
    PROVE  /\ request' \in [Requests -> Request]
           /\ request'[r] = Asked(kind, p)
           /\ \A q \in Requests : q # r => request'[q] = request[q]
           /\ r \notin Searches /\ r \notin Routes
           /\ Searches' = Searches \cup (IF kind = "search" THEN {r} ELSE {})
           /\ Routes' = Routes \cup (IF kind = "route" THEN {r} ELSE {})
<1>1. request \in [Requests -> Request]
  BY DEF TypeOK
<1>2. Asked(kind, p) \in Request
  BY DEF Asked, Request, Place
<1>3. request[r].kind = "none"
  BY DEF NoRequest
<1>4. QED
  BY <1>1, <1>2, <1>3 DEF Searches, Routes, Asked

\* A request is over: the others are as they were.
LEMMA Answered ==
    ASSUME TypeOK, NEW r \in Requests, request' = [request EXCEPT ![r] = NoRequest]
    PROVE  /\ request' \in [Requests -> Request]
           /\ \A q \in Requests : q # r => request'[q] = request[q]
           /\ Searches' = Searches \ {r}
           /\ Routes' = Routes \ {r}
<1>1. request \in [Requests -> Request]
  BY DEF TypeOK
<1>2. NoRequest \in Request
  BY DEF NoRequest, Request, Place
<1>3. QED
  BY <1>1, <1>2 DEF Searches, Routes, NoRequest

\* The box, the list and the preview start empty.
LEMMA SearchInitial ==
    ASSUME Init
    PROVE  SearchInv
<1>1. NoRequest \in Request
  BY DEF NoRequest, Request, Place
<1>2. Searches = {} /\ Routes = {}
  BY DEF Init, Searches, Routes, NoRequest
<1>3. request \in [Requests -> Request]
  BY <1>1 DEF Init
<1>4. QED
  BY <1>2, <1>3 DEF Init, SearchInv, TypeOK, OnItsWay, ListMatchesQuery, PreviewIsTheChoice, Place, local

\* Nothing changes, nothing breaks.
LEMMA SearchStutters ==
    ASSUME SearchInv, UNCHANGED vars
    PROVE  SearchInv'
BY DEF vars, local, store, SearchInv, TypeOK, OnItsWay, ListMatchesQuery, PreviewIsTheChoice,
       Searches, Routes

\* Steps that leave the requests alone.
LEMMA UserInductive ==
    ASSUME SearchInv, UNCHANGED request,
           \/ \E p \in Place : HandleSearch(p)
           \/ HandleClickOutside \/ HandleClear \/ HandleStartNavigation
           \/ TripArrives \/ TripGoes \/ SetLocation \/ Leave \/ Enter
    PROVE  SearchInv'
<1> USE DestinationAssumption DEF SearchInv, TypeOK, OnItsWay, ListMatchesQuery, PreviewIsTheChoice, Place
<1>0. Searches' = Searches /\ Routes' = Routes /\ Searches \subseteq Requests /\ Routes \subseteq Requests
  BY DEF Searches, Routes
<1>1. ASSUME NEW p \in Place, HandleSearch(p) PROVE SearchInv'
  BY <1>0, <1>1 DEF HandleSearch, Visible, store, local
<1>2. CASE HandleClickOutside
  BY <1>0, <1>2 DEF HandleClickOutside, Visible, store, local
<1>3. CASE HandleClear
  BY <1>0, <1>3 DEF HandleClear, Visible, Timer, local
<1>4. CASE HandleStartNavigation
  BY <1>0, <1>4 DEF HandleStartNavigation, Visible, Timer, local
<1>5. CASE TripArrives \/ TripGoes \/ SetLocation \/ Leave \/ Enter
  BY <1>0, <1>5 DEF TripArrives, TripGoes, SetLocation, Leave, Enter, local, store
<1>6. QED
  BY <1>1, <1>2, <1>3, <1>4, <1>5

\* The timer fires: its search is overtaken if the timer was.
LEMMA DebounceInductive ==
    ASSUME SearchInv, DebounceFires
    PROVE  SearchInv'
<1> USE DestinationAssumption
<1>1. PICK r \in Requests :
        /\ request[r] = NoRequest
        /\ request' = [request EXCEPT ![r] = Asked("search", debounce)]
        /\ Inherits(r, "timer")
  BY DEF DebounceFires
<1>2. debounce \in Places /\ UNCHANGED <<query, results, preview, choice>> /\ debounce' = None
  BY DEF DebounceFires, SearchInv, TypeOK, Place, store
<1>3. /\ request' \in [Requests -> Request]
      /\ request'[r].place = debounce
      /\ \A q \in Requests : q # r => request'[q] = request[q]
      /\ r \notin Searches /\ r \notin Routes
      /\ Searches' = Searches \cup {r} /\ Routes' = Routes
  BY <1>1, <1>2, Asking DEF SearchInv, Asked
<1>4. overtaken' = (overtaken \ {r, "timer"}) \cup (IF "timer" \in overtaken THEN {r} ELSE {})
  BY <1>1 DEF Inherits
<1>5. TypeOK'
  BY <1>2, <1>3, <1>4 DEF DebounceFires, SearchInv, TypeOK, Place, store, local
<1>6. OnItsWay'
  BY <1>2, <1>3, <1>4 DEF SearchInv, OnItsWay, Searches, Routes
<1>7. ListMatchesQuery' /\ PreviewIsTheChoice'
  <2>1. r # "list" /\ r # "preview" /\ Searches \subseteq Requests
    BY DEF Searches
  <2>2. ("list" \in overtaken => "list" \in overtaken') /\ ("preview" \in overtaken => "preview" \in overtaken')
    BY <1>4, <2>1
  <2>3. (\E q \in Searches : request[q].place = query) => \E q \in Searches' : request'[q].place = query
    BY <1>3, <2>1
  <2>4. debounce = query => \E q \in Searches' : request'[q].place = query
    BY <1>3
  <2>5. QED
    BY <1>2, <2>2, <2>3, <2>4 DEF SearchInv, ListMatchesQuery, PreviewIsTheChoice
<1>8. QED
  BY <1>5, <1>6, <1>7 DEF SearchInv

\* A search is answered: what is listed is overtaken if the search was.
LEMMA SearchAnswersInductive ==
    ASSUME SearchInv, NEW r \in Requests, SearchAnswers(r)
    PROVE  SearchInv'
<1> USE DestinationAssumption
<1>1. /\ request[r].kind = "search" /\ r \notin Routes
      /\ UNCHANGED <<mounted, leaving, query, debounce, located, preview, trip, choice>>
  BY DEF SearchAnswers, store, Routes
<1>2. /\ request' \in [Requests -> Request]
      /\ \A q \in Requests : q # r => request'[q] = request[q]
      /\ Searches' = Searches \ {r} /\ Routes' = Routes
  <2>1. request' = [request EXCEPT ![r] = NoRequest] /\ TypeOK
    BY DEF SearchInv, SearchAnswers
  <2>2. Routes' = Routes \ {r}
    BY <2>1, Answered
  <2>3. Routes \ {r} = Routes
    BY <1>1
  <2>4. QED
    BY <2>1, <2>2, <2>3, Answered
<1>3. request[r].place \in Place
  BY DEF SearchInv, TypeOK, Request
<1>4. CASE request[r].mine
  <2>1. /\ r \in Searches
        /\ results' \in {request[r].place, None} /\ loading' = FALSE
        /\ overtaken' = (overtaken \ {r, "list"}) \cup (IF r \in overtaken THEN {"list"} ELSE {})
    BY <1>1, <1>4 DEF SearchAnswers, Searches, Inherits
  <2>2. TypeOK'
    BY <1>1, <1>2, <1>3, <2>1 DEF SearchInv, TypeOK, Place, local
  <2>3. OnItsWay'
    BY <1>1, <1>2, <2>1 DEF SearchInv, OnItsWay, Searches, Routes
  <2>4. ListMatchesQuery' /\ PreviewIsTheChoice'
    BY <1>1, <1>2, <2>1 DEF SearchInv, OnItsWay, ListMatchesQuery, PreviewIsTheChoice, Searches
  <2>5. QED
    BY <2>2, <2>3, <2>4 DEF SearchInv
<1>5. CASE ~request[r].mine
  <2>1. /\ r \notin Searches
        /\ overtaken' = overtaken \ {r} /\ UNCHANGED <<results, loading>>
    BY <1>1, <1>5 DEF SearchAnswers, Searches
  <2>2. TypeOK'
    BY <1>1, <1>2, <2>1 DEF SearchInv, TypeOK, local
  <2>3. OnItsWay'
    BY <1>1, <1>2, <2>1 DEF SearchInv, OnItsWay, Searches, Routes
  <2>4. ListMatchesQuery' /\ PreviewIsTheChoice'
    BY <1>1, <1>2, <2>1 DEF SearchInv, ListMatchesQuery, PreviewIsTheChoice, Searches
  <2>5. QED
    BY <2>2, <2>3, <2>4 DEF SearchInv
<1>6. QED
  BY <1>4, <1>5

\* A route is answered: the preview is overtaken if the route was.
LEMMA RouteAnswersInductive ==
    ASSUME SearchInv, NEW r \in Requests, RouteAnswers(r)
    PROVE  SearchInv'
<1> USE DestinationAssumption
<1>1. /\ request[r].kind = "route" /\ r \in Routes /\ r \notin Searches
      /\ UNCHANGED <<mounted, leaving, query, debounce, results, located, trip, choice>>
      /\ loading' = (loading /\ ~request[r].mine)
  BY DEF RouteAnswers, Routes, Searches
<1>2. /\ request' \in [Requests -> Request]
      /\ \A q \in Requests : q # r => request'[q] = request[q]
      /\ Searches' = Searches /\ Routes' = Routes \ {r}
  <2>1. request' = [request EXCEPT ![r] = NoRequest] /\ TypeOK
    BY DEF SearchInv, RouteAnswers
  <2>2. Searches' = Searches \ {r}
    BY <2>1, Answered
  <2>3. Searches \ {r} = Searches
    BY <1>1
  <2>4. QED
    BY <2>1, <2>2, <2>3, Answered
<1>3. request[r].place \in Place
  BY DEF SearchInv, TypeOK, Request
<1>4. \/ /\ preview' = request[r].place
         /\ overtaken' = (overtaken \ {r, "preview"}) \cup (IF r \in overtaken THEN {"preview"} ELSE {})
      \/ preview' = preview /\ overtaken' = overtaken \ {r}
  BY DEF RouteAnswers, Inherits
<1>5. loading' \in BOOLEAN /\ (loading = FALSE => loading' = FALSE)
  BY <1>1 DEF SearchInv, TypeOK
<1>6. TypeOK'
  BY <1>1, <1>2, <1>3, <1>4, <1>5 DEF SearchInv, TypeOK, local
<1>7. OnItsWay'
  BY <1>1, <1>2, <1>4 DEF SearchInv, OnItsWay, Searches, Routes
<1>8. ListMatchesQuery' /\ PreviewIsTheChoice'
  BY <1>1, <1>2, <1>4 DEF SearchInv, OnItsWay, ListMatchesQuery, PreviewIsTheChoice, Searches, Routes
<1>9. QED
  BY <1>6, <1>7, <1>8 DEF SearchInv

\* A place is chosen: what was under way is overtaken.
LEMMA SelectInductive ==
    ASSUME SearchInv, HandleSelect
    PROVE  SearchInv'
<1> USE DestinationAssumption
<1>1. /\ results \in Places /\ query' = results /\ results' = None /\ mounted
      /\ UNCHANGED <<mounted, leaving, debounce, located, preview, trip>>
  BY DEF HandleSelect, Visible, SearchInv, TypeOK, Place, store
<1>2. debounce # None => "timer" \in Timer
  BY DEF Timer
<1>3. CASE located
  <2>1. PICK r \in Requests :
          /\ request[r] = NoRequest
          /\ request' = [request EXCEPT ![r] = Asked("route", results)]
    BY <1>3 DEF HandleSelect
  <2>2. /\ loading' = TRUE /\ choice' = results
        /\ overtaken' = overtaken \cup Searches \cup Timer \cup Routes \cup {"preview"}
    BY <1>3 DEF HandleSelect
  <2>3. /\ request' \in [Requests -> Request]
        /\ request'[r].place = results
        /\ \A q \in Requests : q # r => request'[q] = request[q]
        /\ Searches' = Searches /\ Routes' = Routes \cup {r}
    BY <1>1, <2>1, Asking DEF SearchInv, Asked
  <2>4. TypeOK'
    BY <1>1, <2>2, <2>3 DEF SearchInv, TypeOK, Place, Searches, Routes, Timer
  <2>5. OnItsWay'
    BY <1>1, <1>2, <2>2, <2>3 DEF SearchInv, OnItsWay
  <2>6. ListMatchesQuery' /\ PreviewIsTheChoice'
    BY <1>1, <2>2 DEF ListMatchesQuery, PreviewIsTheChoice
  <2>7. QED
    BY <2>4, <2>5, <2>6 DEF SearchInv
<1>4. CASE ~located
  <2>1. UNCHANGED <<loading, request, choice>> /\ overtaken' = overtaken \cup Searches \cup Timer
    BY <1>4 DEF HandleSelect
  <2>2. Searches' = Searches /\ Routes' = Routes
    BY <2>1 DEF Searches, Routes
  <2>3. TypeOK'
    BY <1>1, <2>1, <2>2 DEF SearchInv, TypeOK, Place, Searches, Timer
  <2>4. OnItsWay'
    BY <1>1, <1>2, <2>1, <2>2 DEF SearchInv, OnItsWay
  <2>5. ListMatchesQuery' /\ PreviewIsTheChoice'
    BY <1>1, <2>1 DEF SearchInv, ListMatchesQuery, PreviewIsTheChoice
  <2>6. QED
    BY <2>3, <2>4, <2>5 DEF SearchInv
<1>5. QED
  BY <1>3, <1>4 DEF SearchInv, TypeOK

\* The mount goes: no search is its any more, routes are answered all the same.
LEMMA UnmountInductive ==
    ASSUME SearchInv, Unmount
    PROVE  SearchInv'
<1> USE DestinationAssumption
<1>1. /\ mounted' = FALSE /\ leaving' = FALSE
      /\ query' = None /\ results' = None /\ loading' = FALSE /\ debounce' = None
      /\ request' = [r \in Requests |-> [request[r] EXCEPT !.mine = FALSE]]
      /\ overtaken' = overtaken \ {"timer", "list"}
      /\ UNCHANGED <<located, preview, trip, choice>>
  BY DEF Unmount, store
<1>2. ASSUME NEW r \in Requests
      PROVE  /\ request'[r] \in Request /\ request'[r].mine = FALSE
             /\ request'[r].kind = request[r].kind /\ request'[r].place = request[r].place
  <2>1. request[r] \in Request /\ request'[r] = [request[r] EXCEPT !.mine = FALSE]
    BY <1>1 DEF SearchInv, TypeOK
  <2>2. QED
    BY <2>1 DEF Request
<1>3. request' \in [Requests -> Request] /\ Searches' = {} /\ Routes' = Routes
  BY <1>1, <1>2 DEF Searches, Routes
<1>4. TypeOK'
  BY <1>1, <1>3 DEF SearchInv, TypeOK, local, Place
<1>5. OnItsWay'
  BY <1>1, <1>2, <1>3 DEF SearchInv, OnItsWay, Routes
<1>6. ListMatchesQuery' /\ PreviewIsTheChoice'
  BY <1>1 DEF SearchInv, ListMatchesQuery, PreviewIsTheChoice
<1>7. QED
  BY <1>4, <1>5, <1>6 DEF SearchInv

\* Every step keeps the invariant.
LEMMA SearchInductive ==
    ASSUME SearchInv, [Next]_vars
    PROVE  SearchInv'
<1>1. CASE Next
  <2>1. CASE DebounceFires \/ HandleSelect \/ Unmount
    BY <2>1, DebounceInductive, SelectInductive, UnmountInductive
  <2>2. ASSUME NEW r \in Requests, Answers(r) PROVE SearchInv'
    BY <2>2, SearchAnswersInductive, RouteAnswersInductive DEF Answers
  <2>3. ASSUME NEW p \in Place, HandleSearch(p) PROVE SearchInv'
    BY <2>3, UserInductive DEF HandleSearch
  <2>4. CASE HandleClickOutside \/ HandleClear \/ HandleStartNavigation
    BY <2>4, UserInductive DEF HandleClickOutside, HandleClear, HandleStartNavigation
  <2>5. CASE TripArrives \/ TripGoes \/ SetLocation \/ Leave \/ Enter
    BY <2>5, UserInductive DEF TripArrives, TripGoes, SetLocation, Leave, Enter
  <2>6. QED
    BY <1>1, <2>1, <2>2, <2>3, <2>4, <2>5 DEF Next
<1>2. CASE UNCHANGED vars
  BY <1>2, SearchStutters
<1>3. QED
  BY <1>1, <1>2

\* The state of the search has the shape the code gives it, and nothing local
\* survives the mount (DestinationSearch.tsx 20-36).
THEOREM SearchTyped == Spec => []TypeOK
<1>1. SearchInv => TypeOK
  BY DEF SearchInv
<1>2. QED
  BY <1>1, SearchInitial, SearchInductive, PTL DEF Spec

\* The list is for the text in the box, or will be, unless an overtaken search
\* left it (DestinationSearch.tsx 38-63).
THEOREM ListFollowsQuery == Spec => []ListMatchesQuery
<1>1. SearchInv => ListMatchesQuery
  BY DEF SearchInv
<1>2. QED
  BY <1>1, SearchInitial, SearchInductive, PTL DEF Spec

\* The preview is of the place chosen last, unless an overtaken route left it
\* (DestinationSearch.tsx 61-140).
THEOREM PreviewFollowsChoice == Spec => []PreviewIsTheChoice
<1>1. SearchInv => PreviewIsTheChoice
  BY DEF SearchInv
<1>2. QED
  BY <1>1, SearchInitial, SearchInductive, PTL DEF Spec

=============================================================================
