# A verification project for the location-sharing server

The program shares live positions inside named groups. Browsers hold one
WebSocket each; a Go server with a single *hub* goroutine fans locations and
trip events out to the members of a group, replays what a late joiner missed,
and writes locations and trips to Postgres through a small worker pool. A React
page turns the envelopes it receives into markers and a trip panel, searches
destinations and previews routes, and draws riders, routes and a simulated ride
on a MapLibre map.

Paths below are relative to the repository; `hub.go`, `client.go`, `ws.go` stand
for `backend/internal/websocket/hub.go`, `backend/internal/websocket/client.go`
and `backend/internal/handler/ws.go`; `App.tsx` for `frontend/src/App.tsx`, `map.tsx` for
`frontend/src/components/ui/map.tsx`, and other components likewise.

## Inventory

| Component | State it keeps | Operations | Hard behaviour |
|---|---|---|---|
| Hub (`hub.go`) | `groups`, `cache`, `trips`, channels `Register`, `Unregister` (unbuffered), `Broadcast` (buffered), `Quit` | `Run`: register, unregister, broadcast (location, five trip messages), trip query, quit; `Stop` | `select` takes any ready case, so messages and departures of one client may be seen in either order; all sends to clients are non-blocking and drop; registration replays while the joiner already reads |
| Connection (`client.go`, `ws.go`) | `Send` channel, the socket | `ServeWs`, `ReadPump`, `WritePump`, `CloseSend` | two goroutines per connection that end through each other; `Send` may be closed from three places |
| Persistence (`hub.go` 79-116, 503-514) | `persistCh`, `persistDone`, N workers | enqueue, `persistLocation`, drain | full queue drops; two statements that may fail separately; closing while the hub still sends |
| Postgres store (`storage/`, `migrations/`) | tables `users`, `locations`, `trips` | upsert, insert, prune, create and update trips | foreign keys; calls that fail; calls on the hub's own goroutine |
| Process (`cmd/server/main.go`) | - | start, SIGTERM, exit | `Stop` waits for the workers, not for `Run` |
| Page, screens and session (`App.tsx`, `store/useAppStore.ts`) | `screen`, `groupId`, `peers`, `trip`, sockets, retry timer | screens, login, connect, `onmessage`, `onclose`, `fetchActiveTrip`, trip buttons | envelopes are patches of what is shown; a screen goes on while it fades; reconnection keeps old state; a REST answer races envelopes |
| Trip endpoint (`handler/trip.go`) | - | `GetActiveTrip` | reads the hub's `*Trip` while the hub mutates it; blocks when the hub has returned |
| TTL cache (`services/cache`) | map with expiry | get, set, evict | cap and expiry at once, `""` as key and as "none" |
| Geocoding, routing (`services/geocoding`, `services/routing`) | last request time, caches | search, route | one request a second, computed under a lock and waited for outside it |
| IP rate limiter (`middleware/rate.go`) | limiter and last use per address | lookup, sweep | entry swept between lookup and use |
| Destination search and route preview (`DestinationSearch.tsx`, `TripPanel.tsx`, `lib/`) | text, timer, results, spinner; the preview in the store | debounced search, choice, clear, start | no request is cancelled: answers come in any order and after the mount that asked |
| Map screen (`App.tsx` 482-851) | routes of riders with a ref beside them, legend, simulated ride, own position | route effect, timer, `watchPosition` | answers for an older trip, position or ride; a ref that state must agree with; a line that changes under the ride |
| Map component (`map.tsx`) | the MapLibre map, two flags and a timer; sources, layers, markers, popups | style changes; mount, update and unmount of children | a changed style drops what children drew, and is known only by events that do not say which style they are of |
| Validation, auth, config, CORS, logging | none | pure functions of a request | - |

How they interact: a browser's socket is read by `ReadPump`, which sends
`HubMessage`s on `Broadcast`; `ServeWs` and `ReadPump` send the client itself on
`Register` and `Unregister`. Only the hub's goroutine touches groups, cache and
trips. It answers by non-blocking sends on each client's `Send`, which
`WritePump` drains to the socket. Locations go to the workers through
`persistCh`; trips are written by the hub itself. `main` calls `Stop` on
SIGTERM.

What makes each correct:

* *hub and connections* - a client is a member exactly while its `Send` is open;
  nothing is sent on a closed channel; a group never exceeds its limit and exists
  exactly while it has members; a connection that dies leaves no goroutine, no
  membership and no marker behind; whoever dials is answered;
* *browser* - as long as no envelope was dropped, a browser shows what the hub has
  cached, and the trip the hub has; whatever fails or is retried, a page has one
  connection at most and is never left without a way to the next one; it shows
  nothing of another room;
* *search* - the list is for the text in the box, the preview is of the place
  chosen last;
* *map* - nothing is drawn on a style that is not loaded, what is drawn is what
  was given last, the route drawn for a rider is the one remembered of them, and of
  this trip from their next change of position on, the ride is along this route;
* *persistence* - rows follow memory, foreign keys are respected, nothing accepted
  is lost by an orderly stop, and stop ends;
* *services* - searches a second apart, never more entries than the cap, no
  address with more tokens than one bucket kept for ever would give it, but for
  one per request that is too long between `GetLimiter` and `Allow`.

`PROJECT.json` lists the same parts with their status, and every hazard at its
line.

## Modules

| Module | Models | Depends on |
|---|---|---|
| `Persistence` | `persistCh`, workers, tables with foreign keys | - |
| `Hub` | every handler of `hub.go`, as operators over the hub's maps and the `Send` buffers | `Persistence` |
| `Server` | browsers, `ServeWs`, both pumps, the `select` loop, `Stop`, the exit of the process; what `onmessage` makes of envelopes; the properties | `Hub` |
| `Rooms` | the abstract promise about membership | - |
| `HttpRequests` | the clock, and a goroutine per HTTP request at a stage of its way | - |
| `IPRateLimiter` | `middleware/rate.go`: lookup, creation, use and sweep of limiter entries, and their token buckets | `HttpRequests` |
| `TTLCache` | `services/cache/cache.go`: `Get`, `Set`, `evictOldest` | `HttpRequests` |
| `Places` | `/api/search` and `/api/route` behind the limiter: handlers, caches, `waitForTurn`, the services that answer or fail | `IPRateLimiter`, `TTLCache` |
| `PageSession` | screens, sockets, retry timer, fetched trips and buttons of one page, and the hub as that page sees it | - |
| `DestinationSearch` | typing, debounce, searches and routes under way, list, preview, trip | - |
| `MapCanvas` | the map of `map.tsx`, its style changes, its children that draw, and MapLibre as far as they see it | - |
| `MapView` | markers, popups, tooltips and the locate button above the canvas | `MapCanvas` |
| `ParticipantRoutes` | the effect that asks for riders' routes, its answers, the legend | - |
| `MapScreen` | the mounted map screen: riders' routes, own position, simulated ride and its road | `ParticipantRoutes` |
| `MCServer` | values and message repertoires for TLC | `Server` |
| `MCPlaces`, `MCPage`, `MCMap`, `MCScreen` | cache keys, symmetries, lengths of rides for TLC | the module each instantiates |
| `FoldLemmas` | what a fold over a sequence comes to, least and greatest numbers | - |
| `ServerProofs` | types, membership, no send after close, `Server` implements `Rooms`, no panic in service | `Server` |
| `FollowersProofs` | workers, draining, rows of trips; what browsers show follows the hub, and is of their group | `ServerProofs`, `FoldLemmas` |
| `PlacesProofs` | types, throttle, cache cap, spacing of searches | `Places` |
| `PageProofs` | one connection, reconnection, rooms kept apart, agreement at rest | `PageSession` |
| `SearchProofs` | list and preview | `DestinationSearch` |
| `MapProofs` | safe drawing, what is drawn, waits, popups | `MapView` |
| `ScreenProofs` | riders' routes, the road of a ride, distances along a line, the marker | `MapScreen`, `FoldLemmas` |

### State

| TLA+ | Code |
|---|---|
| `rooms`, `groups` | keys and values of `h.groups` |
| `cache`, `trips` | `h.cache`, `h.trips`; `None` for a missing key |
| `sendBuf`, `sendClosed` | contents of `client.Send`, and whether it is closed |
| `run`, `joiner`, `todo` | where `Run` stands: in `select`, replaying the cache to `joiner` with the users `todo` left, unregistering everybody after `Quit`, returned, panicked, gone with the process |
| `phase` | the goroutine of a connection: `idle` (no such client), `dialing` (`ServeWs` blocked on `Register`), `running` (`ReadPump`), `leaving` (blocked on `Unregister`), `done` |
| `writing`, `connOpen` | `WritePump` is running; the socket is open |
| `broadcast` | contents of `h.Broadcast` |
| `persistCh`, `persistClosed`, `worker` | the queue and what each worker holds and does next |
| `userRows`, `locationRows`, `tripRows` | the tables |
| `stop` | where `Stop` stands |
| `peers`, `tripView` | what the page shows |
| `lost`, `missedUpdates` | history: clients an envelope was dropped for, trips whose last UPDATE failed. They guard nothing |
| `stage`, `addrOf`, `entryOf`, `asked` | where a request stands, and its local variables `ip`, `entry` and `key` (with the service it is for) |
| `ips`, `lastSeen`, `tokens` | `i.ips`; `lastSeen` and the bucket of every `*limiterEntry` |
| `entries` | `c.entries[k].expiresAt`, for each of the two caches |
| `lastReq`, `wakeAt` | `g.lastReq`; when the timer of a waiting search fires |
| `gotAt`, `budget`, `late`, `lastSent` | history: when `GetLimiter` returned to a request; what a bucket that is never swept would hold had it paid for every token the address took, whichever entry gave it; tokens taken by requests that were late; when a request slot last sent a search. They guard nothing |

and on the browser's side:

| TLA+ | Code |
|---|---|
| `screen`, `shown`, `room`, `logins` | `screen` of the store, the screen that `AnimatePresence` has mounted, `groupId`, logins that are not answered |
| `sock`, `active`, `storeWs`, `timer` | the page's WebSockets with `readyState` and room, `activeSocketRef`, `ws` of the store, `reconnectTimer` |
| `fetch` | requests of `fetchActiveTrip`; `alive` is the `isMounted` of the effect that asked |
| `peers`, `trip` | the same of the store; of a trip its identity, room and whether this user created it |
| `hubTrip`, `member`, `met`, `inbox`, `outbox` | the hub and the network as this page sees them: the trip of a room, the page's sockets that are in a group, those `Run` has taken from `Register` or never will, envelopes and messages under way |
| `strays`, `excused`; `choice`, `overtaken`; `wiped`, `lost`, `behind` | history: what came in after Leave, why a page may differ from the hub; the place chosen last, and requests the user has moved on from with what they left; what a late or a lost style did, tooltips left behind. They guard nothing |
| `query`, `debounce`, `results`, `loading`, `request` | state of `DestinationSearch`, its timer, what it has asked the server |
| `located`, `preview` | `location` and `routePreview` of the store |
| `up`, `current`, `isLoaded`, `isStyleLoaded`, `styleTimer` | `mapInstance`, `currentStyleRef`, the two flags of the context, `styleTimeoutRef` |
| `wanted`, `hovered` | mounted children by what they are given; `hoveredId` of their handlers |
| `first`, `fetching`, `canvas`, `drawn`, `lit`, `changed` | MapLibre: styles being fetched and shown, sources and feature states, "styledata" to come |
| `at`, `popup`, `tooltip`, `told`, `waiting` | positions of markers and popups, what is open and where, calls of `onClose`, `waitingForLocation` |
| `trip`, `where` (`ParticipantRoutes`) | the trip by its destination, `participantRouteLocations` |
| `entry`, `routes`, `asked`, `hidden` | `participantRouteStateRef`, `participantRoutes`, requests under way, `hiddenParticipantRouteIds` |
| `sim`, `progress`, `path`, `shown`, `roadAsked`, `stale`, `location` | the simulated ride of the store, `routePath`, the line of the last render, requests of `fetchRoadRoute` and those whose effect is cleaned up, `location` as a distance along the line |

### Granularity

A handler of the hub runs alone on one goroutine, so it is one action, with all
its sends and its store call. The exception is the replay in `handleRegister`
(`hub.go` 168-206): `ServeWs` starts the pumps right after the unbuffered
`Register` is received, so `WritePump` may drain `Send` between two replayed
locations, and whether the replay overflows depends on it. Each replayed location
is a step. `Stop`, the workers and the two statements of `persistLocation` are
separate steps as well; the unregistrations after `Quit` are one step per
client, in any order.

`handleTripLeave` and `handleUnregister` share `removeTripParticipant`; the latter
sends two envelopes in a row, so a browser with one free slot gets only the
first (`SendBoth`).

On the REST side a request is interleaved with others, the sweep and the clock
between every two of its critical sections: after the lookup under the read lock,
before and after `waitForTurn` and its timer, while the service is asked, and
before the answer is cached, and between `GetLimiter` and `Allow`.

In the browser a callback, a handler and an effect with its cleanup run to their
end on one thread, and each is one action: an effect that a change of state
causes is part of the action that changes it (`Redraw`, `RouteEffect`, `SimEffects`,
the effects of a mount in `SwapScreen`). What does not belong together in the code
is kept apart: a close of the network (`SocketFails`) and the event that tells the
page (`OnClose`), a screen asked for and its predecessor gone, an answer on its
way and its use, a style that has come and the 100 ms timer that children wait
for, a road that is known and the render that shows it.

`trip.Participants` is a slice; `Riders` counts how often each user is in it.

A `*Client` is never used twice by the program. `Recycle` makes the model finite:
when both pumps have ended and nothing of the client is left in `Broadcast`,
the same name stands for a new client of a new page.

### Abstractions

* A location is a user and a member of `Positions`, which stands for latitude,
  longitude and name. Payloads are those that pass `validate` and unmarshalling;
  everything else is logged and dropped, which is what `"other"` does.
* `handleLocation` keeps the `offline` field a payload carries. The page never
  sends it, and neither do the browsers modelled.
* The message rate limit of `ReadPump` drops what it reads, which is a browser
  that says less.
* `generateID` yields fresh identities (`FreshTripId`); the run waits for one to
  be free, which is only a bound.
* A failing store call, a timeout included, is `ok = FALSE`; it returns.
* The pages of `Server` apply envelopes over one connection, with all of a trip;
  `PageSession` has one page over many connections and keeps a trip whole. There a
  full queue waits; that it drops is the subject of `Server`.
* `PageSession` has the hub by what this page can tell: `HubAdmits` and
  `HubUnregisters` come at any time, also when the connection is dead already or the
  page has long opened the next one; a group that an unregister leaves empty goes
  with its trip (`hub.go` 249-254), unless others may still be in it, who may leave
  as well (`OthersLeave`); a message is handled whether or not its sender is still
  registered. Messages of the page that its rate limit drops are left out.
* `HubRestarts` is a new process of the server: no members, no trips, and every
  connection of the page on its way down, and never to be registered.
* `Recycle` of `PageSession` is no step of the program: the name of a socket that the
  page, the hub and the network have all let go of stands for a new `WebSocket`. `FetchAnswered` takes any status but 200
  as no trip, which is what `lib/trip.ts` does.
* In `DestinationSearch` a place stands for the text that finds it, its row in the
  list and its coordinates.
* MapLibre is a library: a style set before the first one is there takes its
  place, a later one drops what it does not list, and "styledata" comes a frame
  after a change. What `addSource` and `addLayer` would throw on is what
  `SafeToAdd` excludes.
* Positions of riders closer than the least distance for a new route are equal.
  A line is the sequence of the lengths of its segments, in whole numbers, and a
  place on it the distance from its start; haversine, bearings and the
  interpolation of coordinates are not modelled.
* Time is counted in ticks; a bucket gains one token a tick, `Spacing` ticks are the
  second between searches. How long a service takes is arbitrary.
* `evictOldest` ranges over a Go map, in no particular order: `Evictable` is the set
  of keys some order deletes, `EmptyKey` standing for none.
* A cached value is not distinguished from its key. `clientIP` is a choice among
  addresses, parsing of coordinates and decoding of answers a choice between
  success and failure. Of the two limiters only the general one is composed.
* After `Quit` the code unregisters group by group in map order; the model allows
  every order of the members.

## Runs

The runs on `MCServer`: `c1`, `c2` are sockets of one user and `c3` of
another in `presence`, `liveness`, `trips` and `unsaved_trip`; in `store` and
`shutdown` each is of a user of its own.

| Run | Question | Instance |
|---|---|---|
| `presence` | Do membership, `Send`, rooms and the browsers' markers stay consistent, is nothing sent after a close, does every step implement `Rooms`? | three connections, one group of two, locations and messages the hub only logs |
| `trips` | Does the trip a page shows follow the hub's, when trips are replaced and ended and a rider leaves and comes back? | a leader and a rider that dials again |
| `store` | Do rows follow memory, and inserts the foreign key, when calls fail; does anything cross groups? | a leader and a rider who may hang up in one group, a listener in another, trips and locations, one worker, failing calls |
| `shutdown` | Is anything accepted lost by a stop; do `Run` and `Stop` end? | one who sends locations and one who listens and may hang up, a worker, SIGTERM at any time, fairness |
| `liveness` | Is every dial answered, everybody turned away or dropped hung up on, does a dead connection leave? | three connections, a group of two, fairness |

and on `MCPlaces`:

| Run | Question | Instance |
|---|---|---|
| `places` | Do racing lookups, creations, uses and sweeps of limiter entries ever give an address more tokens than one bucket and its late requests account for, or replace an entry; does a cache keep its cap and evict what expires first; are the searches of one browser spaced? | two requests at a time, one place and three routes, caches of two: 6.4 million states |

and on the modules of the browser:

| Run | Question | Instance |
|---|---|---|
| `sessions` (`MCPage`) | Does a page keep one connection, never none for good, and its rooms apart; does it end up with the trip of the hub, through retries, late logins, restarts of the server and fetches between envelopes? | two rooms, one of them busy, two sockets, two trips, one fetch and one login at a time: 4.2 million states |
| `destination` (`DestinationSearch`) | Is the list for the text and the preview for the choice, in whatever order answers come; does the spinner stop? | two places, two requests at a time, fairness: 119 thousand states |
| `mapview` (`MCMap`) | Do children draw when it is safe, and what they were given last; do waits for a style end, do popups follow? | three styles, two children, one marker, one popup: 67 thousand states |
| `mapscreen` (`MCScreen`) | Are riders' routes those remembered for this trip, is nobody stuck; is the road of this ride, and does what is done end at the marker? | one rider, two destinations, two positions, two rides and two roads: 357 thousand states |

Two further runs, `search_spacing` (on `MCPlaces`) and `unsaved_trip`, each refute one statement
that a document or comment makes (see Findings). Every property of a passing run has a mutant in `PROJECT.json`: a
plausible slip in one definition, which the run then catches. The mutants stand
next to the definitions they spoil and are marked as such.

### Bounds

| Bound | Value | Why it is enough |
|---|---|---|
| `SendCap` | 1 (256) | every send may find the buffer full, and so may the replay of a second location; of two sends in a row the second may fail |
| `BroadcastCap` | 1 (256) | one waiting message suffices to be overtaken by an `Unregister`; messages of one client are taken in order, whatever the capacity |
| `PersistCap` | 1 (512) | full and empty both happen |
| `MaxGroupSize` | 2 | the last seat is contested by three clients |
| `Clients` | 2 or 3 | two sockets of one user plus one of another: the smallest set with a shared user, a peer and a rejected client |
| `HangUps` | who may be hung up on or send a bad frame | the leaver; the others leave only when they are turned away, dropped or the server stops |
| `MayRedial` | whether names are recycled | off where departures are final for the question; on for `trips` |
| `MayStop` | whether SIGTERM arrives | on in `shutdown` |
| `Kinds` | what each browser sends | locations for membership, trip messages for trips: the two only meet in the persistence of trips (`store`) and in the position of an Offline notice |
| `TripIds` | 1 or 2 | two trips that replace one another; symmetric in `trips` |
| `Requests` | 2 | two may miss an entry, hold one that is swept, or wait for a turn, at once |
| `Addresses`, `Entries` | 1, 2 | entries of different addresses never meet in one step; one entry is in the map and one, swept, in the hands of a request (the theorems cover any number of both) |
| `Burst`, `MaxAge` | 1, 1 (20 tokens, refilled in 2 s; 30 min) | the sweep as early as the assumption `Burst <= MaxAge` allows, hence the most dangerous one |
| `MaxSize` | 2 (500, 1000) | three keys of routes fill the cache and overflow it |
| `TTL`, `Spacing` | 1 tick | shorter than the run: entries expire, timers fire |
| `MaxNow` | 3 ticks | use, age, sweep and create again; after that requests go on in a moment that lasts |
| `Rooms`, `BusyRooms` | 2, 1 | a room to come from and one to go to; others are about in one of them, so there is a trip to carry over |
| `Sockets` | 2 | the socket that is dying and its successor; the third would need one of the two to be free |
| `Fetches`, `MaxLogins` | 1, 1 | one request may outlive its screen and meet the next one's connection; a late login meets any screen. With a fetch under way a second socket cannot open, which costs orders of two fetches |
| `QueueCap` | 1 | an envelope is under way while the page acts; `PageProofs` covers queues of every length |
| `Places`, `Requests` (`destination`) | 2, 2 | two requests overtake one another; two searches and one route never all meet, the theorems cover that |
| `Styles`, `Overlays`, `Data`, `Arcs` | 3, 2, 2, 1 | a style shown, one on its way and one that replaces it; a child that draws beside one that does not |
| `Riders` | 1 | entries of different riders never meet in one step but in the effect, which treats each alike (the theorems cover any number) |
| `MaxAsked` | 1 | equal requests under way; different ones, two positions by two destinations, may all be |
| `Waypoints`, `Roads`, `Pace` | up to 4 segments, 1 | a road longer than the waypoints' line, a shorter one, an empty segment |

`CHECK_DEADLOCK FALSE` appears where the system may rest: everybody gone and
nobody dialling again, or a stopped server. The browser runs check deadlock.

### Fairness

`FairSpec` assumes what the runtime gives. Go's `select` picks uniformly among
ready cases, so a case that is ready again and again is eventually taken: strong
fairness on receiving from `Register`, `Unregister`, `Broadcast` and `Quit`. A
goroutine that can continue does: weak fairness on the replay, the pumps, the
unregistrations after `Quit`, the steps of `Stop` and the workers. A closed
socket makes reads and writes fail (the read deadline `pongWait` and the ping
ticker see to it): weak fairness on `ReadFails` for a closed connection, and on
`WriteFails`/`PingFails`. Delivery on an open connection is fair because a
connection that accepts no bytes misses `writeWait` and is a closed one. Store
calls return, which the code does not enforce for the hub's own calls (they use
`context.Background()`). Nobody is assumed to dial, speak, hang up or stop the
server, and the process need not exit after `Stop`.

The `FairSpec` of `DestinationSearch` assumes that a request of the page is answered or
fails: weak fairness of `Answers(r)` for each request, as a `fetch` settles when the
server answers (its own calls have timeouts) or the connection ends. Neither the
user nor the debounce timer is assumed to do anything.

## Proofs

For every value of the constants that satisfies the named assumptions
(`PersistenceAssumption`, `HubAssumption`, `ServerAssumption`: `None` is no value,
capacities are at least 1, clients are finitely many, a hub with a store has at
least one worker; `LimiterAssumption`, `CacheAssumption`, `PlacesAssumption`: a
bucket refills in less time than the sweep calls old, sizes and spacing are
positive; `SessionAssumption`, `DestinationAssumption`, `CanvasAssumption`,
`MarkersAssumption`, `RoutesAssumption`, `RecordAssumption`, `RideAssumption`: `None` is no
value, names of different kinds differ, a line has a segment that is not empty):

* `TypeCorrect` - `Spec => []TypeOK`. A type invariant is not inductive by itself:
  the replay reads `cache[GroupOf[joiner]]`, so it carries `Replaying` (while
  `run = "replay"` the joiner is a client and the users left are cached).
* `MembershipCorrect` - `Spec => []MembershipInv`. `MemberIffOpen`,
  `LeaversAreOut` and `RoomsNonEmpty` need three more facts: members are filed
  under their own group; the replay in progress is to a member, and has
  locations left to send only where somebody else is a member already - this is
  why dropping an overflowing joiner cannot leave an empty group behind, although
  that path does not collect the group; and sockets and pumps belong to clients
  in the right phase. TLC checks the whole conjunction in `presence`.
* `NeverSendsAfterClose` - no step appends to a closed `Send`. A send reaches
  members or the joiner only, and by `MembershipInv` their `Send` is open.
* `NoPanicInService` - the hub is panicked only if `Stop` has got as far as closing
  `persistCh`. By `PanicsOnlyStopping`: only `Stop` closes it, and it goes on only to
  wait and return; the model's one panic is the send on that closed channel.
* `ServerImplementsRooms`, `GroupsWithinLimit` - under the mapping `Membership`
  every step of the server is a step of `Rooms` or a stutter; the size limit
  follows in the abstract module's terms.
* `InsertsFindUser`, `StopHasDrained` - by `WorkersInv`: a worker exits only when
  the channel is closed and empty, nothing is enqueued after the close, and
  `Stop` returns only when all have exited.
* `TripRowsFollow` - by `TripsInv`: two groups never have trips of the same
  identity, and without a store there are no rows.
* `PeersFollowCache`, `TripsFollowHub` - by `ViewsInv`, which says for every client that was
  dropped nothing what its view comes to once the rest of its `Send` is applied:
  what the hub has, and in the middle of a replay the cache without the users in
  `todo`, and no trip. A new envelope is one step more at the end of that fold, a
  delivered one the first of its steps taken beforehand. A registration needs
  `FreshInv`: a client the hub has not heard of was sent nothing and shows
  nothing. A departure is the delicate step: of its two envelopes a client with one free
  slot gets only the first, and counts as dropped.
* `MembersAgree` - a corollary: two members that have read everything, and were dropped
  nothing, show the same trip and the same positions of all others.
* `GroupsApart` - by `ApartInv`: what is cached, agreed on, sent or still to be replayed
  in a group is about users with a client of that group. It holds of clients that
  were dropped envelopes too, of which `ViewsInv` says nothing.

* `PlacesTyped` - the types of the REST side, with what a request carries at each
  stage.
* `ThrottleHolds` - `budget` is charged for every token an address takes, from
  whichever entry, and may go below zero; the theorem bounds by how much. By
  `BudgetInv`: budget and late tokens together (`Slack`) are at least what the bucket
  in the map holds, and a full bucket where there is none (`BucketCovered`), because
  `Slack` has received the refill of all ticks since the entry was last used
  (`RefilledSinceUse`) and a request that is not late has just renewed that time
  (`HeldIsFresh`), the fact the mutant `TouchForgotten` breaks. What is older than
  `MaxAge` is therefore made good, and sweeping it forgets nothing that was taken in
  time. A request is *late* whose entry was swept before it came to `Allow`, or whose
  entry it got so long ago that a sweep may follow before its token is back; each
  such request may take one token more. That is what the code gives, not
  what `rate.go` could: nothing holds an entry while it is in use.
* `MapIsShared` - the double check in `GetLimiter` makes an entry only where there
  is none.
* `CapHolds` - with `FiniteAndBounded`; the lemma `EvictsOldest` is where the
  absence of the key `""` is needed (see Known limits).
* `OldestIsEvicted` - from the same lemma.
* `OwnSearchesSpaced` - by `WaitsForOwn`: a waiting search wakes no earlier than
  `Spacing` after the slot's own last one, although `lastReq` moves meanwhile.

* `PageTyped` - the shape of the state (`PageShape`) by itself; that trips are kept and
  sent under their own room is part of `WireInv`, below.
* `OneConnection`, `Reconnects` - by `ConnInv`: the connection effect keeps
  its socket, the socket of the store and the timer in step with what is mounted,
  and the socket of a mounted map is of the room of that map (`ActiveIsOurs`), because
  the room changes only on a screen that has none. Two facts carry it: a socket
  in use has a room (`Addressed`), and the hub knows only sockets it has met, and
  all of those that live (`MembersAreSockets`).
* `RoomsStayApart` - what the store is given came over the active socket or from a
  request that is alive. So it rests on what travels where: envelopes on a socket
  speak of trips of its room (`WireInv`), a live request is of the room that is shown
  (`FetchHomes`; the cleanup silences requests before the room can change), and what
  is shown of another room came in after Leave (`NewcomersAreStrays`).
* `TripAgrees` - agreement at rest is about empty queues, so its invariant `TripInv`
  says where queues lead that are not: the last trip envelope on the active socket
  is the hub's trip (`Told`); a socket that became known before it is open has been
  sent the trip (`Greeted`); and the page will show the hub's trip once it has read its
  inbox, or, where the hub has none or does not know the page yet, it is asking
  for the trip, is about to create its own there, or will show none (`Follows`). An
  unregister of an older socket that takes the group and its trip along
  (`TripForgotten`) finds the page's new socket unknown to the hub, where `Follows`
  claims nothing of that trip.
* `ListFollowsQuery`, `PreviewFollowsChoice` - by `OnItsWay`: the armed timer and the
  searches of this mount are for the text in the box and routes for the place
  chosen, or the user has moved on from them, and what they leave is marked so.
* `MapTyped`, `DrawsSafely`, `DrawnAsGiven`, `StyleOnItsWay`, `PopupsStayWithMarkers` - the
  canvas' own properties are inductive together once `CanvasFacts` says what the
  flags imply: children may draw only when a first style is there, and without a
  map no flag, timer or change is left.
* `RoutesAreOfThisTrip` - `RoutesFollowTrip` looks at the trip, which changes under late
  answers; `RoutesRemembered` does not: an entry that remembers an origin remembers
  the very route on the map, of whichever trip. `EntriesAreListed` ties entries to
  the riders of the last effect.
* `RidersAreAskedFor` - a request that is over finds whatever entry there is and
  frees it; one that is busy has been made so by a request still counted.
* `RoadFollowsRide` - by `RideInv`: at most the ride that is on has a road under way,
  the path is empty until then, and everything older is stale.
* `SliceEndsAtDistance` - about every line of segments, empty ones included: the loop of
  `sliceLineByDistance` stops, at a segment that starts no further than the distance
  and ends no nearer; the place it and `getLinePosition` find there is the distance
  itself (`FirstStop`, `PlaceAtDistance`).
* `ScreenTypeCorrect`, `MarkerEndsDone` - by `PlaceInv`: while a ride is on the timer goes by one
  of the lines, and only the timer puts the marker on the line, where the progress
  says and short of the end. A step of the timer keeps that because a line has a
  length (`LinesHaveLength`); a line that is replaced takes the marker off.

`PeersAgree` and `TripViewsAgree` fold a buffer, `DoneEndsAtMarker` sums up segments with a
fold, and `FoldLeft` is a function defined by recursion over sets of positions.
The library's induction theorems take an operator, which the provers cannot
instantiate; its `WFMin` does not. So `FoldLemmas` goes by sets: every set of numbers
that is not empty has a least one (`LeastNumber`), hence a set with 0 and with the
successors of its members has all numbers (`NumbersByInduction`). With it the function
that `FoldLeft` chooses exists (`TableExists`), steps through the positions in order
(`TableRuns`), and its result, `Outcome`, is the start for no members and one step more
for one more at the end (`OutcomeEmpty`, `OutcomeAppend`), or beforehand (`OutcomeTail`).

All invariants and action properties of the runs are proved. Only model-checked are the
liveness properties, `SpinnerStops` included: ENABLED and fairness are out of the prover's
reach.

## Findings

Each run below has one property, quoted from a document or comment, and ends in a
counterexample.

| Run | Statement | What the code does |
|---|---|---|
| `search_spacing` | `nominatim.go` 33 and 103: it enforces Nominatim's limit of one request a second | `waitForTurn` computes its delay under the lock, sleeps outside it and does not look at `lastReq` again (`nominatim.go` 119): two searches that wait at once are sent at once. `OwnSearchesAreSpaced`, for the searches of one browser, is what remains |
| `unsaved_trip` | `hub.go` 375, "Persist to DB." | the creator has no row in `users` until a location of theirs has been persisted; the insert fails on the foreign key, the trip lives in memory only |

## Known limits

Behaviour met while modelling that no run repeats, because no document says
otherwise, the model abstracts from it, or the properties are stated around it.

*Server*

* One of two sockets of a user closing removes the position the other one keeps
  alive, and peers are told Offline (`hub.go` 226): presence is kept by user,
  membership by connection.
* `Stop` closes `persistCh` while `Run` may still take a location; its send then panics
  (`hub.go` 310). `NoSendAfterClose` is about `Send` channels; `run = "panicked"` is a
  state of `Server`, which `NoPanicInService` confines to a server that is stopping.
* The handlers of `Broadcast` never ask whether the sender is still a member
  (`hub.go` 305, 345, 387). A location taken after the sender's `Unregister` is cached and
  replayed to those who join the group, and no Offline follows; a `trip_join` taken then
  adds a rider that never leaves, and a `trip_create` taken then stores a trip for a
  group that may have been deleted. `Server` and `PageSession` take such messages; what
  their properties say of browsers holds nevertheless, as they compare them with
  the hub.
* Nothing waits for `Run` (`ProcessExits`): it may not have closed its connections
  when the process is gone (`hub.go` 140).
* A request that is slow between `GetLimiter` and `Allow` may spend from an entry that
  was swept meanwhile, while its successor is full (`rate.go` 81): `late` in
  `ThrottleSurvives`.
* `evictOldest` takes the key `""` for "no key yet" (`cache.go` 65): a query of blanks
  passes the handler and is trimmed to it, and the cap is not kept then. `CapIsKept`
  and `OldestGoesFirst` are stated for keys other than that.

*Page*

* An answer to a login comes when it comes: the map is asked for with whatever
  room is in the box by then (`App.tsx` 460).
* Any status but 200 from `/api/trip` is "no trip" to the page, which then creates
  its own again, also over one that is alive (`App.tsx` 907).
* A trip that is fetched while another is shown is dropped, and a fetched one may
  have ended by the time it is shown. Both are excused in `AgreesAtRest`, as are a
  fetch that failed and a panel closed by hand, until the next trip envelope or
  connection.
* In a group of its own a page may fetch the trip on its new connection before the
  hub has unregistered the old one, and then the group goes with that trip
  (`hub.go` 249): it is shown, and nobody has it any more. This is excused as well
  (`Outdated`), as is everything while the page has no open connection.
* A trip that ended while the page was away is created anew, under an identity of
  its own, by whoever comes back with it: the page and the hub agree again, on a
  trip that somebody else has ended.
* What arrives between Leave and the unmount is in the store when the next room
  is entered (`strays`).
* React's StrictMode mounts twice in development; that is not modelled.
* `progressPct` of a trip whose origin is its destination divides by zero
  (`TripPanel.tsx` 29).

*Map*

* A tooltip does not move with its marker (`behind` in `PopupsFollow`).
* A style that fails, or is set again while it is shown, is not reported, and
  children wait for the next one (`lost` in `StyleWillLoad`).
* A timer armed for the old style lets children draw just before the new one wipes
  them out; they draw again only after the next change (`wiped` in `DrawnIsWanted`).
* A rider's route that fails is asked for again at the next change of any
  position, without the least interval (`App.tsx` 793).
* Riders that are gone stay in the set of hidden ones, and the box "All" stays
  unchecked for them until it is pressed (`App.tsx` 1455).
* `decodePolyline` tests the low bit of `result >> 1`, not of `result`
  (`lib/routing.ts` 46, 56). The values of coordinates are not modelled.
* A `fitBounds` request in the store is carried out once more by the next mount,
  and `hasPannedRef` is written but never read.

## Plan

Each part below would come with its run, mutants and theorems.

1. `TripRead` - `GetActiveTrip` (`hub.go` 111-116, 130-138, `handler/trip.go`): the query
   that blocks once `Run` has returned, and the pointer that is encoded while the
   hub mutates the trip, modelled field by field.
2. `Validation` - the predicates of `validate/` as operators against reference
   definitions.
3. A refinement of the hub half of `PageSession` by `Server`, which today are two models
   of the same handlers at different grain.

## Not modelled

* *Authentication, CORS, logging, configuration* keep no state between requests;
  `UserOf` stands for the outcome of a token.
* *Validation*: the actions take payloads that validate.
* *The race on `*Trip`* between the hub and the goroutine of `GetActiveTrip`, and the
  wait of that goroutine on a hub that has returned (see Plan). `FetchAnswered` has
  their other outcomes.
* *Camera and analytics globe*: first fix, `fitBounds` and recentring move a camera;
  the globe is an animation whose one effect is to show the map.
* *Geometry*: distances, bearings and the interpolation of coordinates are
  floating-point arithmetic.
* *UI kit, styles, error boundary*: layout and vendored widgets without state of
  this system. The controlled viewport and the zoom, compass and fullscreen
  buttons of `map.tsx` only forward to MapLibre. `MapPopup`, `MapArc`, `MapClusterLayer` and
  the tooltip are modelled as that component offers them, though `App.tsx` uses none
  of them today.
* `GetActiveTripByGroup` and `UpdateTripStatus` of the store, `resetSession`,
  `updateTripParticipants` and `setTripStatus` of the page are never called.
