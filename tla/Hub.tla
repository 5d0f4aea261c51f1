-------------------------------- MODULE Hub --------------------------------
(***************************************************************************)
(* The handlers of websocket/hub.go: what one turn of the hub's event loop *)
(* does to the rooms, the location cache, the trips and the Send channels  *)
(* of the clients. Which handler runs, and when, is decided in Server.     *)
(*                                                                         *)
(* A handler runs alone on the hub's goroutine, so it is one action, with  *)
(* one exception: handleRegister replays the cache one non-blocking send   *)
(* at a time, while the joiner's WritePump may already drain the channel.  *)
(* Whether the buffer overflows depends on that race, so the replay loop   *)
(* is a sequence of actions (run = "replay").                              *)
(***************************************************************************)
EXTENDS Persistence

CONSTANTS
    Clients,        \* *Client values: one per WebSocket connection
    Groups,         \* group (room) identifiers
    UserOf,         \* UserOf[c] is client.UserID
    GroupOf,        \* GroupOf[c] is client.GroupID
    MaxGroupSize,   \* h.MaxGroupSize
    SendCap         \* capacity of client.Send

Trip == [id : TripIds, creator : Users, status : {"planning", "active", "completed"},
         riders : Riders]

ASSUME HubAssumption ==
    /\ UserOf \in [Clients -> Users]
    /\ GroupOf \in [Clients -> Groups]
    /\ MaxGroupSize \in Nat \ {0}
    /\ SendCap \in Nat \ {0}
    /\ None \notin Trip
    /\ None \notin Clients
    /\ IsFiniteSet(Clients)

VARIABLES
    rooms,          \* the keys of h.groups
    groups,         \* the members of each group ({} outside rooms)
    cache,          \* h.cache: last position per group and user, or None
    trips,          \* h.trips: the group's trip, or None
    sendBuf,        \* client.Send: envelopes not yet taken by WritePump
    sendClosed,     \* clients whose Send channel is closed
    lost,           \* clients an envelope was dropped for (buffer full)
    run,            \* where Run() stands
    joiner,         \* the client handleRegister is replaying to
    todo            \* cached users the replay loop has still to send

hubVars == <<rooms, groups, cache, trips, sendBuf, sendClosed, lost, run,
             joiner, todo>>

\* Envelopes as the hub sends them. A location whose pos is None has the
\* Offline flag set; every trip envelope carries the whole trip.
Envelope ==
    [type : {"location"}, user : Users, pos : Positions \cup {None}]
        \cup [type : {"trip_create", "trip_join", "trip_leave", "trip_start",
                      "trip_end"}, trip : Trip]

LocationOf(u, p) == [type |-> "location", user |-> u, pos |-> p]

\* (mutant of Offline: the flag is not set)
OfflineUnflagged(u) == LocationOf(u, CHOOSE p \in Positions : TRUE)

Offline(u)       == LocationOf(u, None)
TripEnvelope(type, trip) == [type |-> type, trip |-> trip]

NoPositions == [u \in Users |-> None]

HubTypeOK ==
    /\ rooms \subseteq Groups
    /\ groups \in [Groups -> SUBSET Clients]
    /\ cache \in [Groups -> [Users -> Positions \cup {None}]]
    /\ trips \in [Groups -> Trip \cup {None}]
    /\ sendBuf \in [Clients -> Seq(Envelope)]
    /\ \A c \in Clients : Len(sendBuf[c]) <= SendCap
    /\ sendClosed \subseteq Clients
    /\ lost \subseteq Clients
    /\ run \in {"select", "replay", "stopping", "returned", "panicked", "exited"}
    /\ joiner \in Clients \cup {None}
    /\ todo \subseteq Users

HubInit ==
    /\ rooms = {}
    /\ groups = [g \in Groups |-> {}]
    /\ cache = [g \in Groups |-> NoPositions]
    /\ trips = [g \in Groups |-> None]
    /\ sendBuf = [c \in Clients |-> <<>>]
    /\ sendClosed = {}
    /\ lost = {}
    /\ run = "select"
    /\ joiner = None
    /\ todo = {}

-----------------------------------------------------------------------------
(* Non-blocking sends: select { case c.Send <- m: default: }               *)

HasRoomByOne(c) == Len(sendBuf[c]) <= SendCap       \* (mutant of HasRoom)

HasRoom(c) == Len(sendBuf[c]) < SendCap

\* One envelope to every client of to; whoever has no room loses it.
SendEach(to, m) ==
    /\ sendBuf' = [c \in Clients |-> IF c \in to /\ HasRoom(c)
                                     THEN Append(sendBuf[c], m)
                                     ELSE sendBuf[c]]
    /\ lost' = lost \cup {c \in to : ~HasRoom(c)}

\* Two envelopes in a row to every client of to.
SendBoth(to, m1, m2) ==
    /\ sendBuf' = [c \in Clients |->
                     IF c \in to /\ HasRoom(c)
                     THEN IF Len(sendBuf[c]) + 1 < SendCap
                          THEN Append(Append(sendBuf[c], m1), m2)
                          ELSE Append(sendBuf[c], m1)
                     ELSE sendBuf[c]]
    /\ lost' = lost \cup {c \in to : Len(sendBuf[c]) + 1 >= SendCap}

-----------------------------------------------------------------------------
(* What several handlers do                                                *)

CloseSend(c) == sendClosed' = sendClosed \cup {c}

\* len(h.groups[g]) < h.MaxGroupSize
HasSeatByOne(g) == Cardinality(groups[g]) <= MaxGroupSize   \* (mutant of HasSeat)

HasSeat(g) == Cardinality(groups[g]) < MaxGroupSize

\* The members that hear of a location of c: the group, c excepted.
OthersAnywhere(c) == UNION {groups[g] : g \in Groups} \ {c}   \* (mutant of Others)

Others(c) == groups[GroupOf[c]] \ {c}

\* Whether a group of which rest remains is garbage-collected.
Abandoned(rest) == rest = {}

-----------------------------------------------------------------------------
(* handleRegister                                                          *)

\* A group that was not there gets its maps, the cache starting empty.
MakeGroup(g) ==
    /\ rooms' = rooms \cup {g}
    /\ cache' = IF g \in rooms THEN cache ELSE [cache EXCEPT ![g] = NoPositions]

\* (mutant of RejectJoiner: the early return is missing)
RejectJoinerNoReturn(c) ==
    LET g == GroupOf[c] IN
    /\ ~HasSeat(g)
    /\ MakeGroup(g)
    /\ CloseSend(c)
    /\ groups' = [groups EXCEPT ![g] = @ \cup {c}]
    /\ UNCHANGED <<trips, sendBuf, lost, run, joiner, todo>>
    /\ UNCHANGED storeVars

\* (mutant of RejectJoiner: a registration waits for a seat)
RejectJoinerWaits(c) == FALSE

\* The group is full: the client's Send is closed and it never becomes a
\* member.
RejectJoiner(c) ==
    LET g == GroupOf[c] IN
    /\ ~HasSeat(g)
    /\ MakeGroup(g)
    /\ CloseSend(c)
    /\ UNCHANGED <<groups, trips, sendBuf, lost, run, joiner, todo>>
    /\ UNCHANGED storeVars

\* The client becomes a member and the replay starts.
AdmitJoiner(c) ==
    LET g == GroupOf[c] IN
    /\ HasSeat(g)
    /\ MakeGroup(g)
    /\ groups' = [groups EXCEPT ![g] = @ \cup {c}]
    /\ run' = "replay"
    /\ joiner' = c
    /\ todo' = {u \in Users : cache'[g][u] # None}
    /\ UNCHANGED <<trips, sendBuf, sendClosed, lost>>
    /\ UNCHANGED storeVars

\* One turn of the replay loop; Go ranges over the map in any order.
ReplayLocation(u) ==
    /\ run = "replay"
    /\ u \in todo
    /\ HasRoom(joiner)
    /\ sendBuf' = [sendBuf EXCEPT ![joiner] =
                     Append(@, LocationOf(u, cache[GroupOf[joiner]][u]))]
    /\ todo' = todo \ {u}
    /\ UNCHANGED <<rooms, groups, cache, trips, sendClosed, lost, run, joiner>>
    /\ UNCHANGED storeVars

\* (mutant of ReplayOverflows: the delete is missing)
ReplayOverflowsStays ==
    /\ run = "replay"
    /\ todo # {}
    /\ ~HasRoom(joiner)
    /\ CloseSend(joiner)
    /\ run' = "select"
    /\ joiner' = None
    /\ todo' = {}
    /\ UNCHANGED <<rooms, groups, cache, trips, sendBuf, lost>>
    /\ UNCHANGED storeVars

\* The joiner cannot even take the replay: it is dropped from the group.
ReplayOverflows ==
    /\ run = "replay"
    /\ todo # {}
    /\ ~HasRoom(joiner)
    /\ CloseSend(joiner)
    /\ groups' = [groups EXCEPT ![GroupOf[joiner]] = @ \ {joiner}]
    /\ run' = "select"
    /\ joiner' = None
    /\ todo' = {}
    /\ UNCHANGED <<rooms, cache, trips, sendBuf, lost>>
    /\ UNCHANGED storeVars

\* (mutant of ReplayTrip: handleRegister returns after the locations)
ReplayTripForgotten ==
    /\ run = "replay"
    /\ todo = {}
    /\ run' = "select"
    /\ joiner' = None
    /\ UNCHANGED <<rooms, groups, cache, trips, sendBuf, sendClosed, lost, todo>>
    /\ UNCHANGED storeVars

\* The end of handleRegister: the group's trip, sent as a trip_create.
ReplayTrip ==
    /\ run = "replay"
    /\ todo = {}
    /\ LET trip == trips[GroupOf[joiner]] IN
       IF trip # None
       THEN SendEach({joiner}, TripEnvelope("trip_create", trip))
       ELSE UNCHANGED <<sendBuf, lost>>
    /\ run' = "select"
    /\ joiner' = None
    /\ UNCHANGED <<rooms, groups, cache, trips, sendClosed, todo>>
    /\ UNCHANGED storeVars

-----------------------------------------------------------------------------
(* handleUnregister                                                        *)

\* removeTripParticipant's and handleTripJoin's test on the group's trip.
TripOpen(g) == trips[g] # None /\ trips[g].status # "completed"

Leave(trip, u) == [trip EXCEPT !.riders[u] = 0]

\* A client that was rejected, or dropped before: nothing to do.
UnregisterStranger(c) ==
    /\ c \notin groups[GroupOf[c]]
    /\ UNCHANGED hubVars
    /\ UNCHANGED storeVars

\* The member leaves the group, its trip and the cache, whoever else speaks
\* for the same user; the others are told; an empty group is deleted with its
\* cache and its trip.
UnregisterMember(c, ok) ==
    LET g    == GroupOf[c]
        u    == UserOf[c]
        rest == Others(c)
        left == Leave(trips[g], u)
    IN
    /\ c \in groups[g]
    /\ groups' = [groups EXCEPT ![g] = rest]
    /\ CloseSend(c)
    /\ IF TripOpen(g)
       THEN /\ UpdateTripRow(trips[g].id, left.riders, ok)
            /\ SendBoth(rest, TripEnvelope("trip_leave", left), Offline(u))
            /\ trips' = [trips EXCEPT ![g] = IF Abandoned(rest) THEN None ELSE left]
       ELSE /\ SendEach(rest, Offline(u))
            /\ trips' = [trips EXCEPT ![g] = IF Abandoned(rest) THEN None ELSE @]
            /\ UNCHANGED storeVars
    /\ cache' = IF Abandoned(rest) THEN [cache EXCEPT ![g] = NoPositions]
                                  ELSE [cache EXCEPT ![g][u] = None]
    /\ rooms' = IF Abandoned(rest) THEN rooms \ {g} ELSE rooms
    /\ UNCHANGED <<run, joiner, todo>>

HandleUnregister(c, ok) ==
    \/ UnregisterMember(c, ok)
    \/ UnregisterStranger(c)

-----------------------------------------------------------------------------
(* handleBroadcast: one message from sender c. Neither handleLocation nor   *)
(* handleTripCreate asks whether the sender is still a member, or whether   *)
(* its group still exists.                                                  *)

\* handleLocation, for a payload validate.Location accepts. A send on a
\* closed channel panics, even as a case of a select with a default.
HandleLocation(c, pos) ==
    LET g == GroupOf[c]
        u == UserOf[c]
    IN
    IF HasStore /\ persistClosed
    THEN /\ run' = "panicked"
         /\ UNCHANGED <<rooms, groups, cache, trips, sendBuf, sendClosed, lost,
                        joiner, todo>>
         /\ UNCHANGED storeVars
    ELSE /\ cache' = [cache EXCEPT ![g][u] = pos]
         /\ EnqueueLocation([user |-> u, pos |-> pos])
         /\ SendEach(Others(c), LocationOf(u, pos))
         /\ UNCHANGED <<rooms, groups, trips, sendClosed, run, joiner, todo>>

\* What the trip handlers leave alone.
UnchangedByTrips ==
    UNCHANGED <<rooms, groups, cache, sendClosed, run, joiner, todo>>

\* broadcastToGroup, once the group's trip has become trip.
TripBecomes(g, trip, type) ==
    /\ trips' = [trips EXCEPT ![g] = trip]
    /\ SendEach(groups[g], TripEnvelope(type, trip))

NoRiders == [u \in Users |-> 0]

\* handleTripCreate, for a payload validate.TripCreate accepts: a new trip
\* replaces the one the group has, and is kept whatever the store says.
HandleTripCreate(c, id, ok) ==
    LET u    == UserOf[c]
        trip == [id |-> id, creator |-> u, status |-> "planning",
                 riders |-> [NoRiders EXCEPT ![u] = 1]]
    IN
    /\ InsertTripRow(id, u, trip.riders, ok)
    /\ TripBecomes(GroupOf[c], trip, "trip_create")
    /\ UnchangedByTrips

\* (mutant of HandleTripJoin: the row is written before the append)
HandleTripJoinStaleRow(c, ok) ==
    LET g      == GroupOf[c]
        u      == UserOf[c]
        joined == [trips[g] EXCEPT !.riders[u] = @ + 1]
    IN
    IF TripOpen(g) /\ trips[g].riders[u] = 0
    THEN /\ UpdateTripRow(trips[g].id, trips[g].riders, ok)
         /\ TripBecomes(g, joined, "trip_join")
         /\ UnchangedByTrips
    ELSE UNCHANGED hubVars /\ UNCHANGED storeVars

\* handleTripJoin
HandleTripJoin(c, ok) ==
    LET g      == GroupOf[c]
        u      == UserOf[c]
        joined == [trips[g] EXCEPT !.riders[u] = @ + 1]
    IN
    IF TripOpen(g) /\ trips[g].riders[u] = 0
    THEN /\ UpdateTripRow(trips[g].id, joined.riders, ok)
         /\ TripBecomes(g, joined, "trip_join")
         /\ UnchangedByTrips
    ELSE UNCHANGED hubVars /\ UNCHANGED storeVars

\* handleTripLeave, removeTripParticipant: the row is written and the group
\* told even when the sender was not riding.
HandleTripLeave(c, ok) ==
    LET g    == GroupOf[c]
        left == Leave(trips[g], UserOf[c])
    IN
    IF TripOpen(g)
    THEN /\ UpdateTripRow(trips[g].id, left.riders, ok)
         /\ TripBecomes(g, left, "trip_leave")
         /\ UnchangedByTrips
    ELSE UNCHANGED hubVars /\ UNCHANGED storeVars

MayControlTrip(c) ==
    /\ trips[GroupOf[c]] # None
    /\ trips[GroupOf[c]].creator = UserOf[c]

\* handleTripStart: the creator's, in any status; nothing is persisted.
HandleTripStart(c) ==
    LET g == GroupOf[c] IN
    /\ IF MayControlTrip(c)
       THEN /\ TripBecomes(g, [trips[g] EXCEPT !.status = "active"], "trip_start")
            /\ UnchangedByTrips
       ELSE UNCHANGED hubVars
    /\ UNCHANGED storeVars

\* handleTripEnd: the completed trip is announced, then forgotten.
HandleTripEnd(c) ==
    LET g == GroupOf[c] IN
    /\ IF MayControlTrip(c)
       THEN /\ SendEach(groups[g],
                        TripEnvelope("trip_end", [trips[g] EXCEPT !.status = "completed"]))
            /\ trips' = [trips EXCEPT ![g] = None]
            /\ UnchangedByTrips
       ELSE UNCHANGED hubVars
    /\ UNCHANGED storeVars
=============================================================================
