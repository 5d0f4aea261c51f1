------------------------------- MODULE Server -------------------------------
(***************************************************************************)
(* The running server: browsers that dial, speak and hang up; ServeWs and  *)
(* the two pump goroutines of each connection (handler/ws.go,              *)
(* websocket/client.go); the hub's select loop over its channels and its   *)
(* shutdown (websocket/hub.go); the persistence workers; and, at the other *)
(* end of each connection, what a browser's onmessage makes of the         *)
(* envelopes it is sent (frontend/src/App.tsx).                            *)
(*                                                                         *)
(* Register and Unregister are unbuffered: a goroutine sending on one is   *)
(* modelled by its phase, and the hub's receive is the step of both.       *)
(* Broadcast is buffered and kept as a sequence, so the hub may well see a *)
(* client's Unregister before the messages it sent earlier.                *)
(***************************************************************************)
EXTENDS Hub, SequencesExt

CONSTANTS
    BroadcastCap,   \* capacity of h.Broadcast
    Kinds,          \* Kinds[c]: the message types the browser at c sends
    HangUps,        \* clients whose connection may fail (a bound)
    MayRedial,      \* whether browsers dial more than once (a bound)
    MayStop         \* whether the process may receive SIGTERM

\* "other" stands for whatever handleBroadcast and the handlers only log.
MessageTypes == {"location", "trip_create", "trip_join", "trip_leave",
                 "trip_start", "trip_end", "other"}

ASSUME ServerAssumption ==
    /\ BroadcastCap \in Nat \ {0}
    /\ Kinds \in [Clients -> SUBSET MessageTypes]
    /\ HangUps \subseteq Clients
    /\ MayRedial \in BOOLEAN
    /\ MayStop \in BOOLEAN

VARIABLES
    phase,      \* where the goroutine of ServeWs, then ReadPump, stands
    connOpen,   \* connections neither end has closed
    writing,    \* clients whose WritePump is running
    broadcast,  \* h.Broadcast: messages not yet taken by the hub
    peers,      \* what onmessage has made of the locations of a connection
    tripView,   \* what it has made of the trip envelopes of a connection
    stop        \* where Hub.Stop stands

connVars == <<phase, connOpen, writing>>
viewVars == <<peers, tripView>>
vars == <<hubVars, storeVars, connVars, broadcast, viewVars, stop>>

\* What a browser sends; only a location carries a position.
Message ==
    [sender : Clients, type : {"location"}, pos : Positions]
        \cup [sender : Clients, type : MessageTypes \ {"location"}, pos : {None}]

TypeOK ==
    /\ PersistenceTypeOK
    /\ HubTypeOK
    /\ phase \in [Clients -> {"idle", "dialing", "running", "leaving", "done"}]
    /\ connOpen \subseteq Clients
    /\ writing \subseteq Clients
    /\ broadcast \in Seq(Message)
    /\ Len(broadcast) <= BroadcastCap
    /\ peers \in [Clients -> [Users -> Positions \cup {None}]]
    /\ tripView \in [Clients -> Trip \cup {None}]
    /\ stop \in {"up", "quitting", "draining", "returned"}

Init ==
    /\ PersistenceInit
    /\ HubInit
    /\ phase = [c \in Clients |-> "idle"]
    /\ connOpen = {}
    /\ writing = {}
    /\ broadcast = <<>>
    /\ peers = [c \in Clients |-> NoPositions]
    /\ tripView = [c \in Clients |-> None]
    /\ stop = "up"

\* A panic on any goroutine ends the process, and so does main when it returns.
Alive == run \notin {"panicked", "exited"}

-----------------------------------------------------------------------------
(* The browser's end: connect, close, and onmessage.                       *)

Connect(c) ==
    /\ Alive
    /\ phase[c] = "idle"
    /\ phase' = [phase EXCEPT ![c] = "dialing"]
    /\ connOpen' = connOpen \cup {c}
    /\ UNCHANGED <<hubVars, storeVars, writing, broadcast, viewVars, stop>>

ConnCloses(c) == connOpen' = connOpen \ {c}

\* The browser, or the network, closes the connection; onclose leaves what is
\* shown alone.
PeerCloses(c) ==
    /\ Alive
    /\ c \in HangUps
    /\ c \in connOpen
    /\ ConnCloses(c)
    /\ UNCHANGED <<hubVars, storeVars, phase, writing, broadcast, viewVars, stop>>

\* upsertPeer and removePeer, on a location envelope. A browser does not
\* list itself.
ShowPeer(me, shown, m) ==
    IF m.type = "location" /\ m.user # me
    THEN [shown EXCEPT ![m.user] = m.pos]
    ELSE shown

\* setTrip, on a trip envelope.
ShowTrip(shown, m) ==
    CASE m.type = "location"    -> shown
      [] m.type = "trip_create" -> m.trip
      [] m.type = "trip_end"    -> None
      [] m.type = "trip_start"  ->
            IF shown = None THEN None ELSE [shown EXCEPT !.status = "active"]
      [] OTHER                  ->
            IF shown = None THEN None ELSE [shown EXCEPT !.riders = m.trip.riders]

\* Both ends have let go of the connection: a page is opened that dials again,
\* as a new *Client, and shows nothing yet. (What a page that reconnects still
\* shows from before is not modelled here.)
Recycle(c) ==
    /\ Alive
    /\ MayRedial
    /\ phase[c] = "done"
    /\ c \notin writing
    /\ \A i \in DOMAIN broadcast : broadcast[i].sender # c
    /\ phase' = [phase EXCEPT ![c] = "idle"]
    /\ sendBuf' = [sendBuf EXCEPT ![c] = <<>>]
    /\ sendClosed' = sendClosed \ {c}
    /\ lost' = lost \ {c}
    /\ peers' = [peers EXCEPT ![c] = NoPositions]
    /\ tripView' = [tripView EXCEPT ![c] = None]
    /\ UNCHANGED <<rooms, groups, cache, trips, run, joiner, todo>>
    /\ UNCHANGED <<storeVars, connOpen, writing, broadcast, stop>>

-----------------------------------------------------------------------------
(* ReadPump and WritePump                                                  *)

\* A message is read and sent on Broadcast; the send blocks while it is full.
\* Bytes that arrived before the connection closed may still be read.
ReadForwards(c, m) ==
    /\ Alive
    /\ phase[c] = "running"
    /\ m.sender = c
    /\ m.type \in Kinds[c]
    /\ Len(broadcast) < BroadcastCap
    /\ broadcast' = Append(broadcast, m)
    /\ UNCHANGED <<hubVars, storeVars, connVars, viewVars, stop>>

\* (mutant of ReadFails: the send on Unregister does not wait for the hub)
ReadFailsUnheard(c) ==
    /\ Alive
    /\ phase[c] = "running"
    /\ c \in HangUps \/ c \notin connOpen
    /\ phase' = [phase EXCEPT ![c] = "done"]
    /\ ConnCloses(c)
    /\ UNCHANGED <<hubVars, storeVars, writing, broadcast, viewVars, stop>>

\* ReadMessage returns an error: the connection is closed, no pong came
\* within pongWait, or the frame was bad. The deferred function then sends on
\* Unregister.
ReadFails(c) ==
    /\ Alive
    /\ phase[c] = "running"
    /\ c \in HangUps \/ c \notin connOpen
    /\ phase' = [phase EXCEPT ![c] = "leaving"]
    /\ UNCHANGED <<hubVars, storeVars, connOpen, writing, broadcast, viewVars, stop>>

\* The head of Send reaches the browser, whose onmessage applies it.
WriteDelivers(c) ==
    /\ Alive
    /\ c \in writing
    /\ c \in connOpen
    /\ sendBuf[c] # <<>>
    /\ sendBuf' = [sendBuf EXCEPT ![c] = Tail(@)]
    /\ peers' = [peers EXCEPT ![c] = ShowPeer(UserOf[c], @, Head(sendBuf[c]))]
    /\ tripView' = [tripView EXCEPT ![c] = ShowTrip(@, Head(sendBuf[c]))]
    /\ UNCHANGED <<rooms, groups, cache, trips, sendClosed, lost, run, joiner, todo>>
    /\ UNCHANGED <<storeVars, connVars, broadcast, stop>>

\* (mutant of WritePumpReturns: the deferred Close is missing)
WritePumpReturnsOpen(c) ==
    /\ writing' = writing \ {c}
    /\ UNCHANGED <<rooms, groups, cache, trips, sendClosed, lost, run, joiner, todo>>
    /\ UNCHANGED <<storeVars, phase, connOpen, broadcast, viewVars, stop>>

\* WritePump returns and its deferred function closes the connection.
WritePumpReturns(c) ==
    /\ writing' = writing \ {c}
    /\ ConnCloses(c)
    /\ UNCHANGED <<rooms, groups, cache, trips, sendClosed, lost, run, joiner, todo>>
    /\ UNCHANGED <<storeVars, phase, broadcast, viewVars, stop>>

\* The write of an envelope to a closed connection fails; the envelope is
\* gone. (A write that misses writeWait is a PeerCloses and then this.)
WriteFails(c) ==
    /\ Alive
    /\ c \in writing
    /\ c \notin connOpen
    /\ sendBuf[c] # <<>>
    /\ sendBuf' = [sendBuf EXCEPT ![c] = Tail(@)]
    /\ WritePumpReturns(c)

\* So does the write of a ping. (Were an envelope waiting, that ping would
\* leave it in a channel nobody drains, which nobody can tell from WriteFails.)
PingFails(c) ==
    /\ Alive
    /\ c \in writing
    /\ c \notin connOpen
    /\ sendBuf[c] = <<>>
    /\ UNCHANGED sendBuf
    /\ WritePumpReturns(c)

\* Send is closed and drained: the close frame is written.
WriteCloses(c) ==
    /\ Alive
    /\ c \in writing
    /\ c \in sendClosed
    /\ sendBuf[c] = <<>>
    /\ UNCHANGED sendBuf
    /\ WritePumpReturns(c)

-----------------------------------------------------------------------------
(* Run: one turn of the select loop.                                       *)

\* case client := <-h.Register. ServeWs then starts both pumps.
HubRegisters(c) ==
    /\ run = "select"
    /\ phase[c] = "dialing"
    /\ phase' = [phase EXCEPT ![c] = "running"]
    /\ writing' = writing \cup {c}
    /\ RejectJoiner(c) \/ AdmitJoiner(c)
    /\ UNCHANGED <<connOpen, broadcast, viewVars, stop>>

HubReplays ==
    /\ \/ \E u \in Users : ReplayLocation(u)
       \/ ReplayOverflows
       \/ ReplayTrip
    /\ UNCHANGED <<connVars, broadcast, viewVars, stop>>

\* case client := <-h.Unregister. ReadPump closes the connection and ends.
HubUnregisters(c) ==
    /\ run = "select"
    /\ phase[c] = "leaving"
    /\ phase' = [phase EXCEPT ![c] = "done"]
    /\ ConnCloses(c)
    /\ \E ok \in StoreOutcomes : HandleUnregister(c, ok)
    /\ UNCHANGED <<writing, broadcast, viewVars, stop>>

\* generateID never returns an identity that the hub, the store, a connected
\* browser or an envelope on its way to one still holds.
TripsOf(envelopes) == {e.trip : e \in {x \in envelopes : x.type # "location"}}

FreshTripId ==
    LET shown == {trips[g] : g \in Groups} \cup {tripView[c] : c \in connOpen}
                    \cup UNION {TripsOf(ToSet(sendBuf[c])) : c \in writing}
    IN {id \in TripIds : /\ tripRows[id] = None
                         /\ \A t \in shown \ {None} : t.id # id}

\* case message := <-h.Broadcast; the switch of handleBroadcast.
HandleBroadcast(m, ok) ==
    \/ m.type = "location" /\ HandleLocation(m.sender, m.pos)
    \/ m.type = "trip_create" /\ \E id \in FreshTripId : HandleTripCreate(m.sender, id, ok)
    \/ m.type = "trip_join" /\ HandleTripJoin(m.sender, ok)
    \/ m.type = "trip_leave" /\ HandleTripLeave(m.sender, ok)
    \/ m.type = "trip_start" /\ HandleTripStart(m.sender)
    \/ m.type = "trip_end" /\ HandleTripEnd(m.sender)
    \/ m.type = "other" /\ UNCHANGED <<hubVars, storeVars>>

HubBroadcasts ==
    /\ run = "select"
    /\ broadcast # <<>>
    /\ broadcast' = Tail(broadcast)
    /\ \E ok \in StoreOutcomes : HandleBroadcast(Head(broadcast), ok)
    /\ UNCHANGED <<connVars, viewVars, stop>>

\* case <-h.Quit, chosen like any other ready case; every member is then
\* unregistered, and Run returns.
HubQuits ==
    /\ run = "select"
    /\ stop # "up"
    /\ run' = "stopping"
    /\ UNCHANGED <<rooms, groups, cache, trips, sendBuf, sendClosed, lost, joiner, todo>>
    /\ UNCHANGED <<storeVars, connVars, broadcast, viewVars, stop>>

HubDrops(c) ==
    /\ run = "stopping"
    /\ \E ok \in StoreOutcomes : UnregisterMember(c, ok)
    /\ UNCHANGED <<connVars, broadcast, viewVars, stop>>

\* (mutant of HubReturns: break, which leaves the select, for return)
HubReturnsToSelect ==
    /\ run = "stopping"
    /\ \A g \in Groups : groups[g] = {}
    /\ run' = "select"
    /\ UNCHANGED <<rooms, groups, cache, trips, sendBuf, sendClosed, lost, joiner, todo>>
    /\ UNCHANGED <<storeVars, connVars, broadcast, viewVars, stop>>

HubReturns ==
    /\ run = "stopping"
    /\ \A g \in Groups : groups[g] = {}
    /\ run' = "returned"
    /\ UNCHANGED <<rooms, groups, cache, trips, sendBuf, sendClosed, lost, joiner, todo>>
    /\ UNCHANGED <<storeVars, connVars, broadcast, viewVars, stop>>

-----------------------------------------------------------------------------
(* Hub.Stop, on the goroutine main starts for SIGTERM, and the store.      *)

StopBegins ==
    /\ Alive
    /\ MayStop
    /\ stop = "up"
    /\ stop' = "quitting"
    /\ UNCHANGED <<hubVars, storeVars, connVars, broadcast, viewVars>>

StopClosesPersist ==
    /\ Alive
    /\ HasStore
    /\ stop = "quitting"
    /\ ClosePersistCh
    /\ stop' = "draining"
    /\ UNCHANGED <<hubVars, connVars, broadcast, viewVars>>

\* (mutant of StopReturns: it waits for the channel, not for the workers)
StopReturnsEarly ==
    /\ Alive
    /\ IF HasStore THEN stop = "draining" /\ persistCh = <<>>
                   ELSE stop = "quitting"
    /\ stop' = "returned"
    /\ UNCHANGED <<hubVars, storeVars, connVars, broadcast, viewVars>>

StopReturns ==
    /\ Alive
    /\ IF HasStore THEN stop = "draining" /\ PersistDone
                   ELSE stop = "quitting"
    /\ stop' = "returned"
    /\ UNCHANGED <<hubVars, storeVars, connVars, broadcast, viewVars>>

\* main returns after Stop and srv.Shutdown, neither of which waits for Run:
\* the process is gone, wherever the hub stands, and its connections with it.
ProcessExits ==
    /\ Alive
    /\ stop = "returned"
    /\ run' = "exited"
    /\ joiner' = None
    /\ todo' = {}
    /\ connOpen' = {}
    /\ UNCHANGED <<rooms, groups, cache, trips, sendBuf, sendClosed, lost>>
    /\ UNCHANGED <<storeVars, phase, writing, broadcast, viewVars, stop>>

Persists(w) ==
    /\ Alive
    /\ WorkerStep(w)
    /\ UNCHANGED <<hubVars, connVars, broadcast, viewVars, stop>>

Prunes ==
    /\ Alive
    /\ \E old \in SUBSET locationRows : PruneLocations(old)
    /\ UNCHANGED <<hubVars, connVars, broadcast, viewVars, stop>>

-----------------------------------------------------------------------------
ClientNext(c) ==
    \/ Connect(c)
    \/ PeerCloses(c)
    \/ Recycle(c)
    \/ \E m \in Message : ReadForwards(c, m)
    \/ ReadFails(c)
    \/ WriteDelivers(c)
    \/ WriteFails(c)
    \/ PingFails(c)
    \/ WriteCloses(c)
    \/ HubRegisters(c)
    \/ HubUnregisters(c)
    \/ HubDrops(c)

Next ==
    \/ \E c \in Clients : ClientNext(c)
    \/ HubReplays
    \/ HubBroadcasts
    \/ HubQuits
    \/ HubReturns
    \/ StopBegins
    \/ StopClosesPersist
    \/ StopReturns
    \/ ProcessExits
    \/ \E w \in Workers : Persists(w)
    \/ Prunes

Spec == Init /\ [][Next]_vars

\* select picks uniformly among the ready cases, so a case that is ready again
\* and again is taken. A goroutine that can go on does; a write or a ping to a
\* closed connection fails; a store call returns. Nobody has to dial, speak,
\* hang up or stop the server, and the process need not exit.
Fairness ==
    /\ \A c \in Clients :
        /\ SF_vars(HubRegisters(c))
        /\ SF_vars(HubUnregisters(c))
        /\ WF_vars(HubDrops(c))
        /\ WF_vars(ReadFails(c) /\ c \notin connOpen)
        /\ WF_vars(WriteDelivers(c))
        /\ WF_vars(WriteFails(c) \/ PingFails(c))
        /\ WF_vars(WriteCloses(c))
    /\ WF_vars(HubReplays)
    /\ SF_vars(HubBroadcasts)
    /\ SF_vars(HubQuits)
    /\ WF_vars(HubReturns)
    /\ WF_vars(StopClosesPersist)
    /\ WF_vars(StopReturns)
    /\ \A w \in Workers : WF_vars(Persists(w))

FairSpec == Spec /\ Fairness

-----------------------------------------------------------------------------
(* Safety                                                                  *)

IsMember(c) == c \in groups[GroupOf[c]]

\* Once the hub has heard of a client, its Send is open exactly while it is a
\* member: CloseSend is called wherever a client leaves or is turned away, and
\* a member's Send is never closed under it (which would panic the hub).
MemberIffOpen ==
    \A c \in Clients :
        IF phase[c] \in {"idle", "dialing"}
        THEN ~IsMember(c) /\ c \notin sendClosed
        ELSE IsMember(c) <=> c \notin sendClosed

\* A client whose ReadPump has returned is no member and its Send is closed,
\* so that its WritePump ends too; no goroutine is left behind.
LeaversAreOut ==
    \A c \in Clients :
        phase[c] = "done" => ~IsMember(c) /\ c \in sendClosed /\ c \notin connOpen

\* Groups are collected as soon as they are empty, and never before: h.groups
\* has a key exactly for the groups with a member, also after a rejected or an
\* overflowing registration.
RoomsNonEmpty == rooms = {g \in Groups : groups[g] # {}}

MembersBelong == \A g \in Groups : \A c \in groups[g] : GroupOf[c] = g

ReplayIsToMember ==
    IF run = "replay"
    THEN /\ joiner \in Clients
         /\ IsMember(joiner)
         /\ todo # {} => Others(joiner) # {}
    ELSE joiner = None /\ todo = {}

ConnsArePlaced ==
    \A c \in Clients :
        /\ c \in connOpen => phase[c] \in {"dialing", "running", "leaving"}
        /\ c \in writing => phase[c] \in {"running", "leaving", "done"}

\* Why the three above hold: a member is filed under its own group; the replay
\* in progress is to a member, and has locations to send only where somebody
\* else is a member already (so that an overflowing joiner cannot leave an
\* empty group behind); connections and pumps belong to clients in the right
\* phase.
MembershipInv ==
    /\ MemberIffOpen
    /\ LeaversAreOut
    /\ RoomsNonEmpty
    /\ MembersBelong
    /\ ReplayIsToMember
    /\ ConnsArePlaced

\* A browser that was dropped no envelope, once it has applied what its Send
\* still holds, shows exactly the other users whose position the hub has
\* cached: replay, locations and Offline notices never leave it stale.
PeersAgree ==
    \A c \in writing \cap connOpen :
        IsMember(c) /\ c \notin lost /\ joiner # c =>
            LET shown == FoldLeft(LAMBDA s, m : ShowPeer(UserOf[c], s, m),
                                  peers[c], sendBuf[c])
            IN \A u \in Users \ {UserOf[c]} : shown[u] = cache[GroupOf[c]][u]

\* The same for the trip: what the browser patches together from trip_create,
\* trip_join, trip_leave, trip_start and trip_end is the hub's trip.
TripViewsAgree ==
    \A c \in writing \cap connOpen :
        IsMember(c) /\ c \notin lost /\ joiner # c =>
            FoldLeft(ShowTrip, tripView[c], sendBuf[c]) = trips[GroupOf[c]]

\* The users with a client in a group.
UsersOf(g) == {UserOf[c] : c \in {x \in Clients : GroupOf[x] = g}}

\* Positions, and a trip, of such users only.
LocalPositions(g, shown) == \A u \in Users : shown[u] # None => u \in UsersOf(g)

LocalTrip(g, trip) ==
    trip # None =>
        /\ trip.creator \in UsersOf(g)
        /\ \A u \in Users : trip.riders[u] # 0 => u \in UsersOf(g)

\* Rooms are private: whatever is dropped, replayed, overtaken or recycled, a
\* browser shows positions, creator and riders of users of its own group only.
GroupsStayApart ==
    \A c \in Clients :
        LocalPositions(GroupOf[c], peers[c]) /\ LocalTrip(GroupOf[c], tripView[c])

\* The row of a trip the hub still has lists the hub's participants, unless
\* its last UPDATE failed.
TripRowsAgree ==
    \A g \in Groups :
        trips[g] # None =>
            LET id == trips[g].id IN
            tripRows[id] = None \/ id \in missedUpdates
                \/ tripRows[id] = trips[g].riders

\* A worker that gets to INSERT a location has made the user's row first: the
\* foreign key on locations never refuses it.
InsertsHaveUserRow ==
    \A w \in Workers :
        worker[w].stage = "insert" => userRows[worker[w].loc.user] # None

\* When Stop has returned nothing is left in persistCh or in a worker's hands.
StopDrains ==
    stop = "returned" /\ HasStore => persistCh = <<>> /\ PersistDone

-----------------------------------------------------------------------------
(* What a step may never do                                                *)

\* The hub never sends on a Send channel that is closed (Go panics).
NoSendAfterClose ==
    [][\A c \in Clients :
          Len(sendBuf'[c]) > Len(sendBuf[c]) => c \notin sendClosed]_vars

-----------------------------------------------------------------------------
(* Membership, as an implementation of Rooms                               *)

\* A client is outside until the hub receives it, then inside or gone.
Membership ==
    [c \in Clients |-> IF phase[c] \in {"idle", "dialing"} THEN "out"
                      ELSE IF IsMember(c) THEN "in" ELSE "gone"]

AbstractRooms == INSTANCE Rooms WITH status <- Membership

\* Every step of the server lets a client in, turns it away, lets it go or
\* forgets it as Rooms allows, or leaves membership alone.
ImplementsRooms == AbstractRooms!Spec

-----------------------------------------------------------------------------
(* Liveness, under Fairness                                                *)

\* A browser that dialled is admitted or turned away, unless the hub stops.
DialsAreAnswered ==
    \A c \in Clients :
        phase[c] = "dialing" ~> phase[c] # "dialing" \/ run = "returned" \/ ~Alive

\* A connection that is gone leaves its group and both its pumps end.
DeadConnectionsLeave ==
    \A c \in Clients :
        phase[c] = "running" /\ c \notin connOpen ~>
            \/ ~IsMember(c) /\ c \notin writing
            \/ ~Alive

\* A client whose Send is closed is hung up on.
ClosedClientsAreHungUp ==
    \A c \in Clients :
        c \in sendClosed ~> c \notin connOpen \/ ~Alive

\* After SIGTERM Run returns, unless the process ends first.
QuitEndsRun == stop # "up" ~> run = "returned" \/ ~Alive

\* After SIGTERM Stop returns, unless a panic ends the process first.
StopReturnsEventually == stop # "up" ~> stop = "returned" \/ run = "panicked"

-----------------------------------------------------------------------------
(* What comments and documents say of the program                          *)

\* "Persist to DB": a trip the hub has is in the table, when no call fails.
LiveTripsHaveRow ==
    HasStore => \A g \in Groups : trips[g] # None => tripRows[trips[g].id] # None
=============================================================================
