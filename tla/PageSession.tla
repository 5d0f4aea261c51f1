----------------------------- MODULE PageSession -----------------------------
(***************************************************************************)
(* One browser page across screens, rooms and connections: the screens of  *)
(* App.tsx, the WebSocket effect of MapScreen with its retry timer, the    *)
(* trip fetched over REST when a socket opens, and what the envelopes make *)
(* of the store. The hub is modelled as far as the page sees it.           *)
(*                                                                         *)
(* A socket is named by a member of Sockets. Of a trip only its identity,  *)
(* its room and whether this user created it are kept; its riders and its  *)
(* status are patches of a trip that is shown (see module Server).         *)
(***************************************************************************)
EXTENDS Naturals, Sequences, FiniteSets

CONSTANTS
    Rooms,      \* group identities a user types into the picker
    BusyRooms,  \* rooms in which other users are about
    Peers,      \* the other users
    TripIds,    \* identities of trips
    Sockets,    \* WebSocket objects of the page
    Fetches,    \* GET /api/trip requests of the page
    None,
    MaxLogins,  \* bound: logins waited for at a time
    QueueCap    \* bound: messages under way on a socket, each way

ASSUME SessionAssumption ==
    /\ BusyRooms \subseteq Rooms
    /\ None \notin Rooms \cup TripIds \cup Sockets
    /\ "trip" \notin Peers
    /\ MaxLogins \in Nat /\ QueueCap \in Nat

VARIABLES
    screen,     \* store: the screen asked for
    shown,      \* the screen that is mounted
    room,       \* store: groupId
    logins,     \* logins that have not been answered
    sock,       \* the sockets: readyState, room
    active,     \* activeSocketRef.current
    storeWs,    \* store: ws, and ws.current
    timer,      \* reconnectTimer is armed
    fetch,      \* requests of fetchActiveTrip, and whom they answer
    peers,      \* store: peers, with the room each was heard of in
    trip,       \* store: trip
    \* The hub, and the network in between.
    hubTrip,    \* h.trips
    member,     \* which sockets are in h.groups
    met,        \* which sockets Run has taken from Register, or never will
    inbox, outbox,
    \* History: guards nothing.
    strays,     \* what was received after Leave, while the screen went away
    excused     \* why the page may show another trip than the hub has, if only
                \* that no socket has opened since the last was closed

pageVars == <<screen, shown, room, logins>>
netVars == <<sock, active, storeWs, timer>>
storeVars == <<peers, trip>>
hubVars == <<hubTrip, member, met, inbox, outbox>>
history == <<strays, excused>>
vars == <<pageVars, netVars, fetch, storeVars, hubVars, history>>

Screens == {"login", "picker", "map"}
Trip == [id : TripIds, home : Rooms, mine : BOOLEAN]
Socket == [at : {"free", "connecting", "open", "closing", "closed"}, room : Rooms \cup {None}]
Fetch == [at : {"idle", "asked", "answered"}, room : Rooms \cup {None},
          alive : BOOLEAN, trip : Trip \cup {None}]
Envelope == [kind : {"here", "gone"}, peer : Peers]
            \cup [kind : {"trip_create"}, trip : Trip] \cup [kind : {"trip_end"}]
Request == [kind : {"trip_create"}] \cup [kind : {"trip_end"}]

FreeSocket == [at |-> "free", room |-> None]
IdleFetch == [at |-> "idle", room |-> None, alive |-> FALSE, trip |-> None]
NoPeers == [p \in Peers |-> None]

Init ==
    /\ screen = "login" /\ shown = "login" /\ logins = 0
    /\ room \in Rooms
    /\ sock = [s \in Sockets |-> FreeSocket]
    /\ active = None /\ storeWs = None /\ timer = FALSE
    /\ fetch = [f \in Fetches |-> IdleFetch]
    /\ peers = NoPeers /\ trip = None
    /\ hubTrip = [g \in Rooms |-> None]
    /\ member = [s \in Sockets |-> FALSE] /\ met = {}
    /\ inbox = [s \in Sockets |-> <<>>] /\ outbox = [s \in Sockets |-> <<>>]
    /\ strays = {} /\ excused = TRUE

-----------------------------------------------------------------------------
(* Helpers of the page. *)

Live(s) == s # None /\ sock[s].at \in {"connecting", "open"}
Mounted == shown = "map"
Leaving == Mounted /\ screen # "map"

\* Identities in use anywhere; a fresh one is none of them.
UsedIds ==
    {t.id : t \in ({trip} \cup {hubTrip[g] : g \in Rooms} \cup {fetch[f].trip : f \in Fetches}) \ {None}}
    \cup {m.trip.id : m \in {n \in UNION {{inbox[s][i] : i \in DOMAIN inbox[s]} : s \in Sockets}
                              : n.kind = "trip_create"}}

\* connect(): nothing while the active socket is alive.
Connect(g) ==
    IF Live(active)
    THEN UNCHANGED <<sock, active, storeWs>>
    ELSE \E s \in Sockets :
            /\ sock[s] = FreeSocket
            /\ sock' = [sock EXCEPT ![s] = [at |-> "connecting", room |-> g]]
            /\ active' = s
            /\ storeWs' = s

\* sendWsMessage: dropped unless the store's socket is open.
Sent(m) ==
    IF storeWs # None /\ sock[storeWs].at = "open"
    THEN /\ Len(outbox[storeWs]) < QueueCap
         /\ outbox' = [outbox EXCEPT ![storeWs] = Append(@, m)]
    ELSE UNCHANGED outbox

\* setTrip with a trip of the room, or null, that just arrived.
SetTrip(t) ==
    /\ trip' = t
    /\ strays' = IF t # None /\ Leaving THEN strays \cup {"trip"} ELSE strays \ {"trip"}

-----------------------------------------------------------------------------
(* Screens. *)

\* LoginScreen: every button leads to the picker.
Continue ==
    /\ shown = "login"
    /\ screen' = "picker"
    /\ UNCHANGED <<shown, room, logins, netVars, fetch, storeVars, hubVars, history>>

ChooseRoom(g) ==
    /\ shown = "picker"
    /\ room' = g
    /\ UNCHANGED <<screen, shown, logins, netVars, fetch, storeVars, hubVars, history>>

\* "Start sharing": the button stays enabled while a login is waited for.
StartLogin ==
    /\ shown = "picker"
    /\ logins < MaxLogins
    /\ logins' = logins + 1
    /\ UNCHANGED <<screen, shown, room, netVars, fetch, storeVars, hubVars, history>>

\* The answer, however late: on success the map is asked for.
LoginAnswers ==
    /\ logins > 0
    /\ logins' = logins - 1
    /\ screen' \in {screen, "map"}
    /\ UNCHANGED <<shown, room, netVars, fetch, storeVars, hubVars, history>>

\* Mutant: the cleanup does not tell the fetch that its screen is gone.
SwapScreenKeepsFetch ==
    /\ shown # screen
    /\ shown' = screen
    /\ IF Mounted
       THEN /\ timer' = FALSE
            /\ active' = None
            /\ storeWs' = None
            /\ sock' = [s \in Sockets |-> IF s = active /\ Live(s)
                                          THEN [sock[s] EXCEPT !.at = "closed"] ELSE sock[s]]
            /\ inbox' = [s \in Sockets |-> IF s = active THEN <<>> ELSE inbox[s]]
            /\ excused' = TRUE
            /\ UNCHANGED fetch
       ELSE /\ IF screen = "map" THEN Connect(room) ELSE UNCHANGED <<sock, active, storeWs>>
            /\ UNCHANGED <<timer, fetch, inbox, excused>>
    /\ UNCHANGED <<screen, room, logins, storeVars, hubTrip, member, met, outbox, strays>>

\* AnimatePresence mode="wait": the old screen goes before the new one mounts.
\* Unmounting the map runs the cleanup of the WebSocket effect, mounting it connects.
\* What a request was about, or is answered, matters to nobody then.
SwapScreen ==
    /\ shown # screen
    /\ shown' = screen
    /\ IF Mounted
       THEN /\ timer' = FALSE
            /\ active' = None
            /\ storeWs' = None
            /\ sock' = [s \in Sockets |-> IF s = active /\ Live(s)
                                          THEN [sock[s] EXCEPT !.at = "closed"] ELSE sock[s]]
            /\ inbox' = [s \in Sockets |-> IF s = active THEN <<>> ELSE inbox[s]]
            /\ fetch' = [f \in Fetches |-> [fetch[f] EXCEPT !.alive = FALSE,
                                                          !.room = None, !.trip = None]]
            /\ excused' = TRUE
       ELSE /\ IF screen = "map" THEN Connect(room) ELSE UNCHANGED <<sock, active, storeWs>>
            /\ UNCHANGED <<timer, fetch, inbox, excused>>
    /\ UNCHANGED <<screen, room, logins, storeVars, hubTrip, member, met, outbox, strays>>

\* Leave: clearLiveData and the picker; the map goes on until it is swapped.
Leave ==
    /\ Mounted
    /\ screen' = "picker"
    /\ peers' = NoPeers
    /\ trip' = None
    /\ strays' = {}
    /\ excused' = TRUE
    /\ UNCHANGED <<shown, room, logins, netVars, fetch, hubVars>>

-----------------------------------------------------------------------------
(* The socket. *)

\* onopen: the trip of the room is fetched.
OnOpen(s) ==
    /\ sock[s].at = "connecting"
    /\ sock' = [sock EXCEPT ![s].at = "open"]
    /\ IF Mounted /\ active = s
       THEN /\ \E f \in Fetches :
                  /\ fetch[f].at = "idle"
                  /\ fetch' = [fetch EXCEPT ![f] = [at |-> "asked", room |-> room,
                                                    alive |-> TRUE, trip |-> None]]
            /\ excused' = FALSE
       ELSE UNCHANGED <<fetch, excused>>
    /\ UNCHANGED <<pageVars, active, storeWs, timer, storeVars, hubVars, strays>>

\* The network, the server or its end closes a socket the page still uses.
SocketFails(s) ==
    /\ Live(s)
    /\ sock' = [sock EXCEPT ![s].at = "closing"]
    /\ UNCHANGED <<pageVars, active, storeWs, timer, fetch, storeVars, hubVars, history>>

\* Mutant: the event is not compared with the active socket.
OnCloseOfAny(s) ==
    /\ sock[s].at = "closing"
    /\ sock' = [sock EXCEPT ![s].at = "closed"]
    /\ inbox' = [inbox EXCEPT ![s] = <<>>]
    /\ active' = IF active = s THEN None ELSE active
    /\ timer' = TRUE /\ excused' = TRUE
    /\ UNCHANGED <<pageVars, storeWs, fetch, storeVars, hubTrip, member, met, outbox, strays>>

\* onclose: ignored by all but the active socket of a mounted screen.
OnClose(s) ==
    /\ sock[s].at = "closing"
    /\ sock' = [sock EXCEPT ![s].at = "closed"]
    /\ inbox' = [inbox EXCEPT ![s] = <<>>]
    /\ IF Mounted /\ active = s
       THEN active' = None /\ timer' = TRUE /\ excused' = TRUE
       ELSE UNCHANGED <<active, timer, excused>>
    /\ UNCHANGED <<pageVars, storeWs, fetch, storeVars, hubTrip, member, met, outbox, strays>>

\* Mutant: the retry looks at the store's socket, which nobody has reset.
RetryUnlessHeld ==
    /\ timer
    /\ timer' = FALSE
    /\ IF Mounted /\ storeWs = None THEN Connect(room) ELSE UNCHANGED <<sock, active, storeWs>>
    /\ UNCHANGED <<pageVars, fetch, storeVars, hubVars, history>>

\* The retry timer fires.
Retry ==
    /\ timer
    /\ timer' = FALSE
    /\ IF Mounted THEN Connect(room) ELSE UNCHANGED <<sock, active, storeWs>>
    /\ UNCHANGED <<pageVars, fetch, storeVars, hubVars, history>>

\* onmessage: location and trip envelopes. A position came from the room g of
\* the socket it came on.
HearOf(p, g) ==
    /\ peers' = [peers EXCEPT ![p] = g]
    /\ strays' = IF Leaving THEN strays \cup {p} ELSE strays \ {p}
    /\ UNCHANGED <<trip, excused>>

RemovePeer(p) ==
    /\ peers' = [peers EXCEPT ![p] = None]
    /\ strays' = strays \ {p}
    /\ UNCHANGED <<trip, excused>>

\* Mutant: the trip that is shown stays, as it does for a fetched one.
TripEnvelopeIfNone(t) ==
    /\ IF t # None /\ trip # None THEN UNCHANGED <<trip, strays>> ELSE SetTrip(t)
    /\ excused' = FALSE
    /\ UNCHANGED peers

TripEnvelope(t) ==
    /\ SetTrip(t)
    /\ excused' = FALSE
    /\ UNCHANGED peers

OnMessage(s) ==
    /\ sock[s].at \in {"open", "closing"}
    /\ inbox[s] # <<>>
    /\ inbox' = [inbox EXCEPT ![s] = Tail(@)]
    /\ LET m == Head(inbox[s]) IN
       IF Mounted /\ active = s
       THEN CASE m.kind = "here" -> HearOf(m.peer, sock[s].room)
              [] m.kind = "gone" -> RemovePeer(m.peer)
              [] m.kind = "trip_create" -> TripEnvelope(m.trip)
              [] m.kind = "trip_end" -> TripEnvelope(None)
       ELSE UNCHANGED <<storeVars, history>>
    /\ UNCHANGED <<pageVars, netVars, fetch, hubTrip, member, met, outbox>>

-----------------------------------------------------------------------------
(* fetchActiveTrip. *)

\* The hub reads the trip; any other status than 200 is null to the page.
\* A request whose screen is gone has no room, and no trip in its answer.
FetchAnswered(f) ==
    /\ fetch[f].at = "asked"
    /\ \E t \in {hubTrip[g] : g \in {fetch[f].room} \ {None}} \cup {None} :
          fetch' = [fetch EXCEPT ![f].at = "answered", ![f].trip = t]
    /\ UNCHANGED <<pageVars, netVars, storeVars, hubVars, history>>

\* The request fails: catch(() => {}).
FetchFails(f) ==
    /\ fetch[f].at = "asked"
    /\ fetch' = [fetch EXCEPT ![f] = IdleFetch]
    /\ excused' = (excused \/ fetch[f].alive)
    /\ UNCHANGED <<pageVars, netVars, storeVars, hubVars, strays>>

\* The answer is not what the hub has, or was given before it knew the page.
Outdated(t) == t # hubTrip[room] \/ ~\E s \in Sockets : s = active /\ member[s]

\* The answer reaches the page. A trip that is shown stays; with none on the
\* server it is created there again, under a new identity.
FetchApplies(f) ==
    /\ fetch[f].at = "answered"
    /\ fetch' = [fetch EXCEPT ![f] = IdleFetch]
    /\ LET t == fetch[f].trip IN
       CASE ~fetch[f].alive \/ (t = None /\ trip = None) ->
              UNCHANGED <<trip, outbox, history>>
         [] fetch[f].alive /\ t # None /\ trip = None ->
              /\ SetTrip(t)
              /\ excused' = (excused \/ Outdated(t))
              /\ UNCHANGED outbox
         [] fetch[f].alive /\ t # None /\ trip # None ->
              /\ excused' = (excused \/ Outdated(t))
              /\ UNCHANGED <<trip, strays, outbox>>
         [] fetch[f].alive /\ t = None /\ trip # None ->
              /\ Sent([kind |-> "trip_create"])
              /\ UNCHANGED <<trip, history>>
    /\ UNCHANGED <<pageVars, netVars, peers, hubTrip, member, met, inbox>>

-----------------------------------------------------------------------------
(* Buttons about the trip. *)

\* handleStartNavigation: shown at once, under an identity of its own.
StartNavigation ==
    /\ Mounted /\ trip = None
    /\ \E t \in TripIds \ UsedIds :
          SetTrip([id |-> t, home |-> room, mine |-> TRUE])
    /\ Sent([kind |-> "trip_create"])
    /\ UNCHANGED <<pageVars, netVars, fetch, peers, hubTrip, member, met, inbox, excused>>

\* TripPanel: the creator ends the trip on the server, ...
EndTrip ==
    /\ Mounted /\ trip # None
    /\ trip.mine
    /\ Sent([kind |-> "trip_end"])
    /\ UNCHANGED <<pageVars, netVars, fetch, storeVars, hubTrip, member, met, inbox, history>>

\* ... and anybody closes the panel, in this page alone.
ClosePanel ==
    /\ Mounted /\ trip # None
    /\ SetTrip(None)
    /\ excused' = TRUE
    /\ UNCHANGED <<pageVars, netVars, fetch, peers, hubVars>>

-----------------------------------------------------------------------------
(* The hub as this page sees it. *)

\* Mutant: everybody, whatever the group.
MembersAnywhere(g) == {s \in Sockets : member[s] /\ Live(s)}

\* The sockets of the page in group g that still get what is sent to them.
Members(g) == {s \in Sockets : member[s] /\ Live(s) /\ sock[s].room = g}

\* Broadcast to the sockets of the page in group g. A message waits for room
\* in a queue (QueueCap): that a full one drops is the subject of Server.
Broadcast(g, m, in) ==
    /\ \A s \in Members(g) : Len(in[s]) < QueueCap
    /\ inbox' = [s \in Sockets |-> IF s \in Members(g) THEN Append(in[s], m) ELSE in[s]]

\* Register: the newcomer is sent positions and the trip of its group, which
\* are lost when its connection is gone already.
HubAdmits(s) ==
    /\ sock[s].at # "free" /\ s \notin met
    /\ met' = met \cup {s}
    /\ member' = [member EXCEPT ![s] = TRUE]
    /\ inbox' = IF Live(s)
                THEN [inbox EXCEPT ![s] =
                        IF hubTrip[sock[s].room] = None THEN <<>>
                        ELSE <<[kind |-> "trip_create", trip |-> hubTrip[sock[s].room]]>>]
                ELSE inbox
    /\ UNCHANGED <<pageVars, netVars, fetch, storeVars, hubTrip, outbox, history>>

\* The page's sockets that are in group g, dead ones included.
InGroup(g) == {s \in Sockets : member[s] /\ sock[s].room = g}

\* Unregister, before the page knows or after: a group that this leaves empty
\* goes with its trip. In a busy room others may keep it. What the page sent
\* and ReadPump had not read is lost.
HubUnregisters(s) ==
    LET g == sock[s].room IN
    /\ member[s] /\ sock[s].at \in {"closing", "closed"}
    /\ member' = [member EXCEPT ![s] = FALSE]
    /\ \/ InGroup(g) = {s} /\ hubTrip' = [hubTrip EXCEPT ![g] = None]
       \/ (InGroup(g) # {s} \/ g \in BusyRooms) /\ UNCHANGED hubTrip
    /\ \E read \in 0 .. Len(outbox[s]) :
          outbox' = [outbox EXCEPT ![s] = SubSeq(@, 1, read)]
    /\ UNCHANGED <<pageVars, netVars, fetch, storeVars, met, inbox, history>>

\* A message of the page reaches its handler, maybe after its Unregister.
HubReads(s) ==
    /\ s \in met /\ outbox[s] # <<>>
    /\ outbox' = [outbox EXCEPT ![s] = Tail(@)]
    /\ LET g == sock[s].room
           m == Head(outbox[s]) IN
       \/ /\ m.kind = "trip_create"
          /\ \E t \in TripIds \ UsedIds :
                LET new == [id |-> t, home |-> g, mine |-> TRUE] IN
                /\ hubTrip' = [hubTrip EXCEPT ![g] = new]
                /\ Broadcast(g, [kind |-> "trip_create", trip |-> new], inbox)
       \/ /\ m.kind = "trip_end"
          /\ IF hubTrip[g] # None /\ hubTrip[g].mine
             THEN /\ hubTrip' = [hubTrip EXCEPT ![g] = None]
                  /\ Broadcast(g, [kind |-> "trip_end"], inbox)
             ELSE UNCHANGED <<hubTrip, inbox>>
    /\ UNCHANGED <<pageVars, netVars, fetch, storeVars, member, met, history>>

\* Another user creates or ends a trip, moves, or is gone.
OtherCreates(g) ==
    /\ \E t \in TripIds \ UsedIds :
          LET new == [id |-> t, home |-> g, mine |-> FALSE] IN
          /\ hubTrip' = [hubTrip EXCEPT ![g] = new]
          /\ Broadcast(g, [kind |-> "trip_create", trip |-> new], inbox)
    /\ UNCHANGED <<pageVars, netVars, fetch, storeVars, member, met, outbox, history>>

OtherEnds(g) ==
    /\ hubTrip[g] # None
    /\ ~hubTrip[g].mine
    /\ hubTrip' = [hubTrip EXCEPT ![g] = None]
    /\ Broadcast(g, [kind |-> "trip_end"], inbox)
    /\ UNCHANGED <<pageVars, netVars, fetch, storeVars, member, met, outbox, history>>

PeerShows(g, p, kind) ==
    /\ Broadcast(g, [kind |-> kind, peer |-> p], inbox)
    /\ UNCHANGED <<pageVars, netVars, fetch, storeVars, hubTrip, member, met, outbox, history>>

\* The last of the others leaves a room the page is not in.
OthersLeave(g) ==
    /\ InGroup(g) = {}
    /\ hubTrip' = [hubTrip EXCEPT ![g] = None]
    /\ UNCHANGED <<pageVars, netVars, fetch, storeVars, member, met, inbox, outbox, history>>

\* No step of the program: the name of a socket that everybody has let go of
\* stands for a new one.
Recycle(s) ==
    /\ sock[s].at = "closed"
    /\ s \notin {active, storeWs}
    /\ ~member[s] /\ outbox[s] = <<>>
    /\ sock' = [sock EXCEPT ![s] = FreeSocket]
    /\ met' = met \ {s}
    /\ UNCHANGED <<pageVars, active, storeWs, timer, fetch, storeVars, hubTrip, member,
                   inbox, outbox, history>>

\* The server goes down and comes back: it remembers nobody and no trip, and
\* no connection there was will ever be registered.
HubRestarts ==
    /\ hubTrip' = [g \in Rooms |-> None]
    /\ member' = [s \in Sockets |-> FALSE]
    /\ met' = {s \in Sockets : sock[s].at # "free"}
    /\ outbox' = [s \in Sockets |-> <<>>]
    /\ sock' = [s \in Sockets |-> IF Live(s) THEN [sock[s] EXCEPT !.at = "closing"] ELSE sock[s]]
    /\ UNCHANGED <<pageVars, active, storeWs, timer, fetch, storeVars, inbox, history>>

HubNext ==
    \/ \E s \in Sockets : HubAdmits(s) \/ HubReads(s) \/ HubUnregisters(s) \/ Recycle(s)
    \/ \E g \in BusyRooms : OtherCreates(g) \/ OtherEnds(g) \/ OthersLeave(g)
    \/ \E g \in BusyRooms, p \in Peers : PeerShows(g, p, "here") \/ PeerShows(g, p, "gone")
    \/ HubRestarts

SocketNext(s) == OnOpen(s) \/ SocketFails(s) \/ OnClose(s) \/ OnMessage(s)
FetchNext(f) == FetchAnswered(f) \/ FetchFails(f) \/ FetchApplies(f)
UserNext ==
    \/ Continue \/ StartLogin \/ Leave
    \/ \E g \in Rooms : ChooseRoom(g)
    \/ StartNavigation \/ EndTrip \/ ClosePanel

Next ==
    \/ UserNext \/ LoginAnswers \/ SwapScreen \/ Retry
    \/ \E s \in Sockets : SocketNext(s)
    \/ \E f \in Fetches : FetchNext(f)
    \/ HubNext

Spec == Init /\ [][Next]_vars

-----------------------------------------------------------------------------
(* Properties. *)

\* The shape of what the page and the hub keep.
PageShape ==
    /\ screen \in Screens /\ shown \in Screens
    /\ room \in Rooms /\ logins \in 0 .. MaxLogins
    /\ sock \in [Sockets -> Socket]
    /\ active \in Sockets \cup {None} /\ storeWs \in Sockets \cup {None}
    /\ timer \in BOOLEAN
    /\ fetch \in [Fetches -> Fetch]
    /\ peers \in [Peers -> Rooms \cup {None}]
    /\ trip \in Trip \cup {None}
    /\ hubTrip \in [Rooms -> Trip \cup {None}]
    /\ member \in [Sockets -> BOOLEAN] /\ met \subseteq Sockets
    /\ inbox \in [Sockets -> Seq(Envelope)]
    /\ outbox \in [Sockets -> Seq(Request)]
    /\ strays \subseteq Peers \cup {"trip"}
    /\ excused \in BOOLEAN

\* What is kept has its shape, the hub keeps a trip under the trip's own room,
\* and a trip under way on a socket is of the socket's room.
TypeOK ==
    /\ PageShape
    /\ \A g \in Rooms : hubTrip[g] # None => hubTrip[g].home = g
    /\ \A s \in Sockets : \A i \in DOMAIN inbox[s] :
          inbox[s][i].kind = "trip_create" => inbox[s][i].trip.home = sock[s].room

\* However screens change, sockets fail and timers fire, the page has at most
\* one connection: what is alive is the active socket, and the socket of the
\* store; the timer is armed only on a mounted map without one; nothing of
\* it outlives the screen (App.tsx 861-872, 990-1011).
SingleConnection ==
    /\ \A s \in Sockets : Live(s) => s = active
    /\ Live(active) => storeWs = active /\ sock[active].room = room
    /\ timer => Mounted /\ active = None
    /\ ~Mounted => active = None /\ storeWs = None

\* A mounted map is connected, or a close event or the timer is still to come
\* that will connect it again (App.tsx 990-997).
NeverStranded ==
    Mounted => timer \/ (active # None /\ sock[active].at # "closed")

\* Whatever the page shows on the map is of the room it is in, except what
\* came in after Leave, while the map was going away (App.tsx 1147-1157).
OnlyStraysCross ==
    Mounted =>
        /\ \A p \in Peers : peers[p] \in {None, room} \/ p \in strays
        /\ trip # None => trip.home = room \/ "trip" \in strays

\* Nothing is under way between this page and the hub, and the page has not
\* been told anything less than it missed.
AtRest ==
    /\ Mounted /\ screen = "map"
    /\ Live(active) /\ sock[active].at = "open" /\ member[active]
    /\ inbox[active] = <<>> /\ outbox[active] = <<>>
    /\ \A f \in Fetches : ~fetch[f].alive
    /\ ~excused

\* At rest the page shows the trip of the hub, through replacements, ends,
\* lost connections, restarts of the server and a fetch that answers between
\* envelopes (App.tsx 874-988). Excused are a panel closed by hand, a fetch
\* that failed, and a fetch whose trip has ended since, or may end before the
\* hub knows the page: the page shows that one, or thinks its own is alive.
AgreesAtRest == AtRest => trip = hubTrip[room]

=============================================================================
