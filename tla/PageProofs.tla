----------------------------- MODULE PageProofs -----------------------------
(***************************************************************************)
(* What holds of a browser page across screens, rooms and connections for  *)
(* any number of rooms, users, sockets and requests: the page has one      *)
(* connection at most, a mounted map is connected or about to be, and what *)
(* it shows is of its room, which rests on whose trips travel on which     *)
(* socket and which request (WireInv, FetchHomes). At rest it shows the    *)
(* trip that the hub has, by where the queues under way lead (TripInv).    *)
(***************************************************************************)
EXTENDS PageSession, TLAPS

\* A socket that is in use is about a room (connect reads groupId).
Addressed == \A s \in Sockets : sock[s].at # "free" => sock[s].room \in Rooms

\* The hub knows only sockets it has met, which are in use; one that it has met
\* and does not know is dead.
MembersAreSockets == \A s \in Sockets :
    /\ member[s] => s \in met
    /\ s \in met => sock[s].at # "free"
    /\ s \in met /\ Live(s) => member[s]

\* connect() leaves every socket alone but a free one.
LEMMA ConnectTakesFree ==
    ASSUME PageShape, Connect(room)
    PROVE  \A s \in Sockets : sock'[s] = sock[s] \/ sock[s] = FreeSocket
<1>1. sock \in [Sockets -> Socket]
  BY DEF PageShape
<1>2. CASE Live(active)
  BY <1>2 DEF Connect
<1>3. CASE ~Live(active)
  <2>1. PICK s \in Sockets :
           /\ sock[s] = FreeSocket
           /\ sock' = [sock EXCEPT ![s] = [at |-> "connecting", room |-> room]]
    BY <1>3 DEF Connect
  <2>2. QED
    BY <1>1, <2>1
<1>4. QED
  BY <1>2, <1>3

\* No step makes the hub know a socket it has not met, or lose one that lives.
LEMMA MembersInductive ==
    ASSUME PageShape, MembersAreSockets, Next
    PROVE  MembersAreSockets'
<1> USE SessionAssumption
<1> USE DEF pageVars, netVars, storeVars, hubVars, history, MembersAreSockets
<1>0. /\ sock \in [Sockets -> Socket] /\ member \in [Sockets -> BOOLEAN]
      /\ met \subseteq Sockets
  BY DEF PageShape
<1>1. ASSUME UNCHANGED <<member, met>>,
             \A s \in Sockets :
                \/ s \notin met
                \/ sock'[s].at # "free" /\ (sock'[s].at \in {"connecting", "open"} => Live(s))
      PROVE  MembersAreSockets'
  BY <1>1, <1>0 DEF Live
<1>2. ASSUME UNCHANGED <<member, met, sock>> PROVE MembersAreSockets'
  BY <1>2 DEF Live
<1>3. CASE UserNext \/ LoginAnswers
  BY <1>2, <1>3 DEF UserNext, Continue, ChooseRoom, StartLogin, LoginAnswers, Leave, StartNavigation,
                    EndTrip, ClosePanel
<1>4. ASSUME Connect(room), UNCHANGED <<member, met>> PROVE MembersAreSockets'
  <2>1. \A s \in Sockets : s \in met => sock'[s] = sock[s] /\ sock[s].at # "free"
    BY <1>4, ConnectTakesFree DEF FreeSocket
  <2>2. QED
    BY <1>0, <1>1, <1>4, <2>1 DEF Live
<1>5. CASE SwapScreen
  <2>1. CASE Mounted
    <3>1. /\ sock' = [s \in Sockets |-> IF s = active /\ Live(s)
                                        THEN [sock[s] EXCEPT !.at = "closed"] ELSE sock[s]]
          /\ UNCHANGED <<member, met>>
      BY <1>5, <2>1 DEF SwapScreen
    <3>2. QED
      BY <1>0, <1>1, <3>1 DEF Socket, Live
  <2>2. CASE ~Mounted
    BY <1>2, <1>4, <1>5, <2>2 DEF SwapScreen
  <2>3. QED
    BY <2>1, <2>2
<1>6. CASE Retry
  BY <1>2, <1>4, <1>6 DEF Retry
<1>7. ASSUME NEW s \in Sockets, SocketNext(s)
      PROVE  MembersAreSockets'
  <2>1. /\ UNCHANGED <<member, met>>
        /\ \/ UNCHANGED sock
           \/ Live(s) /\ sock' = [sock EXCEPT ![s].at = "open"]
           \/ \E a \in {"closing", "closed"} : sock' = [sock EXCEPT ![s].at = a]
    BY <1>7 DEF SocketNext, OnOpen, SocketFails, OnClose, OnMessage, Live
  <2>2. CASE UNCHANGED sock
    BY <1>2, <2>1, <2>2
  <2>3. CASE Live(s) /\ sock' = [sock EXCEPT ![s].at = "open"]
    BY <1>0, <1>1, <2>1, <2>3 DEF Socket, Live
  <2>4. ASSUME NEW a \in {"closing", "closed"}, sock' = [sock EXCEPT ![s].at = a]
        PROVE  MembersAreSockets'
    BY <1>0, <1>1, <2>1, <2>4 DEF Socket, Live
  <2>5. QED
    BY <2>1, <2>2, <2>3, <2>4
<1>8. ASSUME NEW f \in Fetches, FetchNext(f)
      PROVE  MembersAreSockets'
  BY <1>2, <1>8 DEF FetchNext, FetchAnswered, FetchFails, FetchApplies
<1>9. ASSUME NEW s \in Sockets, HubAdmits(s) PROVE MembersAreSockets'
  BY <1>0, <1>9 DEF HubAdmits, Live
<1>10. ASSUME NEW s \in Sockets, HubUnregisters(s) PROVE MembersAreSockets'
  <2>1. /\ member' = [member EXCEPT ![s] = FALSE] /\ ~Live(s)
        /\ UNCHANGED <<sock, met>>
    BY <1>10 DEF HubUnregisters, Live
  <2>2. QED
    BY <1>0, <2>1 DEF Live
<1>11. ASSUME NEW s \in Sockets, Recycle(s) PROVE MembersAreSockets'
  <2>1. /\ sock' = [sock EXCEPT ![s] = FreeSocket] /\ ~member[s]
        /\ met' = met \ {s} /\ UNCHANGED member
    BY <1>11 DEF Recycle
  <2>2. QED
    BY <1>0, <2>1 DEF Live, FreeSocket
<1>12. CASE HubRestarts
  <2>1. ASSUME NEW s \in Sockets
        PROVE  /\ ~member'[s] /\ (s \in met' => sock[s].at # "free")
               /\ sock'[s].at = IF Live(s) THEN "closing" ELSE sock[s].at
    <3>1. sock[s] \in Socket
      BY <1>0
    <3>2. QED
      BY <1>12, <3>1 DEF HubRestarts, Socket
  <2>2. QED
    BY <2>1 DEF Live
<1>13. ASSUME NEW g \in BusyRooms, OtherCreates(g) \/ OtherEnds(g) \/ OthersLeave(g)
       PROVE MembersAreSockets'
  BY <1>2, <1>13 DEF OtherCreates, OtherEnds, OthersLeave
<1>14. ASSUME NEW g \in BusyRooms, NEW p \in Peers, NEW k \in {"here", "gone"}, PeerShows(g, p, k)
       PROVE  MembersAreSockets'
  BY <1>2, <1>14 DEF PeerShows
<1>15. ASSUME NEW s \in Sockets, HubReads(s) PROVE MembersAreSockets'
  BY <1>2, <1>15 DEF HubReads
<1>16. QED
  BY <1>3, <1>5, <1>6, <1>7, <1>8, <1>9, <1>10, <1>11, <1>12, <1>13, <1>14, <1>15 DEF Next, HubNext

\* connect() keeps the shape of the sockets and of the two references to them.
LEMMA ConnectTyped ==
    ASSUME PageShape, Addressed, Connect(room)
    PROVE  /\ sock' \in [Sockets -> Socket]
           /\ active' \in Sockets \cup {None} /\ storeWs' \in Sockets \cup {None}
           /\ \A s \in Sockets : sock'[s].at # "free" => sock'[s].room \in Rooms
<1>1. /\ sock \in [Sockets -> Socket] /\ room \in Rooms
      /\ active \in Sockets \cup {None} /\ storeWs \in Sockets \cup {None}
      /\ \A s \in Sockets : sock[s].at # "free" => sock[s].room \in Rooms
  BY DEF PageShape, Addressed
<1>2. CASE Live(active)
  BY <1>1, <1>2 DEF Connect
<1>3. CASE ~Live(active)
  <2>1. PICK s \in Sockets :
           /\ sock' = [sock EXCEPT ![s] = [at |-> "connecting", room |-> room]]
           /\ active' = s /\ storeWs' = s
    BY <1>3 DEF Connect
  <2>2. QED
    BY <1>1, <2>1 DEF Socket
<1>4. QED
  BY <1>2, <1>3

\* A broadcast puts envelopes into inboxes.
LEMMA BroadcastTyped ==
    ASSUME PageShape, NEW g \in Rooms, NEW m \in Envelope, Broadcast(g, m, inbox)
    PROVE  inbox' \in [Sockets -> Seq(Envelope)]
BY DEF PageShape, Broadcast

\* setTrip keeps the shape of the trip.
LEMMA SetTripTyped ==
    ASSUME PageShape, NEW t \in Trip \cup {None}, SetTrip(t)
    PROVE  trip' \in Trip \cup {None} /\ strays' \subseteq Peers \cup {"trip"}
BY DEF PageShape, SetTrip

\* sendWsMessage keeps the shape of what is under way to the hub.
LEMMA SentTyped ==
    ASSUME PageShape, NEW m \in Request, Sent(m)
    PROVE  outbox' \in [Sockets -> Seq(Request)]
<1>1. outbox \in [Sockets -> Seq(Request)] /\ storeWs \in Sockets \cup {None}
  BY DEF PageShape
<1>2. CASE storeWs # None /\ sock[storeWs].at = "open"
  <2>1. outbox' = [outbox EXCEPT ![storeWs] = Append(outbox[storeWs], m)]
    BY <1>2 DEF Sent
  <2>2. QED
    BY <1>1, <1>2, <2>1
<1>3. CASE ~(storeWs # None /\ sock[storeWs].at = "open")
  BY <1>1, <1>3 DEF Sent
<1>4. QED
  BY <1>2, <1>3

\* Every step keeps the shape of the state.
LEMMA TypeInductive ==
    ASSUME PageShape, Addressed, MembersAreSockets, Next
    PROVE  PageShape' /\ Addressed'
<1> USE DEF pageVars, netVars, storeVars, hubVars, history
<1> USE SessionAssumption
<1>0. /\ sock \in [Sockets -> Socket] /\ fetch \in [Fetches -> Fetch]
      /\ inbox \in [Sockets -> Seq(Envelope)] /\ room \in Rooms
      /\ hubTrip \in [Rooms -> Trip \cup {None}]
  BY DEF PageShape
<1>1. ASSUME Continue PROVE PageShape' /\ Addressed'
  BY <1>1 DEF Continue, PageShape, Addressed, Screens
<1>2. ASSUME NEW g \in Rooms, ChooseRoom(g) PROVE PageShape' /\ Addressed'
  BY <1>2 DEF ChooseRoom, PageShape, Addressed
<1>3. ASSUME StartLogin PROVE PageShape' /\ Addressed'
  BY <1>3 DEF StartLogin, PageShape, Addressed
<1>4. ASSUME LoginAnswers PROVE PageShape' /\ Addressed'
  BY <1>4 DEF LoginAnswers, PageShape, Addressed, Screens
<1>5. ASSUME SwapScreen PROVE PageShape' /\ Addressed'
  <2>1. CASE Mounted
    <3>0. /\ sock' = [s \in Sockets |-> IF s = active /\ Live(s)
                                        THEN [sock[s] EXCEPT !.at = "closed"] ELSE sock[s]]
          /\ fetch' = [f \in Fetches |-> [fetch[f] EXCEPT !.alive = FALSE,
                                                        !.room = None, !.trip = None]]
          /\ inbox' = [s \in Sockets |-> IF s = active THEN <<>> ELSE inbox[s]]
      BY <1>5, <2>1 DEF SwapScreen
    <3>1. /\ sock' \in [Sockets -> Socket]
          /\ \A s \in Sockets : sock'[s].at # "free" => sock'[s].room \in Rooms
      BY <1>0, <3>0 DEF Addressed, Socket, Live
    <3>2. fetch' \in [Fetches -> Fetch]
      <4>1. ASSUME NEW f \in Fetches
            PROVE  [fetch[f] EXCEPT !.alive = FALSE, !.room = None, !.trip = None] \in Fetch
        <5>1. fetch[f] \in Fetch
          BY <1>0
        <5>2. QED
          BY <5>1 DEF Fetch
      <4>2. QED
        BY <3>0, <4>1
    <3>3. inbox' \in [Sockets -> Seq(Envelope)]
      <4>1. inbox' = [s \in Sockets |-> IF s = active THEN <<>> ELSE inbox[s]]
        BY <3>0
      <4>2. QED
        BY <1>0, <4>1
    <3>4. QED
      BY <1>5, <2>1, <3>1, <3>2, <3>3 DEF SwapScreen, PageShape, Addressed
  <2>2. CASE ~Mounted
    <3>1. /\ sock' \in [Sockets -> Socket]
          /\ active' \in Sockets \cup {None} /\ storeWs' \in Sockets \cup {None}
          /\ \A s \in Sockets : sock'[s].at # "free" => sock'[s].room \in Rooms
      BY <1>5, <2>2, ConnectTyped DEF SwapScreen, PageShape, Addressed
    <3>2. QED
      BY <1>5, <2>2, <3>1 DEF SwapScreen, PageShape, Addressed
  <2>3. QED BY <2>1, <2>2
<1>6. ASSUME Leave PROVE PageShape' /\ Addressed'
  BY <1>6 DEF Leave, PageShape, Addressed, Screens, NoPeers
<1>7. ASSUME NEW s \in Sockets, OnOpen(s) PROVE PageShape' /\ Addressed'
  <2>1. /\ sock' \in [Sockets -> Socket]
        /\ \A r \in Sockets : sock'[r].at # "free" => sock'[r].room \in Rooms
    BY <1>7 DEF OnOpen, PageShape, Addressed, Socket
  <2>2. fetch' \in [Fetches -> Fetch] /\ excused' \in BOOLEAN
    <3>1. CASE Mounted /\ active = s
      <4>1. PICK f \in Fetches :
               fetch' = [fetch EXCEPT ![f] = [at |-> "asked", room |-> room,
                                              alive |-> TRUE, trip |-> None]]
        BY <1>7, <3>1 DEF OnOpen
      <4>2. room \in Rooms /\ fetch \in [Fetches -> Fetch]
        BY DEF PageShape
      <4>3. QED
        BY <1>7, <3>1, <4>1, <4>2 DEF OnOpen, Fetch
    <3>2. CASE ~(Mounted /\ active = s)
      BY <1>7, <3>2 DEF OnOpen, PageShape
    <3>3. QED
      BY <3>1, <3>2
  <2>3. QED
    BY <1>7, <2>1, <2>2 DEF OnOpen, PageShape, Addressed
<1>8. ASSUME NEW s \in Sockets, SocketFails(s) PROVE PageShape' /\ Addressed'
  BY <1>8 DEF SocketFails, PageShape, Addressed, Socket, Live
<1>9. ASSUME NEW s \in Sockets, OnClose(s) PROVE PageShape' /\ Addressed'
  <2>1. /\ sock' \in [Sockets -> Socket]
        /\ \A r \in Sockets : sock'[r].at # "free" => sock'[r].room \in Rooms
        /\ inbox' \in [Sockets -> Seq(Envelope)]
    <3>1. /\ sock' = [sock EXCEPT ![s].at = "closed"]
          /\ inbox' = [inbox EXCEPT ![s] = <<>>]
          /\ sock[s].at = "closing"
      BY <1>9 DEF OnClose
    <3>2. QED
      BY <1>0, <3>1 DEF Addressed, Socket
  <2>2. active' \in Sockets \cup {None} /\ timer' \in BOOLEAN /\ excused' \in BOOLEAN
    BY <1>9 DEF OnClose, PageShape
  <2>3. QED
    BY <1>9, <2>1, <2>2 DEF OnClose, PageShape, Addressed
<1>10. ASSUME Retry PROVE PageShape' /\ Addressed'
  <2>1. /\ sock' \in [Sockets -> Socket]
        /\ active' \in Sockets \cup {None} /\ storeWs' \in Sockets \cup {None}
        /\ \A s \in Sockets : sock'[s].at # "free" => sock'[s].room \in Rooms
    BY <1>10, ConnectTyped DEF Retry, PageShape, Addressed
  <2>2. QED
    BY <1>10, <2>1 DEF Retry, PageShape, Addressed
<1>11. ASSUME NEW s \in Sockets, OnMessage(s) PROVE PageShape' /\ Addressed'
  <2> DEFINE m == Head(inbox[s])
  <2>1. m \in Envelope /\ Tail(inbox[s]) \in Seq(Envelope)
    BY <1>11 DEF OnMessage, PageShape
  <2>2. inbox' \in [Sockets -> Seq(Envelope)]
    BY <1>11, <2>1 DEF OnMessage, PageShape
  <2>3. /\ peers' \in [Peers -> Rooms \cup {None}]
        /\ trip' \in Trip \cup {None}
        /\ strays' \subseteq Peers \cup {"trip"}
        /\ excused' \in BOOLEAN
    <3>1. CASE ~(Mounted /\ active = s)
      BY <1>11, <3>1 DEF OnMessage, PageShape
    <3>2. CASE Mounted /\ active = s /\ m.kind = "here"
      <4>1. m.peer \in Peers
        BY <2>1, <3>2 DEF Envelope
      <4>2. HearOf(m.peer, sock[s].room) /\ sock[s].room \in Rooms
        BY <1>11, <3>2 DEF OnMessage, Addressed
      <4>3. QED
        BY <4>1, <4>2 DEF HearOf, PageShape
    <3>3. CASE Mounted /\ active = s /\ m.kind = "gone"
      BY <1>11, <2>1, <3>3 DEF OnMessage, RemovePeer, PageShape, Envelope
    <3>4. CASE Mounted /\ active = s /\ m.kind = "trip_create"
      BY <1>11, <2>1, <3>4, SetTripTyped DEF OnMessage, TripEnvelope, PageShape, Envelope
    <3>5. CASE Mounted /\ active = s /\ m.kind = "trip_end"
      BY <1>11, <2>1, <3>5, SetTripTyped DEF OnMessage, TripEnvelope, PageShape, Envelope
    <3>6. QED BY <2>1, <3>1, <3>2, <3>3, <3>4, <3>5 DEF Envelope
  <2>4. QED
    BY <1>11, <2>2, <2>3 DEF OnMessage, PageShape, Addressed
<1>12. ASSUME NEW f \in Fetches, FetchAnswered(f) PROVE PageShape' /\ Addressed'
  <2>1. fetch[f] \in Fetch
    BY <1>0
  <2>2. PICK t \in {hubTrip[g] : g \in {fetch[f].room} \ {None}} \cup {None} :
           fetch' = [fetch EXCEPT ![f].at = "answered", ![f].trip = t]
    BY <1>12 DEF FetchAnswered
  <2>3. t \in Trip \cup {None}
    BY <1>0, <2>1 DEF Fetch
  <2>4. fetch' \in [Fetches -> Fetch]
    BY <1>0, <2>2, <2>3 DEF Fetch
  <2>5. QED
    BY <1>12, <2>4 DEF FetchAnswered, PageShape, Addressed
<1>13. ASSUME NEW f \in Fetches, FetchFails(f) PROVE PageShape' /\ Addressed'
  BY <1>13 DEF FetchFails, PageShape, Addressed, Fetch, IdleFetch
<1>14. ASSUME NEW f \in Fetches, FetchApplies(f) PROVE PageShape' /\ Addressed'
  <2>1. fetch' \in [Fetches -> Fetch] /\ fetch[f].trip \in Trip \cup {None}
    BY <1>14 DEF FetchApplies, PageShape, Fetch, IdleFetch
  <2>2. /\ trip' \in Trip \cup {None}
        /\ strays' \subseteq Peers \cup {"trip"}
        /\ outbox' \in [Sockets -> Seq(Request)]
        /\ excused' \in BOOLEAN
    <3> DEFINE t == fetch[f].trip
    <3>1. CASE ~fetch[f].alive \/ (t = None /\ trip = None)
      BY <1>14, <3>1 DEF FetchApplies, PageShape
    <3>2. CASE fetch[f].alive /\ t # None /\ trip = None
      BY <1>14, <2>1, <3>2, SetTripTyped DEF FetchApplies, PageShape, Outdated
    <3>3. CASE fetch[f].alive /\ t # None /\ trip # None
      BY <1>14, <3>3 DEF FetchApplies, PageShape, Outdated
    <3>4. CASE fetch[f].alive /\ t = None /\ trip # None
      BY <1>14, <3>4, SentTyped DEF FetchApplies, PageShape, Request
    <3>5. QED BY <2>1, <3>1, <3>2, <3>3, <3>4 DEF Fetch, PageShape
  <2>3. QED
    BY <1>14, <2>1, <2>2 DEF FetchApplies, PageShape, Addressed, IdleFetch
<1>15. ASSUME StartNavigation PROVE PageShape' /\ Addressed'
  <2>1. trip' \in Trip \cup {None} /\ strays' \subseteq Peers \cup {"trip"}
    BY <1>15, SetTripTyped DEF StartNavigation, PageShape, Trip
  <2>2. outbox' \in [Sockets -> Seq(Request)]
    BY <1>15, SentTyped DEF StartNavigation, Request
  <2>3. QED
    BY <1>15, <2>1, <2>2 DEF StartNavigation, PageShape, Addressed
<1>16. ASSUME EndTrip PROVE PageShape' /\ Addressed'
  <2>1. outbox' \in [Sockets -> Seq(Request)]
    BY <1>16, SentTyped DEF EndTrip, Request
  <2>2. QED
    BY <1>16, <2>1 DEF EndTrip, PageShape, Addressed
<1>17. ASSUME ClosePanel PROVE PageShape' /\ Addressed'
  BY <1>17, SetTripTyped DEF ClosePanel, PageShape, Addressed
<1>18. ASSUME NEW s \in Sockets, HubAdmits(s) PROVE PageShape' /\ Addressed'
  <2>1. hubTrip[sock[s].room] \in Trip \cup {None}
    BY <1>18 DEF HubAdmits, PageShape, Addressed
  <2>2. inbox' \in [Sockets -> Seq(Envelope)]
    <3> DEFINE q == IF hubTrip[sock[s].room] = None THEN <<>>
                    ELSE <<[kind |-> "trip_create", trip |-> hubTrip[sock[s].room]]>>
    <3>1. q \in Seq(Envelope)
      <4>1. CASE hubTrip[sock[s].room] = None
        BY <4>1
      <4>2. CASE hubTrip[sock[s].room] # None
        <5>1. [kind |-> "trip_create", trip |-> hubTrip[sock[s].room]] \in Envelope
          BY <2>1, <4>2 DEF Envelope
        <5>2. QED
          BY <4>2, <5>1
      <4>3. QED
        BY <4>1, <4>2
    <3>2. inbox' = [inbox EXCEPT ![s] = q] \/ inbox' = inbox
      BY <1>18 DEF HubAdmits
    <3>3. QED
      BY <3>1, <3>2 DEF PageShape
  <2>3. QED
    BY <1>18, <2>2 DEF HubAdmits, PageShape, Addressed
<1>19. ASSUME NEW s \in Sockets, HubReads(s) PROVE PageShape' /\ Addressed'
  <2> DEFINE g == sock[s].room
  <2>1. /\ outbox[s] \in Seq(Request) /\ outbox[s] # <<>>
        /\ outbox' = [outbox EXCEPT ![s] = Tail(@)]
        /\ outbox' \in [Sockets -> Seq(Request)]
    BY <1>19 DEF HubReads, PageShape
  <2>2. /\ hubTrip' \in [Rooms -> Trip \cup {None}]
        /\ inbox' \in [Sockets -> Seq(Envelope)]
    <3>0. g \in Rooms
      BY <1>19 DEF HubReads, Addressed, MembersAreSockets
    <3>1. CASE Head(outbox[s]).kind = "trip_create"
      <4>1. PICK t \in TripIds :
              LET new == [id |-> t, home |-> g, mine |-> TRUE] IN
              /\ hubTrip' = [hubTrip EXCEPT ![g] = new]
              /\ Broadcast(g, [kind |-> "trip_create", trip |-> new], inbox)
        BY <1>19, <3>1 DEF HubReads
      <4>2. [id |-> t, home |-> g, mine |-> TRUE] \in Trip
        BY <3>0 DEF Trip
      <4>3. [kind |-> "trip_create", trip |-> [id |-> t, home |-> g, mine |-> TRUE]] \in Envelope
        BY <4>2 DEF Envelope
      <4>4. QED
        BY <3>0, <4>1, <4>2, <4>3, BroadcastTyped DEF PageShape
    <3>2. CASE Head(outbox[s]).kind = "trip_end" /\ hubTrip[g] # None /\ hubTrip[g].mine
      <4>1. [kind |-> "trip_end"] \in Envelope
        BY DEF Envelope
      <4>2. QED
        BY <1>19, <3>0, <3>2, <4>1, BroadcastTyped DEF HubReads, PageShape
    <3>3. CASE Head(outbox[s]).kind = "trip_end" /\ ~(hubTrip[g] # None /\ hubTrip[g].mine)
      BY <1>19, <3>3 DEF HubReads, PageShape
    <3>4. QED
      BY <1>19, <3>1, <3>2, <3>3 DEF HubReads
  <2>3. QED
    BY <1>19, <2>1, <2>2 DEF HubReads, PageShape, Addressed
<1>20. ASSUME NEW g \in BusyRooms, OtherCreates(g) \/ OtherEnds(g) PROVE PageShape' /\ Addressed'
  <2>0. g \in Rooms
    BY SessionAssumption
  <2>1. CASE OtherCreates(g)
    <3>1. PICK t \in TripIds :
            LET new == [id |-> t, home |-> g, mine |-> FALSE] IN
            /\ hubTrip' = [hubTrip EXCEPT ![g] = new]
            /\ Broadcast(g, [kind |-> "trip_create", trip |-> new], inbox)
      BY <2>1 DEF OtherCreates
    <3>2. [id |-> t, home |-> g, mine |-> FALSE] \in Trip
      BY <2>0 DEF Trip
    <3>3. [kind |-> "trip_create", trip |-> [id |-> t, home |-> g, mine |-> FALSE]] \in Envelope
      BY <3>2 DEF Envelope
    <3>4. inbox' \in [Sockets -> Seq(Envelope)]
      BY <2>0, <3>1, <3>3, BroadcastTyped
    <3>5. QED
      BY <2>0, <2>1, <3>1, <3>2, <3>4 DEF OtherCreates, PageShape, Addressed
  <2>2. CASE OtherEnds(g)
    <3>1. [kind |-> "trip_end"] \in Envelope
      BY DEF Envelope
    <3>2. inbox' \in [Sockets -> Seq(Envelope)]
      BY <2>0, <2>2, <3>1, BroadcastTyped DEF OtherEnds
    <3>3. QED
      BY <2>0, <2>2, <3>2 DEF OtherEnds, PageShape, Addressed
  <2>3. QED
    BY <1>20, <2>1, <2>2
<1>21. ASSUME NEW g \in BusyRooms, NEW p \in Peers, PeerShows(g, p, "here") \/ PeerShows(g, p, "gone")
       PROVE PageShape' /\ Addressed'
  <2>1. inbox' \in [Sockets -> Seq(Envelope)]
    BY <1>21, BroadcastTyped DEF PeerShows, Envelope
  <2>2. QED
    BY <1>21, <2>1 DEF PeerShows, PageShape, Addressed
<1>22. ASSUME NEW s \in Sockets, HubUnregisters(s) PROVE PageShape' /\ Addressed'
  <2>1. PICK read \in 0 .. Len(outbox[s]) :
           outbox' = [outbox EXCEPT ![s] = SubSeq(outbox[s], 1, read)]
    BY <1>22 DEF HubUnregisters
  <2>2. outbox \in [Sockets -> Seq(Request)] /\ outbox[s] \in Seq(Request)
    BY DEF PageShape
  <2>3. SubSeq(outbox[s], 1, read) \in Seq(Request)
    BY <2>2
  <2>4. outbox' \in [Sockets -> Seq(Request)]
    BY <2>1, <2>2, <2>3
  <2>5. hubTrip' \in [Rooms -> Trip \cup {None}]
    BY <1>0, <1>22 DEF HubUnregisters
  <2>6. member' \in [Sockets -> BOOLEAN]
    BY <1>22 DEF HubUnregisters, PageShape
  <2>7. QED
    BY <1>22, <2>4, <2>5, <2>6 DEF HubUnregisters, PageShape, Addressed
<1>23. ASSUME HubRestarts PROVE PageShape' /\ Addressed'
  BY <1>23 DEF HubRestarts, PageShape, Addressed, Socket, Live
<1>24. ASSUME NEW s \in Sockets, Recycle(s) PROVE PageShape' /\ Addressed'
  BY <1>24 DEF Recycle, PageShape, Addressed, Socket, FreeSocket
<1>25. ASSUME NEW g \in BusyRooms, OthersLeave(g) PROVE PageShape' /\ Addressed'
  BY <1>25 DEF OthersLeave, PageShape, Addressed
<1>26. QED
  BY <1>1, <1>2, <1>3, <1>4, <1>5, <1>6, <1>7, <1>8, <1>9, <1>10, <1>11, <1>12,
     <1>13, <1>14, <1>15, <1>16, <1>17, <1>18, <1>19, <1>20, <1>21, <1>22, <1>23, <1>24, <1>25
  DEF Next, UserNext, SocketNext, FetchNext, HubNext
-----------------------------------------------------------------------------
(* One connection. *)

\* The active socket is the socket of the store, and of the room of the screen.
ActiveIsOurs ==
    active # None => storeWs = active /\ sock[active].room = room /\ sock[active].at # "free"

\* The inductive invariant of the connection effect.
ConnInv == SingleConnection /\ ActiveIsOurs /\ NeverStranded

\* Steps that leave sockets, timer, screen and room alone keep it.
LEMMA ConnUntouched ==
    ASSUME ConnInv, UNCHANGED <<netVars, shown, room>>
    PROVE  ConnInv'
BY DEF ConnInv, SingleConnection, ActiveIsOurs, NeverStranded, Live, Mounted, netVars

\* connect() without a live socket makes the only live one, of the room.
LEMMA ConnectConnects ==
    ASSUME PageShape, ConnInv, Connect(room), ~Live(active), UNCHANGED room
    PROVE  /\ active' \in Sockets /\ storeWs' = active'
           /\ sock'[active'].room = room /\ sock'[active'].at = "connecting"
           /\ \A s \in Sockets : s # active' => ~(sock'[s].at \in {"connecting", "open"})
<1>1. sock \in [Sockets -> Socket]
  BY DEF PageShape
<1>2. PICK s \in Sockets : /\ sock' = [sock EXCEPT ![s] = [at |-> "connecting", room |-> room]]
                           /\ active' = s /\ storeWs' = s
  BY DEF Connect
<1>3. \A r \in Sockets : ~Live(r)
  BY DEF ConnInv, SingleConnection
<1>4. QED
  BY <1>1, <1>2, <1>3, SessionAssumption DEF Live

\* Every step keeps one connection, or the way to the next one.
LEMMA ConnInductive ==
    ASSUME PageShape, ConnInv, Next
    PROVE  ConnInv'
<1> USE SessionAssumption
<1>0. /\ sock \in [Sockets -> Socket]
      /\ active \in Sockets \cup {None} /\ storeWs \in Sockets \cup {None}
  BY DEF PageShape
<1>1. CASE UNCHANGED <<netVars, shown, room>>
  BY <1>1, ConnUntouched
<1>2. ASSUME NEW g \in Rooms, ChooseRoom(g) PROVE ConnInv'
  BY <1>2 DEF ChooseRoom, ConnInv, SingleConnection, ActiveIsOurs, NeverStranded, Live, Mounted, netVars
<1>3. CASE SwapScreen
  <2>1. CASE Mounted
    <3>1. /\ active' = None /\ storeWs' = None /\ timer' = FALSE /\ shown' # "map"
          /\ sock' = [s \in Sockets |-> IF s = active /\ Live(s)
                                        THEN [sock[s] EXCEPT !.at = "closed"] ELSE sock[s]]
      BY <1>3, <2>1 DEF SwapScreen, Mounted
    <3>2. ASSUME NEW s \in Sockets PROVE ~(sock'[s].at \in {"connecting", "open"})
      <4>1. CASE s = active /\ Live(s)
        BY <1>0, <3>1, <4>1 DEF Socket
      <4>2. CASE ~(s = active /\ Live(s))
        BY <1>0, <3>1, <4>2 DEF Live, ConnInv, SingleConnection
      <4>3. QED
        BY <4>1, <4>2
    <3>3. QED
      BY <3>1, <3>2 DEF ConnInv, SingleConnection, ActiveIsOurs, NeverStranded, Live, Mounted
  <2>2. CASE ~Mounted /\ screen = "map"
    <3>1. Connect(room) /\ UNCHANGED <<timer, room>> /\ shown' = "map"
      BY <1>3, <2>2 DEF SwapScreen
    <3>2. ~Live(active) /\ timer = FALSE
      BY <2>2 DEF ConnInv, SingleConnection, Live, PageShape
    <3>3. QED
      BY <3>1, <3>2, ConnectConnects
      DEF ConnInv, SingleConnection, ActiveIsOurs, NeverStranded, Live, Mounted
  <2>3. CASE ~Mounted /\ screen # "map"
    BY <1>3, <2>3 DEF SwapScreen, ConnInv, SingleConnection, ActiveIsOurs, NeverStranded, Live, Mounted
  <2>4. QED
    BY <2>1, <2>2, <2>3
<1>4. ASSUME NEW s \in Sockets, OnOpen(s) PROVE ConnInv'
  <2>1. /\ sock' = [sock EXCEPT ![s].at = "open"] /\ sock[s].at = "connecting"
        /\ UNCHANGED <<active, storeWs, timer, shown, room>>
    BY <1>4 DEF OnOpen, pageVars
  <2>2. QED
    BY <1>0, <2>1 DEF Socket, ConnInv, SingleConnection, ActiveIsOurs, NeverStranded, Live, Mounted
<1>5. ASSUME NEW s \in Sockets, SocketFails(s) PROVE ConnInv'
  <2>1. /\ sock' = [sock EXCEPT ![s].at = "closing"] /\ Live(s)
        /\ UNCHANGED <<active, storeWs, timer, shown, room>>
    BY <1>5 DEF SocketFails, pageVars
  <2>2. QED
    BY <1>0, <2>1 DEF Socket, ConnInv, SingleConnection, ActiveIsOurs, NeverStranded, Live, Mounted
<1>6. ASSUME NEW s \in Sockets, OnClose(s) PROVE ConnInv'
  <2>1. /\ sock' = [sock EXCEPT ![s].at = "closed"] /\ sock[s].at = "closing"
        /\ UNCHANGED <<storeWs, shown, room>>
    BY <1>6 DEF OnClose, pageVars
  <2>2. CASE Mounted /\ active = s
    <3>1. active' = None /\ timer' = TRUE
      BY <1>6, <2>2 DEF OnClose
    <3>2. QED
      BY <1>0, <2>1, <2>2, <3>1
      DEF Socket, ConnInv, SingleConnection, ActiveIsOurs, NeverStranded, Live, Mounted
  <2>3. CASE ~(Mounted /\ active = s)
    <3>1. UNCHANGED <<active, timer>>
      BY <1>6, <2>3 DEF OnClose
    <3>2. QED
      BY <1>0, <2>1, <2>3, <3>1
      DEF Socket, ConnInv, SingleConnection, ActiveIsOurs, NeverStranded, Live, Mounted
  <2>4. QED
    BY <2>2, <2>3
<1>7. CASE Retry
  <2>1. Connect(room) /\ ~Live(active) /\ timer' = FALSE /\ UNCHANGED <<shown, room>> /\ Mounted
    BY <1>7 DEF Retry, ConnInv, SingleConnection, Live, pageVars
  <2>2. QED
    BY <2>1, ConnectConnects DEF ConnInv, SingleConnection, ActiveIsOurs, NeverStranded, Live, Mounted
<1>8. ASSUME NEW s \in Sockets, Recycle(s) PROVE ConnInv'
  <2>1. /\ sock' = [sock EXCEPT ![s] = FreeSocket] /\ s # active
        /\ UNCHANGED <<active, storeWs, timer, shown, room>>
    BY <1>8 DEF Recycle, pageVars
  <2>2. QED
    BY <1>0, <2>1 DEF FreeSocket, ConnInv, SingleConnection, ActiveIsOurs, NeverStranded, Live, Mounted
<1>9. CASE HubRestarts
  <2>1. /\ sock' = [s \in Sockets |-> IF Live(s) THEN [sock[s] EXCEPT !.at = "closing"] ELSE sock[s]]
        /\ UNCHANGED <<active, storeWs, timer, shown, room>>
    BY <1>9 DEF HubRestarts, pageVars
  <2>2. ASSUME NEW s \in Sockets
        PROVE  /\ sock'[s].room = sock[s].room /\ ~(sock'[s].at \in {"connecting", "open"})
               /\ sock'[s].at \in {"closed", "free"} => sock'[s].at = sock[s].at
    <3>1. sock[s] \in Socket
      BY <1>0
    <3>2. CASE Live(s)
      BY <2>1, <3>1, <3>2 DEF Socket
    <3>3. CASE ~Live(s)
      BY <2>1, <3>1, <3>3 DEF Live
    <3>4. QED
      BY <3>2, <3>3
  <2>3. QED
    BY <1>0, <2>1, <2>2 DEF ConnInv, SingleConnection, ActiveIsOurs, NeverStranded, Live, Mounted
<1>10. QED
  <2> USE <1>1 DEF pageVars, netVars
  <2>1. CASE UserNext
    BY <2>1, <1>2 DEF UserNext, Continue, StartLogin, Leave, StartNavigation, EndTrip, ClosePanel
  <2>2. CASE LoginAnswers
    BY <2>2 DEF LoginAnswers
  <2>3. ASSUME NEW s \in Sockets, SocketNext(s) PROVE ConnInv'
    BY <2>3, <1>4, <1>5, <1>6 DEF SocketNext, OnMessage
  <2>4. ASSUME NEW f \in Fetches, FetchNext(f) PROVE ConnInv'
    BY <2>4 DEF FetchNext, FetchAnswered, FetchFails, FetchApplies
  <2>5. CASE HubNext
    BY <2>5, <1>8, <1>9
    DEF HubNext, HubAdmits, HubReads, HubUnregisters, OtherCreates, OtherEnds, OthersLeave, PeerShows
  <2>6. QED
    BY <1>3, <1>7, <2>1, <2>2, <2>3, <2>4, <2>5 DEF Next
-----------------------------------------------------------------------------
(* Rooms: whose trips travel on a socket, and in a fetch. *)

\* A trip of the hub is kept under its own room.
HubHomes == \A g \in Rooms : hubTrip[g] # None => hubTrip[g].home = g

\* The trips in queue q are of room g.
HomesAt(q, g) == \A i \in DOMAIN q : q[i].kind = "trip_create" => q[i].trip.home = g

\* Nothing travels on a socket that is closed, or not in use.
Quiet(s) == sock[s].at \in {"closed", "free"}

\* What travels on a socket is of the socket's room.
WireInv ==
    /\ HubHomes
    /\ \A s \in Sockets : HomesAt(inbox[s], sock[s].room)
    /\ \A s \in Sockets : Quiet(s) => inbox[s] = <<>>

\* Another trip of the room keeps the queue of the room.
LEMMA AppendHome ==
    ASSUME NEW q \in Seq(Envelope), NEW m \in Envelope, NEW g,
           HomesAt(q, g), m.kind = "trip_create" => m.trip.home = g
    PROVE  HomesAt(Append(q, m), g)
BY DEF HomesAt

\* So does taking the first one away.
LEMMA TailHome ==
    ASSUME NEW q \in Seq(Envelope), q # <<>>, NEW g, HomesAt(q, g)
    PROVE  HomesAt(Tail(q), g)
BY DEF HomesAt

\* What a step may do to an inbox.
Keeps(s) ==
    /\ sock'[s].room = sock[s].room
    /\ sock'[s].at \in {"closed", "free"} => sock[s].at \in {"closed", "free"}
    /\ inbox'[s] = inbox[s] \/ (inbox[s] # <<>> /\ inbox'[s] = Tail(inbox[s]))

Takes(s, m) ==
    /\ sock'[s] = sock[s] /\ Live(s)
    /\ inbox'[s] = Append(inbox[s], m)
    /\ m.kind = "trip_create" => m.trip.home = sock[s].room

\* Three things may happen to an inbox, and each keeps WireInv.
LEMMA WireStep ==
    ASSUME PageShape, WireInv, HubHomes',
           \A s \in Sockets :
              \/ inbox'[s] = <<>> \/ Keeps(s)
              \/ \E m \in Envelope : Takes(s, m)
    PROVE  WireInv'
<1>1. inbox \in [Sockets -> Seq(Envelope)]
  BY DEF PageShape
<1>2. ASSUME NEW s \in Sockets
      PROVE  HomesAt(inbox'[s], sock'[s].room) /\ (Quiet(s)' => inbox'[s] = <<>>)
  <2>1. CASE inbox'[s] = <<>>
    BY <2>1 DEF HomesAt
  <2>2. CASE Keeps(s)
    <3>1. HomesAt(inbox[s], sock[s].room) /\ (Quiet(s) => inbox[s] = <<>>)
      BY DEF WireInv
    <3>2. CASE inbox'[s] = inbox[s]
      BY <2>2, <3>1, <3>2 DEF Keeps, Quiet
    <3>3. CASE inbox[s] # <<>> /\ inbox'[s] = Tail(inbox[s])
      BY <1>1, <2>2, <3>1, <3>3, TailHome DEF Keeps, Quiet
    <3>4. QED
      BY <2>2, <3>2, <3>3 DEF Keeps
  <2>3. ASSUME NEW m \in Envelope, Takes(s, m)
        PROVE  HomesAt(inbox'[s], sock'[s].room) /\ (Quiet(s)' => inbox'[s] = <<>>)
    <3>1. HomesAt(inbox[s], sock[s].room)
      BY DEF WireInv
    <3>2. inbox[s] \in Seq(Envelope)
      BY <1>1
    <3>3. HomesAt(Append(inbox[s], m), sock[s].room)
      BY <2>3, <3>1, <3>2, AppendHome DEF Takes
    <3>4. ~Quiet(s)'
      BY <2>3 DEF Takes, Quiet, Live
    <3>5. QED
      BY <2>3, <3>3, <3>4 DEF Takes
  <2>4. QED
    BY <2>1, <2>2, <2>3
<1>3. QED
  BY <1>2 DEF WireInv

\* Nothing but the hub's trips and the sockets matter.
LEMMA WireUntouched ==
    ASSUME WireInv, UNCHANGED <<sock, hubTrip, inbox>>
    PROVE  WireInv'
BY DEF WireInv, HubHomes, HomesAt, Quiet

\* A broadcast to a room reaches sockets of that room alone.
LEMMA BroadcastTakes ==
    ASSUME PageShape, NEW g \in Rooms, NEW m \in Envelope, Broadcast(g, m, inbox), UNCHANGED sock,
           m.kind = "trip_create" => m.trip.home = g
    PROVE  \A s \in Sockets : Keeps(s) \/ Takes(s, m)
BY DEF PageShape, Broadcast, Members, Keeps, Takes

\* connect() takes a socket on which nothing is under way.
LEMMA ConnectKeeps ==
    ASSUME PageShape, WireInv, Connect(room), UNCHANGED inbox
    PROVE  \A s \in Sockets : inbox'[s] = <<>> \/ Keeps(s)
<1>1. sock \in [Sockets -> Socket] /\ inbox \in [Sockets -> Seq(Envelope)]
  BY DEF PageShape
<1>2. CASE Live(active)
  BY <1>2 DEF Connect, Keeps
<1>3. CASE ~Live(active)
  <2>1. PICK s \in Sockets : /\ sock[s] = FreeSocket
                             /\ sock' = [sock EXCEPT ![s] = [at |-> "connecting", room |-> room]]
    BY <1>3 DEF Connect
  <2>2. inbox[s] = <<>>
    BY <2>1 DEF WireInv, Quiet, FreeSocket
  <2>3. QED
    BY <1>1, <2>1, <2>2 DEF Keeps
<1>4. QED
  BY <1>2, <1>3

\* Every step keeps what travels on a socket of its room.
LEMMA WireInductive ==
    ASSUME PageShape, PageShape', Addressed, MembersAreSockets, WireInv, Next
    PROVE  WireInv'
<1> USE SessionAssumption
<1>0. /\ sock \in [Sockets -> Socket] /\ inbox \in [Sockets -> Seq(Envelope)]
      /\ hubTrip \in [Rooms -> Trip \cup {None}]
  BY DEF PageShape
<1>1. CASE UNCHANGED <<sock, hubTrip, inbox>>
  BY <1>1, WireUntouched
<1>2. ASSUME UNCHANGED hubTrip, \A s \in Sockets : inbox'[s] = <<>> \/ Keeps(s)
      PROVE  WireInv'
  BY <1>2, WireStep DEF WireInv, HubHomes
<1>3. CASE SwapScreen
  <2>1. CASE Mounted
    <3>1. /\ sock' = [s \in Sockets |-> IF s = active /\ Live(s)
                                        THEN [sock[s] EXCEPT !.at = "closed"] ELSE sock[s]]
          /\ inbox' = [s \in Sockets |-> IF s = active THEN <<>> ELSE inbox[s]]
          /\ UNCHANGED hubTrip
      BY <1>3, <2>1 DEF SwapScreen
    <3>2. QED
      BY <1>0, <1>2, <3>1 DEF Keeps
  <2>2. CASE ~Mounted /\ screen = "map"
    BY <1>2, <1>3, <2>2, ConnectKeeps DEF SwapScreen
  <2>3. CASE ~Mounted /\ screen # "map"
    BY <1>1, <1>3, <2>3 DEF SwapScreen
  <2>4. QED
    BY <2>1, <2>2, <2>3
<1>4. CASE Retry
  <2>1. CASE Mounted
    BY <1>2, <1>4, <2>1, ConnectKeeps DEF Retry, hubVars
  <2>2. CASE ~Mounted
    BY <1>1, <1>4, <2>2 DEF Retry, hubVars
  <2>3. QED
    BY <2>1, <2>2
<1>5. ASSUME NEW s \in Sockets, SocketNext(s) PROVE WireInv'
  <2>1. CASE OnOpen(s)
    <3>1. /\ sock' = [sock EXCEPT ![s].at = "open"] /\ UNCHANGED <<inbox, hubTrip>>
      BY <2>1 DEF OnOpen, hubVars
    <3>2. QED
      BY <1>0, <1>2, <3>1 DEF Keeps, Socket
  <2>2. CASE SocketFails(s)
    <3>1. /\ sock' = [sock EXCEPT ![s].at = "closing"] /\ UNCHANGED <<inbox, hubTrip>>
      BY <2>2 DEF SocketFails, hubVars
    <3>2. QED
      BY <1>0, <1>2, <3>1 DEF Keeps, Socket
  <2>3. CASE OnClose(s)
    <3>1. /\ sock' = [sock EXCEPT ![s].at = "closed"]
          /\ inbox' = [inbox EXCEPT ![s] = <<>>]
          /\ UNCHANGED hubTrip
      BY <2>3 DEF OnClose, hubVars
    <3>2. QED
      BY <1>0, <1>2, <3>1 DEF Keeps, Socket
  <2>4. CASE OnMessage(s)
    <3>1. /\ inbox[s] # <<>> /\ inbox' = [inbox EXCEPT ![s] = Tail(@)]
          /\ UNCHANGED <<hubTrip, sock>>
      BY <2>4 DEF OnMessage, netVars
    <3>2. QED
      BY <1>0, <1>2, <3>1 DEF Keeps
  <2>5. QED
    BY <1>5, <2>1, <2>2, <2>3, <2>4 DEF SocketNext
<1>6. ASSUME NEW s \in Sockets, HubAdmits(s) PROVE WireInv'
  <2>1. UNCHANGED <<sock, hubTrip>> /\ sock[s].room \in Rooms
    BY <1>6 DEF HubAdmits, netVars, Addressed
  <2>2. CASE Live(s)
    <3>1. inbox' = [inbox EXCEPT ![s] = IF hubTrip[sock[s].room] = None THEN <<>>
                                        ELSE <<[kind |-> "trip_create", trip |-> hubTrip[sock[s].room]]>>]
      BY <1>6, <2>2 DEF HubAdmits
    <3>2. HomesAt(inbox'[s], sock[s].room)
      BY <1>0, <2>1, <3>1 DEF HomesAt, WireInv, HubHomes
    <3>3. \A r \in Sockets : r # s => inbox'[r] = inbox[r]
      BY <1>0, <3>1
    <3>4. ~Quiet(s)
      BY <2>2 DEF Live, Quiet
    <3>5. QED
      BY <2>1, <3>2, <3>3, <3>4 DEF WireInv, HubHomes, Quiet
  <2>3. CASE ~Live(s)
    BY <1>1, <1>6, <2>1, <2>3 DEF HubAdmits
  <2>4. QED
    BY <2>2, <2>3
<1>7. ASSUME NEW g \in Rooms, NEW t \in Trip, t.home = g, UNCHANGED sock,
             hubTrip' = [hubTrip EXCEPT ![g] = t],
             Broadcast(g, [kind |-> "trip_create", trip |-> t], inbox)
      PROVE  WireInv'
  <2>1. [kind |-> "trip_create", trip |-> t] \in Envelope
    BY DEF Envelope
  <2>2. HubHomes'
    BY <1>0, <1>7 DEF WireInv, HubHomes
  <2>3. QED
    BY <1>7, <2>1, <2>2, BroadcastTakes, WireStep
<1>8. ASSUME NEW g \in Rooms, UNCHANGED sock, hubTrip' = [hubTrip EXCEPT ![g] = None],
             Broadcast(g, [kind |-> "trip_end"], inbox)
      PROVE  WireInv'
  <2>1. [kind |-> "trip_end"] \in Envelope
    BY DEF Envelope
  <2>2. HubHomes'
    BY <1>0, <1>8 DEF WireInv, HubHomes
  <2>3. QED
    BY <1>8, <2>1, <2>2, BroadcastTakes, WireStep
<1>9. ASSUME NEW s \in Sockets, HubReads(s) PROVE WireInv'
  <2> DEFINE g == sock[s].room
  <2>0. g \in Rooms /\ UNCHANGED sock
    BY <1>9 DEF HubReads, Addressed, MembersAreSockets, netVars
  <2>1. CASE Head(outbox[s]).kind = "trip_create"
    <3>1. PICK t \in TripIds :
            /\ hubTrip' = [hubTrip EXCEPT ![g] = [id |-> t, home |-> g, mine |-> TRUE]]
            /\ Broadcast(g, [kind |-> "trip_create", trip |-> [id |-> t, home |-> g, mine |-> TRUE]], inbox)
      BY <1>9, <2>1 DEF HubReads
    <3>2. [id |-> t, home |-> g, mine |-> TRUE] \in Trip
      BY <2>0 DEF Trip
    <3>3. QED
      BY <1>7, <2>0, <3>1, <3>2
  <2>2. CASE Head(outbox[s]).kind = "trip_end" /\ hubTrip[g] # None /\ hubTrip[g].mine
    BY <1>8, <1>9, <2>0, <2>2 DEF HubReads
  <2>3. CASE Head(outbox[s]).kind = "trip_end" /\ ~(hubTrip[g] # None /\ hubTrip[g].mine)
    BY <1>1, <1>9, <2>0, <2>3 DEF HubReads
  <2>4. QED
    BY <1>9, <2>1, <2>2, <2>3 DEF HubReads
<1>10. ASSUME NEW g \in BusyRooms, OtherCreates(g) PROVE WireInv'
  <2>1. PICK t \in TripIds :
          /\ hubTrip' = [hubTrip EXCEPT ![g] = [id |-> t, home |-> g, mine |-> FALSE]]
          /\ Broadcast(g, [kind |-> "trip_create", trip |-> [id |-> t, home |-> g, mine |-> FALSE]], inbox)
    BY <1>10 DEF OtherCreates
  <2>2. g \in Rooms /\ [id |-> t, home |-> g, mine |-> FALSE] \in Trip
    BY DEF Trip
  <2>3. UNCHANGED sock
    BY <1>10 DEF OtherCreates, netVars
  <2>4. QED
    BY <1>7, <2>1, <2>2, <2>3
<1>11. ASSUME NEW g \in BusyRooms, OtherEnds(g) PROVE WireInv'
  BY <1>8, <1>11 DEF OtherEnds, netVars
<1>12. ASSUME NEW g \in BusyRooms, NEW p \in Peers, NEW k \in {"here", "gone"}, PeerShows(g, p, k)
       PROVE  WireInv'
  <2>1. [kind |-> k, peer |-> p] \in Envelope
    BY DEF Envelope
  <2>2. g \in Rooms /\ UNCHANGED <<sock, hubTrip>> /\ Broadcast(g, [kind |-> k, peer |-> p], inbox)
    BY <1>12 DEF PeerShows, netVars
  <2>3. HubHomes'
    BY <2>2 DEF WireInv, HubHomes
  <2>4. QED
    BY <2>1, <2>2, <2>3, BroadcastTakes, WireStep
<1>13. ASSUME NEW s \in Sockets, Recycle(s) PROVE WireInv'
  <2>1. /\ sock' = [sock EXCEPT ![s] = FreeSocket] /\ UNCHANGED <<inbox, hubTrip>>
        /\ inbox[s] = <<>>
    BY <1>13 DEF Recycle, WireInv, Quiet
  <2>2. QED
    BY <1>0, <1>2, <2>1 DEF Keeps
<1>14. CASE HubRestarts
  <2>1. /\ sock' = [s \in Sockets |-> IF Live(s) THEN [sock[s] EXCEPT !.at = "closing"] ELSE sock[s]]
        /\ UNCHANGED inbox /\ hubTrip' = [g \in Rooms |-> None]
    BY <1>14 DEF HubRestarts
  <2>2. HubHomes'
    BY <2>1 DEF HubHomes
  <2>3. ASSUME NEW s \in Sockets PROVE Keeps(s)
    <3>1. sock[s] \in Socket
      BY <1>0
    <3>2. CASE Live(s)
      BY <2>1, <3>1, <3>2 DEF Socket, Keeps
    <3>3. CASE ~Live(s)
      BY <2>1, <3>1, <3>3 DEF Keeps
    <3>4. QED
      BY <3>2, <3>3
  <2>4. QED
    BY <2>2, <2>3, WireStep
<1>15. ASSUME NEW g \in Rooms, UNCHANGED <<sock, inbox>>,
              hubTrip' \in {hubTrip, [hubTrip EXCEPT ![g] = None]}
       PROVE  WireInv'
  <2>1. HubHomes'
    BY <1>0, <1>15 DEF WireInv, HubHomes
  <2>2. QED
    BY <1>15, <2>1 DEF WireInv, HomesAt, Quiet
<1>16. ASSUME NEW s \in Sockets, HubUnregisters(s) PROVE WireInv'
  <2>1. sock[s].room \in Rooms
    BY <1>16 DEF HubUnregisters, Addressed
  <2>2. QED
    BY <1>15, <1>16, <2>1 DEF HubUnregisters, netVars
<1>17. ASSUME NEW g \in BusyRooms, OthersLeave(g) PROVE WireInv'
  BY <1>15, <1>17 DEF OthersLeave, netVars
<1>18. QED
  <2> USE <1>1 DEF hubVars, netVars
  <2>1. CASE UserNext
    BY <2>1 DEF UserNext, Continue, ChooseRoom, StartLogin, Leave, StartNavigation, EndTrip, ClosePanel
  <2>2. CASE LoginAnswers
    BY <2>2 DEF LoginAnswers
  <2>3. ASSUME NEW f \in Fetches, FetchNext(f) PROVE WireInv'
    BY <2>3 DEF FetchNext, FetchAnswered, FetchFails, FetchApplies
  <2>4. CASE HubNext
    BY <2>4, <1>6, <1>9, <1>10, <1>11, <1>12, <1>13, <1>14, <1>16, <1>17 DEF HubNext
  <2>5. QED
    BY <1>3, <1>4, <1>5, <2>1, <2>2, <2>3, <2>4 DEF Next
\* A request that still has a screen is of that screen's room, and so is its answer.
FetchHomes == \A f \in Fetches :
    /\ fetch[f].alive => Mounted /\ fetch[f].room = room
    /\ fetch[f].trip # None => fetch[f].trip.home = fetch[f].room

\* Steps that leave requests, screen and room alone keep it.
LEMMA FetchUntouched ==
    ASSUME FetchHomes, UNCHANGED <<fetch, shown, room>>
    PROVE  FetchHomes'
BY DEF FetchHomes, Mounted

\* Every step keeps requests to their rooms: the cleanup of the effect silences them first.
LEMMA FetchInductive ==
    ASSUME PageShape, Addressed, HubHomes, FetchHomes, Next
    PROVE  FetchHomes'
<1>0. fetch \in [Fetches -> Fetch]
  BY DEF PageShape
<1>1. CASE UNCHANGED <<fetch, shown, room>>
  BY <1>1, FetchUntouched
<1>2. ASSUME NEW f \in Fetches, fetch' = [fetch EXCEPT ![f] = IdleFetch], UNCHANGED <<shown, room>>
      PROVE  FetchHomes'
  BY <1>0, <1>2 DEF FetchHomes, Mounted, IdleFetch
<1>3. ASSUME NEW g \in Rooms, ChooseRoom(g) PROVE FetchHomes'
  BY <1>3 DEF ChooseRoom, FetchHomes, Mounted
<1>4. CASE SwapScreen
  <2>1. CASE Mounted
    <3>1. fetch' = [f \in Fetches |-> [fetch[f] EXCEPT !.alive = FALSE,
                                                      !.room = None, !.trip = None]]
      BY <1>4, <2>1 DEF SwapScreen
    <3>2. ASSUME NEW f \in Fetches
          PROVE  ~fetch'[f].alive /\ fetch'[f].trip = None
      <4>1. /\ fetch[f] \in Fetch
            /\ fetch'[f] = [fetch[f] EXCEPT !.alive = FALSE, !.room = None, !.trip = None]
        BY <1>0, <3>1
      <4>2. QED
        BY <4>1 DEF Fetch
    <3>3. QED
      BY <3>2 DEF FetchHomes
  <2>2. CASE ~Mounted
    BY <1>4, <2>2 DEF SwapScreen, FetchHomes
  <2>3. QED
    BY <2>1, <2>2
<1>5. ASSUME NEW s \in Sockets, OnOpen(s) PROVE FetchHomes'
  <2>1. CASE Mounted /\ active = s
    <3>1. PICK f \in Fetches :
             fetch' = [fetch EXCEPT ![f] = [at |-> "asked", room |-> room,
                                            alive |-> TRUE, trip |-> None]]
      BY <1>5, <2>1 DEF OnOpen
    <3>2. UNCHANGED <<shown, room>>
      BY <1>5 DEF OnOpen, pageVars
    <3>3. QED
      BY <1>0, <2>1, <3>1, <3>2 DEF FetchHomes, Mounted
  <2>2. CASE ~(Mounted /\ active = s)
    BY <1>1, <1>5, <2>2 DEF OnOpen, pageVars
  <2>3. QED
    BY <2>1, <2>2
<1>6. ASSUME NEW f \in Fetches, FetchAnswered(f) PROVE FetchHomes'
  <2>0. fetch[f] \in Fetch
    BY <1>0
  <2>1. PICK t \in {hubTrip[g] : g \in {fetch[f].room} \ {None}} \cup {None} :
           fetch' = [fetch EXCEPT ![f].at = "answered", ![f].trip = t]
    BY <1>6 DEF FetchAnswered
  <2>2. t # None => t.home = fetch[f].room
    BY <2>0, <2>1 DEF HubHomes, Fetch
  <2>3. UNCHANGED <<shown, room>>
    BY <1>6 DEF FetchAnswered, pageVars
  <2>4. ASSUME NEW e \in Fetches
        PROVE  /\ fetch'[e].alive = fetch[e].alive /\ fetch'[e].room = fetch[e].room
               /\ fetch'[e].trip = IF e = f THEN t ELSE fetch[e].trip
    <3>1. fetch[e] \in Fetch
      BY <1>0
    <3>2. QED
      BY <1>0, <2>1, <3>1 DEF Fetch
  <2>5. QED
    BY <2>2, <2>3, <2>4 DEF FetchHomes, Mounted
<1>7. QED
  <2> USE <1>1 DEF pageVars
  <2>1. CASE UserNext
    BY <2>1, <1>3 DEF UserNext, Continue, StartLogin, Leave, StartNavigation, EndTrip, ClosePanel
  <2>2. CASE LoginAnswers \/ Retry
    BY <2>2 DEF LoginAnswers, Retry
  <2>3. ASSUME NEW s \in Sockets, SocketNext(s) PROVE FetchHomes'
    BY <2>3, <1>5 DEF SocketNext, SocketFails, OnClose, OnMessage
  <2>4. ASSUME NEW f \in Fetches, FetchNext(f) PROVE FetchHomes'
    BY <2>4, <1>2, <1>6 DEF FetchNext, FetchFails, FetchApplies
  <2>5. CASE HubNext
    BY <2>5
    DEF HubNext, HubAdmits, HubReads, HubUnregisters, Recycle, OtherCreates, OtherEnds, OthersLeave,
        PeerShows, HubRestarts
  <2>6. QED
    BY <1>4, <2>1, <2>2, <2>3, <2>4, <2>5 DEF Next
-----------------------------------------------------------------------------
(* Rooms: what the page keeps. *)

\* While the map is left, or gone, the page keeps only what came in after Leave.
NewcomersAreStrays == ~Mounted \/ Leaving =>
    /\ \A p \in Peers : peers[p] = None \/ p \in strays
    /\ trip # None => "trip" \in strays

\* The inductive invariant of what the page shows.
StrayInv == OnlyStraysCross /\ NewcomersAreStrays

\* Steps that leave the page's data alone, and leave no map, keep it.
LEMMA StraysUntouched ==
    ASSUME StrayInv, UNCHANGED <<peers, trip, strays, shown, room>>,
           Mounted /\ screen' # "map" => screen # "map"
    PROVE  StrayInv'
BY DEF StrayInv, OnlyStraysCross, NewcomersAreStrays, Mounted, Leaving

\* setTrip with a trip of the room keeps it.
LEMMA SetTripStrays ==
    ASSUME StrayInv, Mounted, NEW t, t # None => t.home = room, SetTrip(t),
           UNCHANGED <<peers, screen, shown, room>>
    PROVE  StrayInv'
<1> USE SessionAssumption DEF StrayInv, OnlyStraysCross, NewcomersAreStrays, Mounted, Leaving
<1>1. CASE t # None /\ Leaving
  BY <1>1 DEF SetTrip
<1>2. CASE ~(t # None /\ Leaving)
  <2>1. trip' = t /\ strays' = strays \ {"trip"}
    BY <1>2 DEF SetTrip
  <2>2. QED
    BY <1>2, <2>1
<1>3. QED
  BY <1>1, <1>2

\* Every step keeps it: what is applied came on the active socket or in a live request.
LEMMA StraysInductive ==
    ASSUME PageShape, Addressed, ConnInv, WireInv, FetchHomes, StrayInv, Next
    PROVE  StrayInv'
<1> USE SessionAssumption
<1>0. peers \in [Peers -> Rooms \cup {None}] /\ inbox \in [Sockets -> Seq(Envelope)]
  BY DEF PageShape
<1>1. CASE UNCHANGED <<peers, trip, strays, screen, shown, room>>
  BY <1>1, StraysUntouched
<1>2. CASE Continue \/ LoginAnswers \/ \E g \in Rooms : ChooseRoom(g)
  BY <1>2 DEF Continue, LoginAnswers, ChooseRoom, storeVars, history,
              StrayInv, OnlyStraysCross, NewcomersAreStrays, Mounted, Leaving
<1>3. CASE SwapScreen
  <2>1. UNCHANGED <<peers, trip, strays, screen, room>> /\ shown' = screen /\ shown # screen
    BY <1>3 DEF SwapScreen, storeVars, history
  <2>2. QED
    BY <2>1 DEF StrayInv, OnlyStraysCross, NewcomersAreStrays, Mounted, Leaving
<1>4. CASE Leave
  BY <1>4 DEF Leave, NoPeers, StrayInv, OnlyStraysCross, NewcomersAreStrays, Mounted, Leaving
<1>5. ASSUME NEW s \in Sockets, OnMessage(s) PROVE StrayInv'
  <2> DEFINE m == Head(inbox[s])
  <2>0. /\ m \in Envelope /\ inbox[s] # <<>> /\ inbox[s] \in Seq(Envelope)
        /\ UNCHANGED <<screen, shown, room>>
    BY <1>0, <1>5 DEF OnMessage, pageVars
  <2>1. CASE ~(Mounted /\ active = s)
    BY <1>1, <1>5, <2>0, <2>1 DEF OnMessage, storeVars, history
  <2>2. CASE Mounted /\ active = s /\ m.kind = "here"
    <3>1. m.peer \in Peers
      BY <2>0, <2>2 DEF Envelope
    <3>2. HearOf(m.peer, room)
      BY <1>5, <2>2 DEF OnMessage, ConnInv, ActiveIsOurs
    <3>3. PICK p \in Peers : HearOf(p, room)
      BY <3>1, <3>2
    <3>4. /\ \A r \in Peers : peers'[r] = IF r = p THEN room ELSE peers[r]
          /\ strays' = IF Leaving THEN strays \cup {p} ELSE strays \ {p}
          /\ trip' = trip /\ p # "trip"
      BY <1>0, <3>3 DEF HearOf
    <3>5. CASE Leaving
      BY <2>0, <2>2, <3>4, <3>5 DEF StrayInv, OnlyStraysCross, NewcomersAreStrays, Mounted, Leaving
    <3>6. CASE ~Leaving
      BY <2>0, <2>2, <3>4, <3>6 DEF StrayInv, OnlyStraysCross, NewcomersAreStrays, Mounted, Leaving
    <3>7. QED
      BY <3>5, <3>6
  <2>3. CASE Mounted /\ active = s /\ m.kind = "gone"
    <3>1. m.peer \in Peers
      BY <2>0, <2>3 DEF Envelope
    <3>2. RemovePeer(m.peer)
      BY <1>5, <2>3 DEF OnMessage
    <3>3. QED
      BY <1>0, <2>0, <3>1, <3>2
      DEF RemovePeer, StrayInv, OnlyStraysCross, NewcomersAreStrays, Mounted, Leaving
  <2>4. CASE Mounted /\ active = s /\ m.kind = "trip_create"
    <3>1. m.trip.home = sock[s].room
      <4>1. HomesAt(inbox[s], sock[s].room)
        BY DEF WireInv
      <4>2. 1 \in DOMAIN inbox[s] /\ m = inbox[s][1]
        BY <2>0
      <4>3. QED
        BY <2>4, <4>1, <4>2 DEF HomesAt
    <3>2. sock[s].room = room
      BY <2>4 DEF ConnInv, ActiveIsOurs
    <3>3. SetTrip(m.trip) /\ UNCHANGED peers
      BY <1>5, <2>4 DEF OnMessage, TripEnvelope
    <3>4. QED
      BY <2>0, <2>4, <3>1, <3>2, <3>3, SetTripStrays
  <2>5. CASE Mounted /\ active = s /\ m.kind = "trip_end"
    <3>1. SetTrip(None) /\ UNCHANGED peers
      BY <1>5, <2>5 DEF OnMessage, TripEnvelope
    <3>2. QED
      BY <2>0, <2>5, <3>1, SetTripStrays
  <2>6. QED
    BY <2>0, <2>1, <2>2, <2>3, <2>4, <2>5 DEF Envelope
<1>6. ASSUME NEW f \in Fetches, FetchApplies(f) PROVE StrayInv'
  <2> DEFINE t == fetch[f].trip
  <2>0. UNCHANGED <<peers, screen, shown, room>>
    BY <1>6 DEF FetchApplies, pageVars
  <2>1. CASE fetch[f].alive /\ t # None /\ trip = None
    <3>1. SetTrip(t)
      BY <1>6, <2>1 DEF FetchApplies
    <3>2. Mounted /\ t.home = room
      BY <2>1 DEF FetchHomes
    <3>3. QED
      BY <2>0, <3>1, <3>2, SetTripStrays
  <2>2. CASE ~(fetch[f].alive /\ t # None /\ trip = None)
    <3>1. fetch[f].alive \in BOOLEAN
      BY DEF PageShape, Fetch
    <3>2. UNCHANGED <<trip, strays>>
      BY <1>6, <2>2, <3>1 DEF FetchApplies, history
    <3>3. QED
      BY <1>1, <2>0, <3>2
  <2>3. QED
    BY <2>1, <2>2
<1>7. CASE StartNavigation
  <2>1. PICK i \in TripIds : SetTrip([id |-> i, home |-> room, mine |-> TRUE])
    BY <1>7 DEF StartNavigation
  <2>2. Mounted /\ UNCHANGED <<peers, screen, shown, room>>
    BY <1>7 DEF StartNavigation, pageVars
  <2>3. QED
    BY <2>1, <2>2, SetTripStrays
<1>8. CASE ClosePanel
  BY <1>8, SetTripStrays DEF ClosePanel, pageVars
<1>9. QED
  <2> USE <1>1 DEF pageVars, storeVars, history
  <2>1. CASE UserNext
    BY <2>1, <1>2, <1>4, <1>7, <1>8 DEF UserNext, StartLogin, EndTrip
  <2>2. CASE LoginAnswers \/ Retry
    BY <2>2, <1>2 DEF Retry
  <2>3. ASSUME NEW s \in Sockets, SocketNext(s) PROVE StrayInv'
    BY <2>3, <1>5 DEF SocketNext, OnOpen, SocketFails, OnClose
  <2>4. ASSUME NEW f \in Fetches, FetchNext(f) PROVE StrayInv'
    BY <2>4, <1>6 DEF FetchNext, FetchAnswered, FetchFails
  <2>5. CASE HubNext
    BY <2>5
    DEF HubNext, HubAdmits, HubReads, HubUnregisters, Recycle, OtherCreates, OtherEnds, OthersLeave,
        PeerShows, HubRestarts
  <2>6. QED
    BY <1>3, <2>1, <2>2, <2>3, <2>4, <2>5 DEF Next
-----------------------------------------------------------------------------
(* The theorems. *)

\* The inductive invariant of the page.
PageInv ==
    /\ PageShape /\ Addressed /\ MembersAreSockets
    /\ ConnInv /\ WireInv /\ FetchHomes /\ StrayInv

\* A page starts in it.
LEMMA PageInitial ==
    ASSUME Init
    PROVE  PageInv
<1> USE SessionAssumption
<1>1. PageShape
  <2>1. FreeSocket \in Socket /\ IdleFetch \in Fetch /\ NoPeers \in [Peers -> Rooms \cup {None}]
    BY DEF Socket, FreeSocket, Fetch, IdleFetch, NoPeers
  <2>2. << >> \in Seq(Envelope) /\ << >> \in Seq(Request)
    OBVIOUS
  <2>3. /\ sock \in [Sockets -> Socket] /\ fetch \in [Fetches -> Fetch]
        /\ peers \in [Peers -> Rooms \cup {None}]
        /\ hubTrip \in [Rooms -> Trip \cup {None}] /\ member \in [Sockets -> BOOLEAN]
    BY <2>1 DEF Init
  <2>4. inbox \in [Sockets -> Seq(Envelope)] /\ outbox \in [Sockets -> Seq(Request)]
    BY <2>2 DEF Init
  <2>5. /\ screen \in Screens /\ shown \in Screens /\ room \in Rooms /\ logins \in 0 .. MaxLogins
    BY DEF Init, Screens
  <2>6. /\ active = None /\ storeWs = None /\ timer = FALSE
        /\ trip = None /\ strays = {} /\ excused = TRUE /\ met = {}
    BY DEF Init
  <2>7. QED
    BY <2>3, <2>4, <2>5, <2>6 DEF PageShape
<1>2. Addressed /\ MembersAreSockets /\ ConnInv
  BY DEF Init, Addressed, MembersAreSockets, ConnInv, SingleConnection, ActiveIsOurs,
         NeverStranded, Live, Mounted, FreeSocket, IdleFetch
<1>3. WireInv /\ FetchHomes /\ StrayInv
  BY DEF Init, WireInv, HubHomes, HomesAt, Quiet, FetchHomes, IdleFetch, StrayInv,
         OnlyStraysCross, NewcomersAreStrays, Mounted, Leaving, NoPeers
<1>4. QED
  BY <1>1, <1>2, <1>3 DEF PageInv

\* Nothing changes, nothing breaks.
LEMMA PageStutters ==
    ASSUME PageInv, UNCHANGED vars
    PROVE  PageInv'
<1> USE DEF vars, pageVars, netVars, storeVars, hubVars, history
<1>1. PageShape' /\ Addressed' /\ MembersAreSockets'
  BY DEF PageInv, PageShape, Addressed, MembersAreSockets, Live
<1>2. ConnInv' /\ WireInv'
  BY ConnUntouched, WireUntouched DEF PageInv
<1>3. FetchHomes' /\ StrayInv'
  BY FetchUntouched, StraysUntouched DEF PageInv
<1>4. QED
  BY <1>1, <1>2, <1>3 DEF PageInv

\* Every step of the page, the network and the hub keeps it.
LEMMA PageInductive ==
    ASSUME PageInv, [Next]_vars
    PROVE  PageInv'
<1>1. CASE Next
  <2>1. PageShape' /\ Addressed' /\ MembersAreSockets'
    BY <1>1, TypeInductive, MembersInductive DEF PageInv
  <2>2. ConnInv' /\ WireInv'
    BY <1>1, <2>1, ConnInductive, WireInductive DEF PageInv
  <2>3. FetchHomes' /\ StrayInv'
    BY <1>1, FetchInductive, StraysInductive DEF PageInv, WireInv
  <2>4. QED
    BY <2>1, <2>2, <2>3 DEF PageInv
<1>2. CASE UNCHANGED vars
  BY <1>2, PageStutters
<1>3. QED
  BY <1>1, <1>2

\* The page's state always has the shape the code gives it, and a trip is kept
\* by the hub, and sent on a socket, under its own room (App.tsx 823-1011, hub.go 188-204, 476-501).
THEOREM PageTyped == Spec => []TypeOK
<1>1. PageInv => TypeOK
  BY DEF PageInv, TypeOK, WireInv, HubHomes, HomesAt
<1>2. QED
  BY <1>1, PageInitial, PageInductive, PTL DEF Spec

\* The page never has two connections, a timer beside a connection, or a connection that
\* outlives its screen (App.tsx 861-872, 990-1011).
THEOREM OneConnection == Spec => []SingleConnection
<1>1. PageInv => SingleConnection
  BY DEF PageInv, ConnInv
<1>2. QED
  BY <1>1, PageInitial, PageInductive, PTL DEF Spec

\* A mounted map is never left without a connection, a close event or the timer to come
\* (App.tsx 990-997).
THEOREM Reconnects == Spec => []NeverStranded
<1>1. PageInv => NeverStranded
  BY DEF PageInv, ConnInv
<1>2. QED
  BY <1>1, PageInitial, PageInductive, PTL DEF Spec

\* A map shows nothing of another room but what came in after Leave (App.tsx 1147-1157).
THEOREM RoomsStayApart == Spec => []OnlyStraysCross
<1>1. PageInv => OnlyStraysCross
  BY DEF PageInv, StrayInv
<1>2. QED
  BY <1>1, PageInitial, PageInductive, PTL DEF Spec

-----------------------------------------------------------------------------
(* The trip at rest: what is under way on a queue, and where it leads. *)

IsTrip(m) == m.kind \in {"trip_create", "trip_end"}
Means(m) == IF m.kind = "trip_create" THEN m.trip ELSE None

NoTrips(q) == \A i \in DOMAIN q : ~IsTrip(q[i])

\* The last trip envelope of a queue says t.
LastIs(q, t) == \E i \in DOMAIN q :
    /\ IsTrip(q[i]) /\ Means(q[i]) = t
    /\ \A j \in DOMAIN q : j > i => ~IsTrip(q[j])

\* A page that shows v shows t once it has read the queue.
Leads(q, v, t) == LastIs(q, t) \/ (NoTrips(q) /\ v = t)

Creates(q) == \E i \in DOMAIN q : q[i].kind = "trip_create"

Asking == \E f \in Fetches : fetch[f].alive

\* Trip envelopes come to a socket the hub knows, and the last one is right.
Told == NoTrips(inbox[active]) \/ (member[active] /\ LastIs(inbox[active], hubTrip[room]))

\* A socket that the hub knows before it is open has been sent the trip.
Greeted == member[active] /\ hubTrip[room] # None => ~NoTrips(inbox[active])

\* The page is on its way to the trip of the hub, or to create its own there.
Follows ==
    /\ member[active] /\ hubTrip[room] # None => Leads(inbox[active], trip, hubTrip[room])
    /\ ~member[active] \/ hubTrip[room] = None =>
          Asking \/ Creates(outbox[active]) \/ Leads(inbox[active], trip, None)

TripInv == active # None =>
    /\ Live(active) => Told
    /\ sock[active].at = "connecting" => Greeted
    /\ sock[active].at = "open" /\ ~excused => Follows

\* A trip envelope at the end of a queue is the last word.
LEMMA AppendTrip ==
    ASSUME NEW q \in Seq(Envelope), NEW m \in Envelope, IsTrip(m)
    PROVE  LastIs(Append(q, m), Means(m))
<1>1. Len(q) + 1 \in DOMAIN Append(q, m) /\ Append(q, m)[Len(q) + 1] = m
  OBVIOUS
<1>2. \A j \in DOMAIN Append(q, m) : ~(j > Len(q) + 1)
  OBVIOUS
<1>3. QED
  BY <1>1, <1>2 DEF LastIs

\* Any other envelope at the end changes nothing.
LEMMA AppendOther ==
    ASSUME NEW q \in Seq(Envelope), NEW m \in Envelope, ~IsTrip(m), NEW t
    PROVE  /\ LastIs(q, t) => LastIs(Append(q, m), t)
           /\ NoTrips(q) <=> NoTrips(Append(q, m))
<1>1. /\ DOMAIN q \subseteq DOMAIN Append(q, m)
      /\ \A j \in DOMAIN q : Append(q, m)[j] = q[j]
      /\ \A j \in DOMAIN Append(q, m) : j \in DOMAIN q \/ (j = Len(q) + 1 /\ Append(q, m)[j] = m)
  OBVIOUS
<1>2. NoTrips(q) <=> NoTrips(Append(q, m))
  BY <1>1 DEF NoTrips
<1>3. ASSUME LastIs(q, t) PROVE LastIs(Append(q, m), t)
  <2>1. PICK i \in DOMAIN q : IsTrip(q[i]) /\ Means(q[i]) = t
                              /\ \A j \in DOMAIN q : j > i => ~IsTrip(q[j])
    BY <1>3 DEF LastIs
  <2>2. i \in DOMAIN Append(q, m) /\ Append(q, m)[i] = q[i]
    BY <1>1
  <2>3. \A j \in DOMAIN Append(q, m) : j > i => ~IsTrip(Append(q, m)[j])
    BY <1>1, <2>1
  <2>4. QED
    BY <2>1, <2>2, <2>3 DEF LastIs
<1>4. QED
  BY <1>2, <1>3

\* Reading a queue leads where the queue led.
LEMMA TailLeads ==
    ASSUME NEW q \in Seq(Envelope), q # <<>>, NEW t
    PROVE  /\ LastIs(q, t) => \/ LastIs(Tail(q), t)
                              \/ NoTrips(Tail(q)) /\ IsTrip(Head(q)) /\ Means(Head(q)) = t
           /\ NoTrips(q) => NoTrips(Tail(q)) /\ ~IsTrip(Head(q))
<1>1. /\ \A j \in DOMAIN Tail(q) : j + 1 \in DOMAIN q /\ Tail(q)[j] = q[j + 1]
      /\ \A i \in DOMAIN q : i = 1 \/ (i - 1 \in DOMAIN Tail(q) /\ Tail(q)[i - 1] = q[i])
      /\ 1 \in DOMAIN q /\ Head(q) = q[1]
      /\ DOMAIN q \subseteq Nat /\ DOMAIN Tail(q) \subseteq Nat \ {0}
  OBVIOUS
<1>2. NoTrips(q) => NoTrips(Tail(q)) /\ ~IsTrip(Head(q))
  BY <1>1 DEF NoTrips
<1>3. ASSUME LastIs(q, t)
      PROVE  \/ LastIs(Tail(q), t)
             \/ NoTrips(Tail(q)) /\ IsTrip(Head(q)) /\ Means(Head(q)) = t
  <2>1. PICK i \in DOMAIN q : IsTrip(q[i]) /\ Means(q[i]) = t
                              /\ \A j \in DOMAIN q : j > i => ~IsTrip(q[j])
    BY <1>3 DEF LastIs
  <2>2. \A j \in DOMAIN Tail(q) : j + 1 > i => ~IsTrip(Tail(q)[j])
    BY <1>1, <2>1
  <2>3. CASE i = 1
    BY <1>1, <2>1, <2>2, <2>3 DEF NoTrips
  <2>4. CASE i # 1
    <3>1. i - 1 \in DOMAIN Tail(q) /\ Tail(q)[i - 1] = q[i]
      BY <1>1, <2>4
    <3>2. \A j \in DOMAIN Tail(q) : j > i - 1 => ~IsTrip(Tail(q)[j])
      BY <1>1, <2>2
    <3>3. QED
      BY <2>1, <3>1, <3>2 DEF LastIs
  <2>5. QED
    BY <2>3, <2>4
<1>4. QED
  BY <1>2, <1>3

\* A request to create a trip stays on its way until it is read.
LEMMA CreatesStays ==
    ASSUME NEW q \in Seq(Request), NEW m \in Request
    PROVE  /\ Creates(q) \/ m.kind = "trip_create" => Creates(Append(q, m))
           /\ q # <<>> /\ Creates(q) /\ Head(q).kind # "trip_create" => Creates(Tail(q))
<1>1. /\ \A j \in DOMAIN q : j \in DOMAIN Append(q, m) /\ Append(q, m)[j] = q[j]
      /\ Len(q) + 1 \in DOMAIN Append(q, m) /\ Append(q, m)[Len(q) + 1] = m
  OBVIOUS
<1>2. Creates(q) \/ m.kind = "trip_create" => Creates(Append(q, m))
  BY <1>1 DEF Creates
<1>3. ASSUME q # <<>>, Creates(q), Head(q).kind # "trip_create" PROVE Creates(Tail(q))
  <2>1. PICK i \in DOMAIN q : q[i].kind = "trip_create"
    BY <1>3 DEF Creates
  <2>2. i # 1 /\ i \in Nat
    BY <1>3, <2>1
  <2>3. i - 1 \in DOMAIN Tail(q) /\ Tail(q)[i - 1] = q[i]
    BY <1>3, <2>2
  <2>4. QED
    BY <2>1, <2>3 DEF Creates
<1>4. QED
  BY <1>2, <1>3

\* What concerns the active socket is as it was, or more of it is under way.
LEMMA TripUntouched ==
    ASSUME TripInv, UNCHANGED <<active, room, trip, excused>>,
           active # None =>
              /\ UNCHANGED <<sock[active], inbox[active], member[active], hubTrip[room]>>
              /\ Creates(outbox[active]) => Creates(outbox'[active]),
           Asking => Asking'
    PROVE  TripInv'
<1>1. CASE active = None
  BY <1>1 DEF TripInv
<1>2. CASE active # None
  <2>1. /\ active' = active /\ room' = room /\ trip' = trip /\ excused' = excused
        /\ sock'[active] = sock[active] /\ inbox'[active] = inbox[active]
        /\ member'[active] = member[active] /\ hubTrip'[room] = hubTrip[room]
        /\ Creates(outbox[active]) => Creates(outbox'[active])
    BY <1>2
  <2>2. Told => Told'
    BY <2>1 DEF Told
  <2>3. Greeted => Greeted'
    BY <2>1 DEF Greeted
  <2>4. Follows => Follows'
    BY <2>1 DEF Follows
  <2>5. QED
    BY <1>2, <2>1, <2>2, <2>3, <2>4 DEF TripInv, Live
<1>3. QED
  BY <1>1, <1>2

\* There is no active socket, it is past its life, or nobody knows it yet.
LEMMA TripAnew ==
    ASSUME \/ active' = None
           \/ sock'[active'].at \in {"closing", "closed"}
           \/ /\ sock'[active'].at = "connecting"
              /\ inbox'[active'] = <<>> /\ ~member'[active']
    PROVE  TripInv'
BY DEF TripInv, Told, Greeted, NoTrips, Live

\* Where the hub changes the trip of a room it tells that room's sockets.
LEMMA TripBroadcast ==
    ASSUME PageShape, ActiveIsOurs, TripInv, NEW g \in Rooms, NEW m \in Envelope, IsTrip(m),
           Broadcast(g, m, inbox), hubTrip' = [hubTrip EXCEPT ![g] = Means(m)],
           UNCHANGED <<sock, active, room, trip, excused, member, fetch>>,
           active # None /\ (g # room \/ ~member[active]) =>
              (Creates(outbox[active]) => Creates(outbox'[active]))
    PROVE  TripInv'
<1>0. /\ inbox \in [Sockets -> Seq(Envelope)] /\ hubTrip \in [Rooms -> Trip \cup {None}]
      /\ active \in Sockets \cup {None} /\ room \in Rooms
      /\ inbox' = [s \in Sockets |-> IF s \in Members(g) THEN Append(inbox[s], m) ELSE inbox[s]]
  BY DEF PageShape, Broadcast
<1>1. CASE active = None
  BY <1>1, TripAnew
<1>2. CASE active # None /\ g # room
  <2>1. active \notin Members(g)
    BY <1>2 DEF ActiveIsOurs, Members
  <2>2. hubTrip'[room] = hubTrip[room] /\ inbox'[active] = inbox[active]
    BY <1>0, <1>2, <2>1
  <2>3. Asking => Asking'
    BY DEF Asking
  <2>4. QED
    BY <1>2, <2>2, <2>3, TripUntouched
<1>3. CASE active # None /\ g = room /\ Live(active) /\ member[active]
  <2>1. active \in Members(g)
    BY <1>0, <1>3 DEF ActiveIsOurs, Members
  <2>2. /\ inbox'[active] = Append(inbox[active], m) /\ hubTrip'[room] = Means(m)
        /\ inbox[active] \in Seq(Envelope)
    BY <1>0, <1>3, <2>1
  <2>3. LastIs(inbox'[active], hubTrip'[room])
    BY <2>2, AppendTrip
  <2>4. ~NoTrips(inbox'[active])
    BY <2>3 DEF LastIs, NoTrips
  <2>5. Told' /\ Greeted' /\ Follows'
    BY <1>3, <2>3, <2>4 DEF Told, Greeted, Follows, Leads
  <2>6. QED
    BY <2>5 DEF TripInv
<1>4. CASE active # None /\ g = room /\ Live(active) /\ ~member[active]
  <2>1. inbox'[active] = inbox[active]
    BY <1>0, <1>4 DEF Members
  <2>2. Told' /\ Greeted'
    BY <1>4, <2>1 DEF TripInv, Told, Greeted
  <2>3. Asking => Asking'
    BY DEF Asking
  <2>4. Follows => Follows'
    BY <1>4, <2>1, <2>3 DEF Follows
  <2>5. QED
    BY <1>4, <2>2, <2>4 DEF TripInv
<1>5. CASE active # None /\ ~Live(active)
  BY <1>5 DEF TripInv, Live
<1>6. QED
  BY <1>1, <1>2, <1>3, <1>4, <1>5

\* A group that goes with its trip is not one the active socket is in.
LEMMA TripForgotten ==
    ASSUME PageShape, ActiveIsOurs, TripInv, NEW g \in Rooms, active \notin InGroup(g),
           hubTrip' = [hubTrip EXCEPT ![g] = None],
           UNCHANGED <<sock, active, room, trip, excused, fetch, inbox>>,
           active # None => UNCHANGED <<member[active], outbox[active]>>
    PROVE  TripInv'
<1>1. Asking => Asking'
  BY DEF Asking
<1>2. hubTrip \in [Rooms -> Trip \cup {None}] /\ active \in Sockets \cup {None}
  BY DEF PageShape
<1>3. CASE active = None
  BY <1>3, TripAnew
<1>4. CASE active # None /\ g # room
  <2>1. hubTrip'[room] = hubTrip[room]
    BY <1>2, <1>4
  <2>2. QED
    BY <1>1, <1>4, <2>1, TripUntouched
<1>5. CASE active # None /\ g = room
  <2>1. ~member[active] /\ ~member'[active]
    BY <1>2, <1>5 DEF InGroup, ActiveIsOurs
  <2>2. /\ Told => Told'
        /\ Greeted'
        /\ Follows => Follows'
    BY <1>1, <1>5, <2>1 DEF Told, Greeted, Follows
  <2>3. QED
    BY <1>5, <2>2 DEF TripInv, Live
<1>6. QED
  BY <1>3, <1>4, <1>5

\* Positions that are broadcast say nothing of the trip.
LEMMA PeerBroadcast ==
    ASSUME PageShape, TripInv, NEW g \in Rooms, NEW m \in Envelope, ~IsTrip(m),
           Broadcast(g, m, inbox),
           UNCHANGED <<sock, active, room, trip, excused, member, fetch, hubTrip, outbox>>
    PROVE  TripInv'
<1>0. /\ inbox \in [Sockets -> Seq(Envelope)] /\ active \in Sockets \cup {None}
      /\ inbox' = [s \in Sockets |-> IF s \in Members(g) THEN Append(inbox[s], m) ELSE inbox[s]]
  BY DEF PageShape, Broadcast
<1>1. CASE active = None
  BY <1>1, TripAnew
<1>2. CASE active # None
  <2> DEFINE q == inbox[active]
  <2>1. q \in Seq(Envelope) /\ (inbox'[active] = q \/ inbox'[active] = Append(q, m))
    BY <1>0, <1>2
  <2>2. \A t : /\ LastIs(q, t) => LastIs(inbox'[active], t)
               /\ NoTrips(q) <=> NoTrips(inbox'[active])
    BY <2>1, AppendOther
  <2>3. (Told => Told') /\ (Greeted => Greeted')
    BY <2>2 DEF Told, Greeted
  <2>4. Asking => Asking'
    BY DEF Asking
  <2>5. Follows => Follows'
    BY <2>2, <2>4 DEF Follows, Leads
  <2>6. QED
    BY <1>2, <2>3, <2>5 DEF TripInv, Live
<1>3. QED
  BY <1>1, <1>2

\* connect() takes a socket on which nothing is under way, and which the hub
\* does not know.
LEMMA TripConnect ==
    ASSUME PageShape, MembersAreSockets, WireInv, TripInv, Connect(room),
           UNCHANGED <<room, trip, excused, member, inbox, hubTrip, outbox, fetch>>
    PROVE  TripInv'
<1>1. CASE Live(active)
  <2>1. UNCHANGED <<sock, active>>
    BY <1>1 DEF Connect
  <2>2. Asking => Asking'
    BY DEF Asking
  <2>3. QED
    BY <2>1, <2>2, TripUntouched
<1>2. CASE ~Live(active)
  <2>1. PICK s \in Sockets : /\ sock[s] = FreeSocket
                             /\ sock' = [sock EXCEPT ![s] = [at |-> "connecting", room |-> room]]
                             /\ active' = s
    BY <1>2 DEF Connect
  <2>2. sock'[s].at = "connecting"
    BY <2>1 DEF PageShape
  <2>3. inbox[s] = <<>> /\ ~member[s]
    BY <2>1 DEF WireInv, Quiet, MembersAreSockets, FreeSocket
  <2>4. QED
    BY <2>1, <2>2, <2>3, TripAnew
<1>3. QED
  BY <1>1, <1>2

\* What the page says reaches the active socket's queue, when it is open.
LEMMA SentOnActive ==
    ASSUME PageShape, ConnInv, NEW m \in Request, Sent(m), active # None
    PROVE  /\ Creates(outbox[active]) => Creates(outbox'[active])
           /\ sock[active].at = "open" /\ m.kind = "trip_create" => Creates(outbox'[active])
<1>1. storeWs = active /\ active \in Sockets /\ outbox \in [Sockets -> Seq(Request)]
  BY DEF PageShape, ConnInv, ActiveIsOurs
<1>2. CASE sock[active].at = "open"
  <2>1. outbox' = [outbox EXCEPT ![active] = Append(@, m)]
    BY <1>1, <1>2 DEF Sent
  <2>2. outbox'[active] = Append(outbox[active], m) /\ outbox[active] \in Seq(Request)
    BY <1>1, <2>1
  <2>3. QED
    BY <2>2, CreatesStays
<1>3. CASE sock[active].at # "open"
  BY <1>1, <1>3 DEF Sent
<1>4. QED
  BY <1>2, <1>3

\* The sockets' events.
LEMMA TripSocket ==
    ASSUME PageShape, ConnInv, WireInv, TripInv, NEW s \in Sockets, SocketNext(s)
    PROVE  TripInv'
<1>0. /\ sock \in [Sockets -> Socket] /\ inbox \in [Sockets -> Seq(Envelope)]
      /\ fetch \in [Fetches -> Fetch] /\ active \in Sockets \cup {None}
  BY DEF PageShape
<1>1. CASE OnOpen(s)
  <2>1. /\ sock' = [sock EXCEPT ![s].at = "open"] /\ sock[s].at = "connecting"
        /\ UNCHANGED <<active, room, trip, member, inbox, outbox, hubTrip>>
    BY <1>1 DEF OnOpen, pageVars, storeVars, hubVars
  <2>2. CASE active = s
    <3>1. Mounted /\ s # None
      BY <1>0, <2>2, SessionAssumption DEF ConnInv, SingleConnection
    <3>2. PICK f \in Fetches :
             fetch' = [fetch EXCEPT ![f] = [at |-> "asked", room |-> room,
                                            alive |-> TRUE, trip |-> None]]
      BY <1>1, <2>2, <3>1 DEF OnOpen
    <3>3. Asking'
      BY <1>0, <3>2 DEF Asking
    <3>4. Told /\ Greeted
      BY <2>1, <2>2, <3>1 DEF TripInv, Live
    <3>5. Told' /\ Greeted'
      BY <2>1, <3>4 DEF Told, Greeted
    <3>6. Follows'
      BY <2>1, <3>3, <3>4 DEF Told, Greeted, Follows, Leads
    <3>7. QED
      BY <3>5, <3>6 DEF TripInv
  <2>3. CASE active # s
    <3>1. UNCHANGED <<fetch, excused>>
      BY <1>1, <2>3 DEF OnOpen
    <3>2. active # None => sock'[active] = sock[active]
      BY <1>0, <2>1, <2>3
    <3>3. Asking => Asking'
      BY <3>1 DEF Asking
    <3>4. QED
      BY <2>1, <3>1, <3>2, <3>3, TripUntouched
  <2>4. QED
    BY <2>2, <2>3
<1>2. CASE SocketFails(s)
  <2>1. /\ sock' = [sock EXCEPT ![s].at = "closing"] /\ Live(s) /\ UNCHANGED active
    BY <1>2 DEF SocketFails
  <2>2. active = s
    BY <2>1 DEF ConnInv, SingleConnection
  <2>3. QED
    BY <1>0, <2>1, <2>2, TripAnew DEF Socket
<1>3. CASE OnClose(s)
  <2>1. CASE active = s
    <3>1. active' = None
      BY <1>0, <1>3, <2>1, SessionAssumption DEF OnClose, ConnInv, SingleConnection
    <3>2. QED
      BY <3>1, TripAnew
  <2>2. CASE active # s
    <3>1. /\ UNCHANGED <<active, room, trip, excused, member, hubTrip, outbox, fetch>>
          /\ sock' = [sock EXCEPT ![s].at = "closed"] /\ inbox' = [inbox EXCEPT ![s] = <<>>]
      BY <1>3, <2>2 DEF OnClose, pageVars, storeVars
    <3>2. active # None => sock'[active] = sock[active] /\ inbox'[active] = inbox[active]
      BY <1>0, <2>2, <3>1
    <3>3. Asking => Asking'
      BY <3>1 DEF Asking
    <3>4. QED
      BY <3>1, <3>2, <3>3, TripUntouched
  <2>3. QED
    BY <2>1, <2>2
<1>4. CASE OnMessage(s)
  <2> DEFINE q == inbox[s]
             m == Head(q)
  <2>0. /\ inbox' = [inbox EXCEPT ![s] = Tail(@)] /\ q # <<>> /\ q \in Seq(Envelope) /\ m \in Envelope
        /\ sock[s].at \in {"open", "closing"}
        /\ UNCHANGED <<sock, active, room, member, hubTrip, outbox, fetch>>
    BY <1>0, <1>4 DEF OnMessage, pageVars, netVars
  <2>1. Asking => Asking'
    BY <2>0 DEF Asking
  <2>2. CASE active # s
    <3>1. UNCHANGED <<trip, excused>>
      BY <1>4, <2>2 DEF OnMessage, storeVars, history
    <3>2. active # None => inbox'[active] = inbox[active]
      BY <1>0, <2>0, <2>2
    <3>3. QED
      BY <2>0, <2>1, <3>1, <3>2, TripUntouched
  <2>3. CASE active = s /\ sock[s].at = "closing"
    BY <2>0, <2>3, TripAnew
  <2>4. CASE active = s /\ sock[s].at = "open"
    <3>1. Mounted /\ s # None
      BY <1>0, <2>4, SessionAssumption DEF ConnInv, SingleConnection
    <3>2. inbox'[s] = Tail(q)
      BY <1>0, <2>0
    <3>3. Told /\ (~excused => Follows)
      BY <2>4, <3>1 DEF TripInv, Live
    <3>4. \A t : LastIs(q, t) => \/ LastIs(Tail(q), t)
                                 \/ NoTrips(Tail(q)) /\ IsTrip(m) /\ Means(m) = t
      BY <2>0, TailLeads
    <3>5. NoTrips(q) => NoTrips(Tail(q)) /\ ~IsTrip(m)
      BY <2>0, TailLeads
    <3>6. Told'
      BY <2>0, <2>4, <3>2, <3>3, <3>4, <3>5 DEF Told
    <3>7. CASE IsTrip(m)
      <4>1. trip' = Means(m)
        BY <1>4, <2>0, <2>4, <3>1, <3>7
        DEF OnMessage, IsTrip, Means, TripEnvelope, SetTrip, Envelope
      <4>2. member[s] /\ LastIs(q, hubTrip[room])
        BY <2>4, <3>3, <3>5, <3>7 DEF Told
      <4>3. Leads(Tail(q), trip', hubTrip[room])
        BY <3>4, <4>1, <4>2 DEF Leads
      <4>4. Follows'
        BY <2>0, <2>4, <3>2, <4>2, <4>3 DEF Follows
      <4>5. QED
        BY <2>0, <2>4, <3>6, <4>4 DEF TripInv
    <3>8. CASE ~IsTrip(m)
      <4>1. UNCHANGED <<trip, excused>>
        BY <1>4, <2>0, <2>4, <3>1, <3>8 DEF OnMessage, IsTrip, HearOf, RemovePeer, Envelope
      <4>2. \A t : Leads(q, trip, t) => Leads(Tail(q), trip, t)
        BY <3>4, <3>5, <3>8 DEF Leads
      <4>3. Follows => Follows'
        BY <2>0, <2>1, <2>4, <3>2, <4>1, <4>2 DEF Follows
      <4>4. QED
        BY <2>0, <2>4, <3>3, <3>6, <4>1, <4>3 DEF TripInv
    <3>9. QED
      BY <3>7, <3>8
  <2>5. QED
    BY <2>0, <2>2, <2>3, <2>4
<1>5. QED
  BY <1>1, <1>2, <1>3, <1>4 DEF SocketNext

\* The requests for the trip: what is answered is what the hub has, or excused.
LEMMA TripFetch ==
    ASSUME PageShape, ConnInv, TripInv, NEW f \in Fetches, FetchNext(f)
    PROVE  TripInv'
<1>0. fetch \in [Fetches -> Fetch] /\ active \in Sockets \cup {None}
      /\ fetch[f].alive \in BOOLEAN
  BY DEF PageShape, Fetch
<1>1. CASE FetchAnswered(f)
  <2>1. PICK t : fetch' = [fetch EXCEPT ![f].at = "answered", ![f].trip = t]
    BY <1>1 DEF FetchAnswered
  <2>2. \A e \in Fetches : fetch'[e].alive = fetch[e].alive
    <3>1. SUFFICES ASSUME NEW e \in Fetches PROVE fetch'[e].alive = fetch[e].alive
      OBVIOUS
    <3>2. fetch[e] \in Fetch
      BY <1>0
    <3>3. QED
      BY <1>0, <2>1, <3>2 DEF Fetch
  <2>3. Asking => Asking'
    BY <2>2 DEF Asking
  <2>4. QED
    BY <1>1, <2>3, TripUntouched DEF FetchAnswered, pageVars, netVars, storeVars, hubVars, history
<1>2. ASSUME fetch' = [fetch EXCEPT ![f] = IdleFetch], ~fetch[f].alive PROVE Asking => Asking'
  BY <1>0, <1>2 DEF Asking
<1>3. CASE FetchFails(f)
  <2>1. /\ fetch' = [fetch EXCEPT ![f] = IdleFetch] /\ excused' = (excused \/ fetch[f].alive)
        /\ UNCHANGED <<sock, active, room, trip, member, inbox, outbox, hubTrip>>
    BY <1>3 DEF FetchFails, pageVars, netVars, storeVars, hubVars
  <2>2. CASE fetch[f].alive
    <3>1. excused' = TRUE
      BY <2>1, <2>2
    <3>2. QED
      BY <2>1, <3>1 DEF TripInv, Told, Greeted, Live
  <2>3. CASE ~fetch[f].alive
    <3>1. excused' = excused
      BY <2>1, <2>3 DEF PageShape
    <3>2. QED
      BY <1>2, <2>1, <2>3, <3>1, TripUntouched
  <2>4. QED
    BY <2>2, <2>3
<1>4. CASE FetchApplies(f)
  <2> DEFINE t == fetch[f].trip
  <2>1. /\ fetch' = [fetch EXCEPT ![f] = IdleFetch]
        /\ UNCHANGED <<sock, active, room, member, inbox, hubTrip>>
    BY <1>4 DEF FetchApplies, pageVars, netVars
  <2>2. CASE active = None
    BY <2>1, <2>2, TripAnew
  <2>3. CASE active # None /\ ~fetch[f].alive
    <3>1. UNCHANGED <<trip, outbox, excused>>
      BY <1>4, <2>3 DEF FetchApplies, history
    <3>2. QED
      BY <1>2, <2>1, <2>3, <3>1, TripUntouched
  <2>4. ASSUME active # None, Follows'
                  \/ excused'
                  \/ (excused' = excused /\ (Follows /\ Told /\ sock[active].at = "open" => Follows'))
        PROVE  TripInv'
    BY <2>1, <2>4 DEF TripInv, Told, Greeted, Live
  <2>5. CASE active # None /\ fetch[f].alive /\ t = None /\ trip = None
    <3>1. UNCHANGED <<trip, outbox, excused>>
      BY <1>4, <2>5 DEF FetchApplies, history
    <3>2. ASSUME Told, Follows PROVE Follows'
      <4>1. ~member[active] \/ hubTrip[room] = None => Leads(inbox[active], trip, None)
        BY <2>5, <3>2 DEF Told, Leads
      <4>2. QED
        BY <2>1, <3>1, <3>2, <4>1 DEF Follows
    <3>3. QED
      BY <2>4, <2>5, <3>1, <3>2
  <2>6. CASE active # None /\ fetch[f].alive /\ t # None
    <3>1. excused' = (excused \/ Outdated(t))
      BY <1>4, <2>6 DEF FetchApplies
    <3>2. CASE excused \/ Outdated(t)
      <4>1. excused' = TRUE
        BY <3>1, <3>2
      <4>2. QED
        BY <2>4, <2>6, <4>1
    <3>3. CASE ~excused /\ ~Outdated(t)
      <4>1. excused' = excused
        BY <3>1, <3>3 DEF PageShape
      <4>2. t = hubTrip[room] /\ member[active]
        BY <3>3 DEF Outdated
      <4>3. CASE trip = None
        <5>1. trip' = t
          BY <1>4, <2>6, <4>3 DEF FetchApplies, SetTrip
        <5>2. ASSUME Told PROVE Follows'
          BY <2>1, <2>6, <4>2, <5>1, <5>2 DEF Told, Follows, Leads
        <5>3. QED
          BY <2>4, <2>6, <4>1, <5>2
      <4>4. CASE trip # None
        <5>1. trip' = trip
          BY <1>4, <2>6, <4>4 DEF FetchApplies
        <5>2. ASSUME Follows PROVE Follows'
          BY <2>1, <2>6, <4>2, <5>1, <5>2 DEF Follows
        <5>3. QED
          BY <2>4, <2>6, <4>1, <5>2
      <4>5. QED
        BY <4>3, <4>4
    <3>4. QED
      BY <3>2, <3>3
  <2>7. CASE active # None /\ fetch[f].alive /\ t = None /\ trip # None
    <3>1. Sent([kind |-> "trip_create"]) /\ UNCHANGED <<trip, excused>>
      BY <1>4, <2>7 DEF FetchApplies, history
    <3>2. [kind |-> "trip_create"] \in Request
      BY DEF Request
    <3>3. sock[active].at = "open" => Creates(outbox'[active])
      BY <2>7, <3>1, <3>2, SentOnActive
    <3>4. ASSUME Follows, sock[active].at = "open" PROVE Follows'
      BY <2>1, <3>1, <3>3, <3>4 DEF Follows
    <3>5. QED
      BY <2>4, <2>7, <3>1, <3>4
  <2>8. QED
    BY <1>0, <2>2, <2>3, <2>5, <2>6, <2>7
<1>5. QED
  BY <1>1, <1>3, <1>4 DEF FetchNext

\* The hub: a trip that changes is told to whom it concerns, a newcomer is
\* told the trip there is, and a restart breaks every connection.
LEMMA TripHub ==
    ASSUME PageShape, Addressed, MembersAreSockets, ConnInv, WireInv, TripInv, HubNext
    PROVE  TripInv'
<1> USE SessionAssumption
<1>0. /\ sock \in [Sockets -> Socket] /\ inbox \in [Sockets -> Seq(Envelope)]
      /\ member \in [Sockets -> BOOLEAN] /\ outbox \in [Sockets -> Seq(Request)]
      /\ hubTrip \in [Rooms -> Trip \cup {None}] /\ active \in Sockets \cup {None}
      /\ ActiveIsOurs
  BY DEF PageShape, ConnInv
<1>1. ASSUME NEW g \in Rooms, NEW t \in Trip, Broadcast(g, [kind |-> "trip_create", trip |-> t], inbox),
             hubTrip' = [hubTrip EXCEPT ![g] = t],
             UNCHANGED <<sock, active, room, trip, excused, member, fetch>>,
             active # None /\ (g # room \/ ~member[active]) =>
                (Creates(outbox[active]) => Creates(outbox'[active]))
      PROVE  TripInv'
  <2> DEFINE m == [kind |-> "trip_create", trip |-> t]
  <2>1. m \in Envelope /\ IsTrip(m) /\ Means(m) = t
    BY DEF Envelope, IsTrip, Means
  <2>2. Broadcast(g, m, inbox) /\ hubTrip' = [hubTrip EXCEPT ![g] = Means(m)]
    BY <1>1, <2>1
  <2> HIDE DEF m
  <2>3. QED
    BY <1>0, <1>1, <2>1, <2>2, TripBroadcast
<1>2. ASSUME NEW g \in Rooms, Broadcast(g, [kind |-> "trip_end"], inbox),
             hubTrip' = [hubTrip EXCEPT ![g] = None],
             UNCHANGED <<sock, active, room, trip, excused, member, fetch>>,
             active # None /\ (g # room \/ ~member[active]) =>
                (Creates(outbox[active]) => Creates(outbox'[active]))
      PROVE  TripInv'
  <2> DEFINE m == [kind |-> "trip_end"]
  <2>1. m \in Envelope /\ IsTrip(m) /\ Means(m) = None
    BY DEF Envelope, IsTrip, Means
  <2>2. Broadcast(g, m, inbox) /\ hubTrip' = [hubTrip EXCEPT ![g] = Means(m)]
    BY <1>2, <2>1
  <2> HIDE DEF m
  <2>3. QED
    BY <1>0, <1>2, <2>1, <2>2, TripBroadcast
<1>3. ASSUME NEW s \in Sockets, HubAdmits(s), Live(s) PROVE TripInv'
  <2>1. /\ member' = [member EXCEPT ![s] = TRUE] /\ ~member[s] /\ Live(s)
        /\ inbox' = [inbox EXCEPT ![s] =
                       IF hubTrip[sock[s].room] = None THEN <<>>
                       ELSE <<[kind |-> "trip_create", trip |-> hubTrip[sock[s].room]]>>]
        /\ UNCHANGED <<sock, active, room, trip, excused, fetch, hubTrip, outbox>>
    BY <1>0, <1>3 DEF HubAdmits, MembersAreSockets, pageVars, netVars, storeVars, history
  <2>2. active = s /\ s # None /\ sock[s].room = room
    BY <1>0, <2>1 DEF ConnInv, SingleConnection, ActiveIsOurs
  <2>3. member'[s] /\ NoTrips(inbox[s])
    BY <1>0, <2>1, <2>2 DEF TripInv, Told
  <2>4. Asking => Asking'
    BY <2>1 DEF Asking
  <2>5. CASE hubTrip[room] = None
    <3>1. inbox'[s] = <<>>
      BY <1>0, <2>1, <2>2, <2>5
    <3>2. NoTrips(inbox'[s])
      BY <3>1 DEF NoTrips
    <3>3. ~LastIs(inbox[s], None)
      BY <2>3 DEF LastIs, NoTrips
    <3>4. Told' /\ Greeted' /\ (Follows => Follows')
      BY <2>1, <2>2, <2>3, <2>4, <2>5, <3>2, <3>3 DEF Told, Greeted, Follows, Leads
    <3>5. QED
      BY <2>1, <2>2, <3>4 DEF TripInv
  <2>6. CASE hubTrip[room] # None
    <3> DEFINE m == [kind |-> "trip_create", trip |-> hubTrip[room]]
    <3>1. inbox'[s] = <<m>> /\ IsTrip(m) /\ Means(m) = hubTrip[room]
      BY <1>0, <2>1, <2>2, <2>6 DEF IsTrip, Means
    <3> HIDE DEF m
    <3>2. 1 \in DOMAIN <<m>> /\ <<m>>[1] = m /\ \A j \in DOMAIN <<m>> : ~(j > 1)
      OBVIOUS
    <3>3. LastIs(inbox'[s], hubTrip[room]) /\ ~NoTrips(inbox'[s])
      BY <3>1, <3>2 DEF LastIs, NoTrips
    <3>4. Told' /\ Greeted' /\ Follows'
      BY <2>1, <2>2, <2>3, <2>6, <3>3 DEF Told, Greeted, Follows, Leads
    <3>5. QED
      BY <3>4 DEF TripInv
  <2>7. QED
    BY <2>5, <2>6
<1>4. ASSUME NEW s \in Sockets, HubReads(s) PROVE TripInv'
  <2> DEFINE g == sock[s].room
  <2>0. /\ g \in Rooms /\ s \in met /\ outbox[s] # <<>>
        /\ outbox' = [outbox EXCEPT ![s] = Tail(@)]
        /\ UNCHANGED <<sock, active, room, trip, excused, member, fetch>>
    BY <1>4 DEF HubReads, Addressed, MembersAreSockets, pageVars, netVars, storeVars, history
  <2>1. CASE active = s /\ ~member[s]
    <3>1. sock[s].at \in {"closing", "closed"}
      BY <1>0, <2>0, <2>1 DEF MembersAreSockets, Live, Socket
    <3>2. QED
      BY <2>0, <2>1, <3>1, TripAnew
  <2> SUFFICES ASSUME active = s => member[s] PROVE TripInv'
    BY <2>1
  <2>11. active # None /\ (g # room \/ ~member[active]) =>
           (Creates(outbox[active]) => Creates(outbox'[active]))
    <3>1. SUFFICES ASSUME active # None, g # room \/ ~member[active]
                   PROVE  outbox'[active] = outbox[active]
      OBVIOUS
    <3>2. active # s
      BY <2>0, <3>1 DEF ConnInv, ActiveIsOurs
    <3>3. QED
      BY <1>0, <2>0, <3>1, <3>2
  <2>2. CASE Head(outbox[s]).kind = "trip_create"
    <3>1. PICK t \in TripIds :
            /\ hubTrip' = [hubTrip EXCEPT ![g] = [id |-> t, home |-> g, mine |-> TRUE]]
            /\ Broadcast(g, [kind |-> "trip_create", trip |-> [id |-> t, home |-> g, mine |-> TRUE]], inbox)
      BY <1>4, <2>2 DEF HubReads
    <3>2. [id |-> t, home |-> g, mine |-> TRUE] \in Trip
      BY <2>0 DEF Trip
    <3>3. QED
      BY <1>1, <2>0, <2>11, <3>1, <3>2
  <2>3. CASE Head(outbox[s]).kind = "trip_end" /\ hubTrip[g] # None /\ hubTrip[g].mine
    <3>1. hubTrip' = [hubTrip EXCEPT ![g] = None] /\ Broadcast(g, [kind |-> "trip_end"], inbox)
      BY <1>4, <2>3 DEF HubReads
    <3>2. QED
      BY <1>2, <2>0, <2>11, <3>1
  <2>4. CASE Head(outbox[s]).kind = "trip_end" /\ ~(hubTrip[g] # None /\ hubTrip[g].mine)
    <3>1. UNCHANGED <<hubTrip, inbox>>
      BY <1>4, <2>4 DEF HubReads
    <3>2. active # None => (Creates(outbox[active]) => Creates(outbox'[active]))
      <4>1. CASE active = s
        <5>1. outbox'[s] = Tail(outbox[s]) /\ outbox[s] \in Seq(Request)
              /\ Head(outbox[s]).kind # "trip_create"
          BY <1>0, <2>0, <2>4
        <5>2. [kind |-> "trip_end"] \in Request
          BY DEF Request
        <5>3. QED
          BY <2>0, <4>1, <5>1, <5>2, CreatesStays
      <4>2. CASE active # s
        BY <1>0, <2>0, <4>2
      <4>3. QED
        BY <4>1, <4>2
    <3>3. Asking => Asking'
      BY <2>0 DEF Asking
    <3>4. QED
      BY <2>0, <3>1, <3>2, <3>3, TripUntouched
  <2>5. QED
    BY <1>4, <2>2, <2>3, <2>4 DEF HubReads
<1>5. ASSUME NEW g \in BusyRooms, OtherCreates(g) PROVE TripInv'
  <2>1. PICK t \in TripIds :
          /\ hubTrip' = [hubTrip EXCEPT ![g] = [id |-> t, home |-> g, mine |-> FALSE]]
          /\ Broadcast(g, [kind |-> "trip_create", trip |-> [id |-> t, home |-> g, mine |-> FALSE]], inbox)
    BY <1>5 DEF OtherCreates
  <2>2. g \in Rooms /\ [id |-> t, home |-> g, mine |-> FALSE] \in Trip
    BY DEF Trip
  <2>3. UNCHANGED <<sock, active, room, trip, excused, member, fetch, outbox>>
    BY <1>5 DEF OtherCreates, pageVars, netVars, storeVars, history
  <2>4. QED
    BY <1>1, <2>1, <2>2, <2>3
<1>6. ASSUME NEW g \in BusyRooms, OtherEnds(g) PROVE TripInv'
  <2>1. /\ g \in Rooms /\ hubTrip' = [hubTrip EXCEPT ![g] = None]
        /\ Broadcast(g, [kind |-> "trip_end"], inbox)
        /\ UNCHANGED <<sock, active, room, trip, excused, member, fetch, outbox>>
    BY <1>6 DEF OtherEnds, pageVars, netVars, storeVars, history
  <2>2. QED
    BY <1>2, <2>1
<1>7. ASSUME NEW g \in BusyRooms, NEW p \in Peers, NEW k \in {"here", "gone"}, PeerShows(g, p, k)
      PROVE  TripInv'
  <2> DEFINE m == [kind |-> k, peer |-> p]
  <2>1. m \in Envelope /\ ~IsTrip(m) /\ g \in Rooms
    BY DEF Envelope, IsTrip
  <2>2. Broadcast(g, m, inbox) /\ UNCHANGED <<sock, active, room, trip, excused, member, fetch, hubTrip, outbox>>
    BY <1>7 DEF PeerShows, pageVars, netVars, storeVars, history
  <2> HIDE DEF m
  <2>3. QED
    BY <2>1, <2>2, PeerBroadcast
<1>8. ASSUME NEW s \in Sockets, Recycle(s) PROVE TripInv'
  <2>1. /\ s # active /\ sock' = [sock EXCEPT ![s] = FreeSocket]
        /\ UNCHANGED <<active, room, trip, excused, fetch, inbox, hubTrip, member, outbox>>
    BY <1>8 DEF Recycle, pageVars, storeVars, history
  <2>2. active # None => sock'[active] = sock[active]
    BY <1>0, <2>1
  <2>3. Asking => Asking'
    BY <2>1 DEF Asking
  <2>4. QED
    BY <2>1, <2>2, <2>3, TripUntouched
<1>9. CASE HubRestarts
  <2>1. /\ sock' = [s \in Sockets |-> IF Live(s) THEN [sock[s] EXCEPT !.at = "closing"] ELSE sock[s]]
        /\ UNCHANGED active
    BY <1>9 DEF HubRestarts
  <2>2. CASE active = None
    BY <2>1, <2>2, TripAnew
  <2>3. CASE active # None /\ Live(active)
    <3>1. sock[active] \in Socket /\ sock'[active] = [sock[active] EXCEPT !.at = "closing"]
      BY <1>0, <2>1, <2>3
    <3>2. sock'[active].at = "closing"
      BY <3>1 DEF Socket
    <3>3. QED
      BY <2>1, <3>2, TripAnew
  <2>4. CASE active # None /\ ~Live(active)
    <3>1. sock[active] \in Socket /\ sock'[active] = sock[active]
      BY <1>0, <2>1, <2>4
    <3>2. sock[active].at \in {"closing", "closed"}
      BY <2>4, <3>1 DEF Live, Socket, ConnInv, ActiveIsOurs
    <3>3. QED
      BY <2>1, <3>1, <3>2, TripAnew
  <2>5. QED
    BY <2>2, <2>3, <2>4
<1>10. ASSUME NEW s \in Sockets, HubAdmits(s), ~Live(s) PROVE TripInv'
  <2>1. /\ member' = [member EXCEPT ![s] = TRUE] /\ sock[s].at # "free"
        /\ UNCHANGED <<sock, active, room, trip, excused, fetch, hubTrip, inbox, outbox>>
    BY <1>10 DEF HubAdmits, pageVars, netVars, storeVars, history
  <2>2. CASE active = s
    <3>1. sock[s].at \in {"closing", "closed"}
      BY <1>0, <1>10, <2>1, SessionAssumption DEF Live, Socket
    <3>2. QED
      BY <2>1, <2>2, <3>1, TripAnew
  <2>3. CASE active # s
    <3>1. active # None => member'[active] = member[active]
      BY <1>0, <2>1, <2>3
    <3>2. Asking => Asking'
      BY <2>1 DEF Asking
    <3>3. QED
      BY <2>1, <3>1, <3>2, TripUntouched
  <2>4. QED
    BY <2>2, <2>3
<1>11. ASSUME NEW s \in Sockets, HubUnregisters(s) PROVE TripInv'
  <2> DEFINE g == sock[s].room
  <2>1. /\ g \in Rooms /\ sock[s].at \in {"closing", "closed"}
        /\ member' = [member EXCEPT ![s] = FALSE]
        /\ \E q : outbox' = [outbox EXCEPT ![s] = q]
        /\ UNCHANGED <<sock, active, room, trip, excused, fetch, inbox>>
    BY <1>11 DEF HubUnregisters, Addressed, pageVars, netVars, storeVars, history
  <2>2. CASE active = s
    BY <2>1, <2>2, TripAnew
  <2>3. CASE active # s
    <3>1. active # None => UNCHANGED <<member[active], outbox[active]>>
      BY <1>0, <2>1, <2>3
    <3>2. Asking => Asking'
      BY <2>1 DEF Asking
    <3>3. CASE InGroup(g) = {s} /\ hubTrip' = [hubTrip EXCEPT ![g] = None]
      BY <1>0, <2>1, <2>3, <3>1, <3>3, TripForgotten
    <3>4. CASE UNCHANGED hubTrip
      BY <2>1, <3>1, <3>2, <3>4, TripUntouched
    <3>5. QED
      BY <1>11, <3>3, <3>4 DEF HubUnregisters
  <2>4. QED
    BY <2>2, <2>3
<1>12. ASSUME NEW g \in BusyRooms, OthersLeave(g) PROVE TripInv'
  <2>1. /\ g \in Rooms /\ active \notin InGroup(g)
        /\ hubTrip' = [hubTrip EXCEPT ![g] = None]
        /\ UNCHANGED <<sock, active, room, trip, excused, fetch, inbox, member, outbox>>
    BY <1>12 DEF OthersLeave, pageVars, netVars, storeVars, history
  <2>2. QED
    BY <1>0, <2>1, TripForgotten
<1>13. QED
  BY <1>3, <1>4, <1>5, <1>6, <1>7, <1>8, <1>9, <1>10, <1>11, <1>12 DEF HubNext

\* Every step keeps the page on its way to the trip of the hub.
LEMMA TripInductive ==
    ASSUME PageInv, TripInv, Next
    PROVE  TripInv'
<1> USE DEF PageInv, pageVars, netVars, storeVars, hubVars, history
<1>0. active \in Sockets \cup {None}
  BY DEF PageShape
<1>1. ASSUME UNCHANGED <<active, room, trip, excused, sock, inbox, member, hubTrip, fetch>>,
             active # None => (Creates(outbox[active]) => Creates(outbox'[active]))
      PROVE  TripInv'
  <2>1. Asking => Asking'
    BY <1>1 DEF Asking
  <2>2. QED
    BY <1>1, <2>1, TripUntouched
<1>2. CASE Continue \/ StartLogin \/ LoginAnswers
  BY <1>1, <1>2 DEF Continue, StartLogin, LoginAnswers
<1>3. ASSUME NEW g \in Rooms, ChooseRoom(g) PROVE TripInv'
  <2>1. active' = None
    BY <1>3 DEF ChooseRoom, ConnInv, SingleConnection, Mounted
  <2>2. QED
    BY <2>1, TripAnew
<1>4. ASSUME UNCHANGED <<sock, active, room, inbox, member, hubTrip>>, excused' = TRUE
      PROVE  TripInv'
  BY <1>4 DEF TripInv, Told, Greeted, Live
<1>5. CASE Leave \/ ClosePanel
  BY <1>4, <1>5 DEF Leave, ClosePanel
<1>6. CASE StartNavigation
  <2>1. /\ trip = None /\ Sent([kind |-> "trip_create"])
        /\ UNCHANGED <<sock, active, room, excused, inbox, member, hubTrip, fetch>>
    BY <1>6 DEF StartNavigation
  <2>2. [kind |-> "trip_create"] \in Request
    BY DEF Request
  <2>3. CASE active = None
    BY <2>1, <2>3, TripAnew
  <2>4. CASE active # None
    <3>1. sock[active].at = "open" => Creates(outbox'[active])
      BY <2>1, <2>2, <2>4, SentOnActive
    <3>2. ASSUME Follows, sock[active].at = "open" PROVE Follows'
      BY <2>1, <3>1, <3>2 DEF Follows, Leads
    <3>3. QED
      BY <2>1, <2>4, <3>2 DEF TripInv, Told, Greeted, Live
  <2>5. QED
    BY <2>3, <2>4
<1>7. CASE EndTrip
  <2>1. [kind |-> "trip_end"] \in Request /\ Sent([kind |-> "trip_end"])
    BY <1>7 DEF Request, EndTrip
  <2>2. active # None => (Creates(outbox[active]) => Creates(outbox'[active]))
    BY <2>1, SentOnActive
  <2>3. QED
    BY <1>1, <1>7, <2>2 DEF EndTrip
<1>8. CASE SwapScreen
  <2>1. CASE Mounted
    <3>1. active' = None
      BY <1>8, <2>1 DEF SwapScreen
    <3>2. QED
      BY <3>1, TripAnew
  <2>2. CASE ~Mounted /\ screen = "map"
    BY <1>8, <2>2, TripConnect DEF SwapScreen
  <2>3. CASE ~Mounted /\ screen # "map"
    BY <1>1, <1>8, <2>3 DEF SwapScreen
  <2>4. QED
    BY <2>1, <2>2, <2>3
<1>9. CASE Retry
  <2>1. CASE Mounted
    BY <1>9, <2>1, TripConnect DEF Retry
  <2>2. CASE ~Mounted
    BY <1>1, <1>9, <2>2 DEF Retry
  <2>3. QED
    BY <2>1, <2>2
<1>10. CASE HubNext
  BY <1>10, TripHub
<1>11. ASSUME NEW s \in Sockets, SocketNext(s) PROVE TripInv'
  BY <1>11, TripSocket
<1>12. ASSUME NEW f \in Fetches, FetchNext(f) PROVE TripInv'
  BY <1>12, TripFetch
<1>13. QED
  BY <1>2, <1>3, <1>5, <1>6, <1>7, <1>8, <1>9, <1>10, <1>11, <1>12 DEF Next, UserNext

\* A page that has read all it was sent, and has nothing of its own under way,
\* shows the trip of the hub.
LEMMA AtRestAgrees ==
    ASSUME PageInv, TripInv
    PROVE  AgreesAtRest
<1>1. SUFFICES ASSUME AtRest PROVE trip = hubTrip[room]
  BY DEF AgreesAtRest
<1>2. active # None /\ sock[active].at = "open" /\ ~excused /\ member[active]
      /\ inbox[active] = <<>> /\ outbox[active] = <<>> /\ ~Asking
  BY <1>1 DEF AtRest, Live, Asking
<1>3. ~Creates(outbox[active]) /\ \A t : ~LastIs(inbox[active], t)
  BY <1>2 DEF Creates, LastIs
<1>4. Follows
  BY <1>2 DEF TripInv
<1>5. QED
  BY <1>2, <1>3, <1>4 DEF Follows, Leads

\* Through replacements, ends, lost connections, restarts of the server and a
\* fetch that answers between envelopes, a page at rest shows the trip the hub
\* has, or is excused (App.tsx 874-988).
THEOREM TripAgrees == Spec => []AgreesAtRest
<1>1. Init => PageInv /\ TripInv
  BY PageInitial DEF Init, TripInv
<1>2. PageInv /\ TripInv /\ [Next]_vars => PageInv' /\ TripInv'
  <2>1. ASSUME PageInv, TripInv, UNCHANGED vars PROVE TripInv'
    <3>1. UNCHANGED <<active, room, trip, excused, sock, inbox, member, hubTrip, fetch, outbox>>
      BY <2>1 DEF vars, pageVars, netVars, storeVars, hubVars, history
    <3>2. Asking => Asking'
      BY <3>1 DEF Asking
    <3>3. QED
      BY <2>1, <3>1, <3>2, TripUntouched
  <2>2. QED
    BY <2>1, PageInductive, TripInductive
<1>3. QED
  BY <1>1, <1>2, AtRestAgrees, PTL DEF Spec

=============================================================================
