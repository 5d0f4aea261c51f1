---------------------------- MODULE ServerProofs ----------------------------
(***************************************************************************)
(* Proofs about Server, for any clients, users, groups and capacities:     *)
(* its types, who is in which group, that the hub sends on no closed Send, *)
(* that Server implements Rooms through the mapping Membership, and when   *)
(* the hub may panic.                                                      *)
(***************************************************************************)
EXTENDS Server, SequenceTheorems, FiniteSetTheorems, TLAPS

-----------------------------------------------------------------------------
(* Types                                                                   *)

\* Sending an envelope to some clients keeps every Send channel well typed
\* and within its capacity.
LEMMA SendEachType ==
    ASSUME HubTypeOK, NEW to \in SUBSET Clients, NEW m \in Envelope,
           SendEach(to, m)
    PROVE  /\ sendBuf' \in [Clients -> Seq(Envelope)]
           /\ \A c \in Clients : Len(sendBuf'[c]) <= SendCap
           /\ lost' \subseteq Clients
<1>1. \A c \in Clients : Append(sendBuf[c], m) \in Seq(Envelope)
                         /\ Len(Append(sendBuf[c], m)) = Len(sendBuf[c]) + 1
                         /\ Len(sendBuf[c]) \in Nat
  BY AppendProperties, LenProperties DEF HubTypeOK
<1>2. SendCap \in Nat
  BY HubAssumption
<1>3. QED
  BY <1>1, <1>2 DEF HubTypeOK, SendEach, HasRoom

\* Two sends in a row: buffers stay buffers within their capacity.
LEMMA SendBothType ==
    ASSUME HubTypeOK, NEW to \in SUBSET Clients,
           NEW m1 \in Envelope, NEW m2 \in Envelope, SendBoth(to, m1, m2)
    PROVE  /\ sendBuf' \in [Clients -> Seq(Envelope)]
           /\ \A c \in Clients : Len(sendBuf'[c]) <= SendCap
           /\ lost' \subseteq Clients
<1>1. \A c \in Clients :
        /\ Len(sendBuf[c]) \in Nat
        /\ Append(sendBuf[c], m1) \in Seq(Envelope)
        /\ Len(Append(sendBuf[c], m1)) = Len(sendBuf[c]) + 1
  BY AppendProperties, LenProperties DEF HubTypeOK
<1>2. \A c \in Clients :
        /\ Append(Append(sendBuf[c], m1), m2) \in Seq(Envelope)
        /\ Len(Append(Append(sendBuf[c], m1), m2)) = Len(sendBuf[c]) + 2
  <2> SUFFICES ASSUME NEW c \in Clients
               PROVE  /\ Append(Append(sendBuf[c], m1), m2) \in Seq(Envelope)
                      /\ Len(Append(Append(sendBuf[c], m1), m2)) = Len(sendBuf[c]) + 2
    OBVIOUS
  <2>1. /\ Append(Append(sendBuf[c], m1), m2) \in Seq(Envelope)
        /\ Len(Append(Append(sendBuf[c], m1), m2)) = Len(Append(sendBuf[c], m1)) + 1
    BY <1>1, AppendProperties
  <2>2. QED
    BY <1>1, <2>1
<1>3. SendCap \in Nat
  BY HubAssumption
<1>4. QED
  BY <1>1, <1>2, <1>3 DEF HubTypeOK, SendBoth, HasRoom

\* The envelopes the hub builds.
LEMMA EnvelopeType ==
    /\ \A u \in Users, p \in Positions \cup {None} : LocationOf(u, p) \in Envelope
    /\ \A u \in Users : Offline(u) \in Envelope
    /\ \A trip \in Trip, type \in {"trip_create", "trip_join", "trip_leave",
                                   "trip_start", "trip_end"} :
           TripEnvelope(type, trip) \in Envelope
BY DEF Envelope, LocationOf, Offline, TripEnvelope

\* The participants of a new trip.
LEMMA RidersType ==
    /\ NoRiders \in Riders
    /\ \A r \in Riders, u \in Users : [r EXCEPT ![u] = 0] \in Riders
    /\ \A r \in Riders, u \in Users : [r EXCEPT ![u] = 1] \in Riders
    /\ \A r \in Riders, u \in Users : [r EXCEPT ![u] = @ + 1] \in Riders
BY DEF Riders, NoRiders

\* A trip somebody leaves or joins is a trip.
LEMMA TripType ==
    ASSUME NEW trip \in Trip, NEW u \in Users
    PROVE  /\ Leave(trip, u) \in Trip
           /\ Leave(trip, u).riders \in Riders
           /\ [trip EXCEPT !.riders[u] = @ + 1] \in Trip
           /\ [trip EXCEPT !.riders[u] = @ + 1].riders \in Riders
           /\ [trip EXCEPT !.status = "active"] \in Trip
           /\ [trip EXCEPT !.status = "completed"] \in Trip
BY DEF Trip, Riders, Leave

-----------------------------------------------------------------------------
(* The store keeps its types.                                              *)

\* PersistCap is a number.
LEMMA PersistCapNat == PersistCap \in Nat
BY PersistenceAssumption

\* The send on persistCh keeps the store's types.
LEMMA EnqueueType ==
    ASSUME PersistenceTypeOK, NEW loc \in Location, EnqueueLocation(loc)
    PROVE  PersistenceTypeOK'
<1>1. /\ Append(persistCh, loc) \in Seq(Location)
      /\ Len(Append(persistCh, loc)) = Len(persistCh) + 1
      /\ Len(persistCh) \in Nat
  BY AppendProperties, LenProperties DEF PersistenceTypeOK
<1>2. QED
  BY <1>1, PersistCapNat DEF PersistenceTypeOK, EnqueueLocation

\* So does CreateTrip,
LEMMA InsertTripType ==
    ASSUME PersistenceTypeOK, NEW id \in TripIds, NEW u \in Users,
           NEW r \in Riders, NEW ok \in BOOLEAN, InsertTripRow(id, u, r, ok)
    PROVE  PersistenceTypeOK'
BY DEF PersistenceTypeOK, InsertTripRow

\* and UpdateTripParticipants,
LEMMA UpdateTripType ==
    ASSUME PersistenceTypeOK, NEW id \in TripIds, NEW r \in Riders,
           NEW ok \in BOOLEAN, UpdateTripRow(id, r, ok)
    PROVE  PersistenceTypeOK'
BY DEF PersistenceTypeOK, UpdateTripRow

\* and every step of a worker.
LEMMA WorkerType ==
    ASSUME PersistenceTypeOK, NEW w \in Workers, WorkerStep(w)
    PROVE  PersistenceTypeOK'
<1>1. CASE WorkerReceives(w)
  <2>1. /\ Head(persistCh) \in Location
        /\ Tail(persistCh) \in Seq(Location)
        /\ Len(Tail(persistCh)) = Len(persistCh) - 1
        /\ Len(persistCh) \in Nat
    BY <1>1, HeadTailProperties, LenProperties DEF PersistenceTypeOK, WorkerReceives
  <2>2. QED
    BY <1>1, <2>1, PersistCapNat DEF PersistenceTypeOK, WorkerReceives, WorkerState
<1>2. ASSUME NEW ok \in StoreOutcomes, WorkerUpsertsUser(w, ok)
      PROVE  PersistenceTypeOK'
  <2>1. worker[w].loc \in Location
    BY <1>2 DEF PersistenceTypeOK, WorkerUpsertsUser, WorkerState, Idle
  <2>2. worker[w].loc.user \in Users /\ worker[w].loc.pos \in Positions
    BY <2>1 DEF Location
  <2>3. QED
    BY <1>2, <2>1, <2>2 DEF PersistenceTypeOK, WorkerUpsertsUser, WorkerState, Idle
<1>3. ASSUME NEW ok \in StoreOutcomes, WorkerInsertsLocation(w, ok)
      PROVE  PersistenceTypeOK'
  <2>1. worker[w].loc \in Location
    BY <1>3 DEF PersistenceTypeOK, WorkerInsertsLocation, WorkerState, Idle
  <2>2. QED
    BY <1>3, <2>1 DEF PersistenceTypeOK, WorkerInsertsLocation, WorkerState, Idle
<1>4. CASE WorkerExits(w)
  BY <1>4 DEF PersistenceTypeOK, WorkerExits, WorkerState, Idle
<1>5. QED
  BY <1>1, <1>2, <1>3, <1>4 DEF WorkerStep

-----------------------------------------------------------------------------
(* The handlers keep the hub's types.                                      *)

\* Clients have a group and a user.
LEMMA NamesType ==
    ASSUME NEW c \in Clients
    PROVE  UserOf[c] \in Users /\ GroupOf[c] \in Groups
BY HubAssumption

\* A group made on registration.
LEMMA MakeGroupType ==
    ASSUME HubTypeOK, NEW g \in Groups, MakeGroup(g)
    PROVE  /\ rooms' \subseteq Groups
           /\ cache' \in [Groups -> [Users -> Positions \cup {None}]]
BY DEF HubTypeOK, MakeGroup, NoPositions

\* handleRegister up to its replay keeps the hub's types.
LEMMA RegisterType ==
    ASSUME HubTypeOK, NEW c \in Clients, RejectJoiner(c) \/ AdmitJoiner(c)
    PROVE  HubTypeOK'
<1>1. GroupOf[c] \in Groups
  BY NamesType
<1>2. CASE RejectJoiner(c)
  BY <1>1, <1>2, MakeGroupType DEF HubTypeOK, RejectJoiner, CloseSend
<1>3. CASE AdmitJoiner(c)
  BY <1>1, <1>3, MakeGroupType DEF HubTypeOK, AdmitJoiner
<1>4. QED
  BY <1>2, <1>3

\* A replay has somebody to replay to.
Replaying == run = "replay" => joiner \in Clients

\* So does the replay,
LEMMA ReplayType ==
    ASSUME HubTypeOK, Replaying,
           \/ \E u \in Users : ReplayLocation(u)
           \/ ReplayOverflows
           \/ ReplayTrip
    PROVE  HubTypeOK'
<1>1. ASSUME NEW u \in Users, ReplayLocation(u)
      PROVE  HubTypeOK'
  <2>1. joiner \in Clients /\ GroupOf[joiner] \in Groups
    BY <1>1, NamesType DEF ReplayLocation, Replaying
  <2> DEFINE m == LocationOf(u, cache[GroupOf[joiner]][u])
  <2>2. m \in Envelope
    BY <2>1, EnvelopeType DEF HubTypeOK
  <2>3. /\ Append(sendBuf[joiner], m) \in Seq(Envelope)
        /\ Len(Append(sendBuf[joiner], m)) = Len(sendBuf[joiner]) + 1
        /\ Len(sendBuf[joiner]) \in Nat
    BY <2>1, <2>2, AppendProperties, LenProperties DEF HubTypeOK
  <2>4. SendCap \in Nat
    BY HubAssumption
  <2>5. sendBuf' = [sendBuf EXCEPT ![joiner] = Append(sendBuf[joiner], m)]
    BY <1>1 DEF ReplayLocation
  <2>6. Len(sendBuf[joiner]) < SendCap
    BY <1>1 DEF ReplayLocation, HasRoom
  <2> HIDE DEF m
  <2>7. /\ sendBuf' \in [Clients -> Seq(Envelope)]
        /\ \A c \in Clients : Len(sendBuf'[c]) <= SendCap
    BY <2>1, <2>3, <2>4, <2>5, <2>6 DEF HubTypeOK
  <2>8. QED
    BY <1>1, <2>7 DEF HubTypeOK, ReplayLocation
<1>2. CASE ReplayOverflows
  BY <1>2, NamesType DEF HubTypeOK, ReplayOverflows, CloseSend, Replaying
<1>3. CASE ReplayTrip
  <2>1. joiner \in Clients /\ GroupOf[joiner] \in Groups
    BY <1>3, NamesType DEF ReplayTrip, Replaying
  <2> DEFINE trip == trips[GroupOf[joiner]]
  <2>2. /\ sendBuf' \in [Clients -> Seq(Envelope)]
        /\ \A c \in Clients : Len(sendBuf'[c]) <= SendCap
        /\ lost' \subseteq Clients
    <3>1. CASE trip # None
      <4>1. trip \in Trip
        BY <2>1, <3>1 DEF HubTypeOK
      <4>2. TripEnvelope("trip_create", trip) \in Envelope
        BY <4>1, EnvelopeType
      <4>3. SendEach({joiner}, TripEnvelope("trip_create", trip))
        BY <1>3, <3>1 DEF ReplayTrip
      <4>4. QED
        BY <2>1, <4>2, <4>3, SendEachType
    <3>2. CASE trip = None
      BY <1>3, <3>2 DEF ReplayTrip, HubTypeOK
    <3>3. QED
      BY <3>1, <3>2
  <2>3. QED
    BY <1>3, <2>2 DEF HubTypeOK, ReplayTrip
<1>4. QED
  BY <1>1, <1>2, <1>3

\* and handleUnregister,
LEMMA UnregisterType ==
    ASSUME HubTypeOK, PersistenceTypeOK, NEW c \in Clients, NEW ok \in BOOLEAN,
           UnregisterMember(c, ok)
    PROVE  HubTypeOK' /\ PersistenceTypeOK'
<1> DEFINE g    == GroupOf[c]
           u    == UserOf[c]
           rest == Others(c)
           left == Leave(trips[g], u)
<1>1. u \in Users /\ g \in Groups
  BY NamesType
<1>2. rest \in SUBSET Clients
  BY <1>1 DEF HubTypeOK, Others
<1>3. Offline(u) \in Envelope
  BY <1>1, EnvelopeType
<1>4. TripOpen(g) => left \in Trip /\ left.riders \in Riders /\ trips[g].id \in TripIds
  <2> SUFFICES ASSUME TripOpen(g)
               PROVE  left \in Trip /\ left.riders \in Riders /\ trips[g].id \in TripIds
    OBVIOUS
  <2>1. trips[g] \in Trip
    BY <1>1 DEF TripOpen, HubTypeOK
  <2>2. QED
    BY <1>1, <2>1, TripType DEF Trip
<1>5. /\ sendBuf' \in [Clients -> Seq(Envelope)]
      /\ \A d \in Clients : Len(sendBuf'[d]) <= SendCap
      /\ lost' \subseteq Clients
      /\ trips' \in [Groups -> Trip \cup {None}]
      /\ PersistenceTypeOK'
  <2>1. CASE TripOpen(g)
    <3>1. /\ UpdateTripRow(trips[g].id, left.riders, ok)
          /\ SendBoth(rest, TripEnvelope("trip_leave", left), Offline(u))
          /\ trips' = [trips EXCEPT ![g] = IF Abandoned(rest) THEN None ELSE left]
      BY <2>1 DEF UnregisterMember
    <3>2. TripEnvelope("trip_leave", left) \in Envelope
      BY <1>4, <2>1, EnvelopeType
    <3>3. trips' \in [Groups -> Trip \cup {None}]
      BY <1>4, <2>1, <3>1 DEF HubTypeOK
    <3> HIDE DEF rest, left, u
    <3>4. PersistenceTypeOK'
      BY <1>4, <2>1, <3>1, UpdateTripType
    <3>5. QED
      BY <1>2, <1>3, <3>1, <3>2, <3>3, <3>4, SendBothType
  <2>2. CASE ~TripOpen(g)
    <3>1. /\ SendEach(rest, Offline(u))
          /\ trips' = [trips EXCEPT ![g] = IF Abandoned(rest) THEN None ELSE @]
          /\ UNCHANGED storeVars
      BY <2>2 DEF UnregisterMember
    <3>2. trips' \in [Groups -> Trip \cup {None}]
      BY <1>1, <3>1 DEF HubTypeOK
    <3>3. PersistenceTypeOK'
      BY <3>1 DEF PersistenceTypeOK, storeVars
    <3> HIDE DEF rest, left, u
    <3>4. QED
      BY <1>2, <1>3, <3>1, <3>2, <3>3, SendEachType
  <2>3. QED
    BY <2>1, <2>2
<1>6. /\ groups' = [groups EXCEPT ![g] = rest]
      /\ sendClosed' = sendClosed \cup {c}
      /\ cache' = IF Abandoned(rest) THEN [cache EXCEPT ![g] = NoPositions]
                                     ELSE [cache EXCEPT ![g][u] = None]
      /\ rooms' = IF Abandoned(rest) THEN rooms \ {g} ELSE rooms
      /\ UNCHANGED <<run, joiner, todo>>
  BY DEF UnregisterMember, CloseSend
<1>7. cache' \in [Groups -> [Users -> Positions \cup {None}]]
  BY <1>1, <1>6 DEF HubTypeOK, NoPositions
<1>8. QED
  BY <1>1, <1>2, <1>5, <1>6, <1>7 DEF HubTypeOK

\* and handleLocation, a panic included,
LEMMA LocationType ==
    ASSUME HubTypeOK, PersistenceTypeOK, NEW c \in Clients, NEW pos \in Positions,
           HandleLocation(c, pos)
    PROVE  HubTypeOK' /\ PersistenceTypeOK'
<1>1. UserOf[c] \in Users /\ GroupOf[c] \in Groups
  BY NamesType
<1>2. CASE HasStore /\ persistClosed
  BY <1>2 DEF HandleLocation, HubTypeOK, PersistenceTypeOK, storeVars
<1>3. CASE ~(HasStore /\ persistClosed)
  <2> DEFINE loc == [user |-> UserOf[c], pos |-> pos]
  <2>1. /\ cache' = [cache EXCEPT ![GroupOf[c]][UserOf[c]] = pos]
        /\ EnqueueLocation(loc)
        /\ SendEach(Others(c), LocationOf(UserOf[c], pos))
        /\ UNCHANGED <<rooms, groups, trips, sendClosed, run, joiner, todo>>
    BY <1>3 DEF HandleLocation
  <2>2. loc \in Location
    BY <1>1 DEF Location
  <2>3. PersistenceTypeOK'
    <3> HIDE DEF loc
    <3> QED BY <2>1, <2>2, EnqueueType
  <2>4. LocationOf(UserOf[c], pos) \in Envelope /\ Others(c) \in SUBSET Clients
    BY <1>1, EnvelopeType DEF HubTypeOK, Others
  <2>5. /\ sendBuf' \in [Clients -> Seq(Envelope)]
        /\ \A d \in Clients : Len(sendBuf'[d]) <= SendCap
        /\ lost' \subseteq Clients
    BY <2>1, <2>4, SendEachType
  <2>6. cache' \in [Groups -> [Users -> Positions \cup {None}]]
    BY <1>1, <2>1 DEF HubTypeOK
  <2>7. QED
    BY <2>1, <2>3, <2>5, <2>6 DEF HubTypeOK
<1>4. QED
  BY <1>2, <1>3

\* A group's trip changes, and its members hear of it.
LEMMA TripBecomesType ==
    ASSUME HubTypeOK, NEW g \in Groups, NEW trip \in Trip,
           NEW type \in {"trip_create", "trip_join", "trip_leave", "trip_start"},
           TripBecomes(g, trip, type), UnchangedByTrips
    PROVE  HubTypeOK'
<1>1. TripEnvelope(type, trip) \in Envelope /\ groups[g] \in SUBSET Clients
  BY EnvelopeType DEF HubTypeOK
<1>2. /\ sendBuf' \in [Clients -> Seq(Envelope)]
      /\ \A d \in Clients : Len(sendBuf'[d]) <= SendCap
      /\ lost' \subseteq Clients
  BY <1>1, SendEachType DEF TripBecomes
<1>3. QED
  BY <1>2 DEF HubTypeOK, TripBecomes, UnchangedByTrips

\* and each of the five trip handlers.
LEMMA TripHandlersType ==
    ASSUME HubTypeOK, PersistenceTypeOK, NEW c \in Clients, NEW ok \in BOOLEAN,
           \/ \E id \in TripIds : HandleTripCreate(c, id, ok)
           \/ HandleTripJoin(c, ok)
           \/ HandleTripLeave(c, ok)
           \/ HandleTripStart(c)
           \/ HandleTripEnd(c)
    PROVE  HubTypeOK' /\ PersistenceTypeOK'
<1> DEFINE g == GroupOf[c]
           u == UserOf[c]
<1>1. u \in Users /\ g \in Groups
  BY NamesType
<1>2. trips[g] # None => trips[g] \in Trip /\ trips[g].id \in TripIds
  BY <1>1 DEF HubTypeOK, Trip
<1>3. ASSUME UNCHANGED hubVars, UNCHANGED storeVars
      PROVE  HubTypeOK' /\ PersistenceTypeOK'
  BY <1>3 DEF HubTypeOK, PersistenceTypeOK, hubVars, storeVars
<1>4. ASSUME NEW id \in TripIds, HandleTripCreate(c, id, ok)
      PROVE  HubTypeOK' /\ PersistenceTypeOK'
  <2> DEFINE riders == [NoRiders EXCEPT ![u] = 1]
             trip == [id |-> id, creator |-> u, status |-> "planning",
                      riders |-> riders]
  <2>1. riders \in Riders
    BY <1>1, RidersType
  <2>2. trip \in Trip
    BY <1>1, <2>1 DEF Trip
  <2>3. /\ InsertTripRow(id, u, riders, ok)
        /\ TripBecomes(g, trip, "trip_create")
        /\ UnchangedByTrips
    BY <1>4 DEF HandleTripCreate
  <2> HIDE DEF trip, riders
  <2>4. QED
    BY <1>1, <2>1, <2>2, <2>3, InsertTripType, TripBecomesType
<1>5. CASE HandleTripJoin(c, ok)
  <2>1. CASE TripOpen(g) /\ trips[g].riders[u] = 0
    <3> DEFINE joined == [trips[g] EXCEPT !.riders[u] = @ + 1]
    <3>1. /\ UpdateTripRow(trips[g].id, joined.riders, ok)
          /\ TripBecomes(g, joined, "trip_join")
          /\ UnchangedByTrips
      BY <1>5, <2>1 DEF HandleTripJoin
    <3>2. joined \in Trip /\ joined.riders \in Riders /\ trips[g].id \in TripIds
      BY <1>1, <1>2, <2>1, TripType DEF TripOpen
    <3> HIDE DEF joined
    <3>3. QED
      BY <1>1, <3>1, <3>2, UpdateTripType, TripBecomesType
  <2>2. CASE ~(TripOpen(g) /\ trips[g].riders[u] = 0)
    BY <1>3, <1>5, <2>2 DEF HandleTripJoin
  <2>3. QED
    BY <2>1, <2>2
<1>6. CASE HandleTripLeave(c, ok)
  <2>1. CASE TripOpen(g)
    <3> DEFINE left == Leave(trips[g], u)
    <3>1. /\ UpdateTripRow(trips[g].id, left.riders, ok)
          /\ TripBecomes(g, left, "trip_leave")
          /\ UnchangedByTrips
      BY <1>6, <2>1 DEF HandleTripLeave
    <3>2. left \in Trip /\ left.riders \in Riders /\ trips[g].id \in TripIds
      BY <1>1, <1>2, <2>1, TripType DEF TripOpen
    <3> HIDE DEF left
    <3>3. QED
      BY <1>1, <3>1, <3>2, UpdateTripType, TripBecomesType
  <2>2. CASE ~TripOpen(g)
    BY <1>3, <1>6, <2>2 DEF HandleTripLeave
  <2>3. QED
    BY <2>1, <2>2
<1>7. CASE HandleTripStart(c)
  <2>1. CASE MayControlTrip(c)
    <3> DEFINE active == [trips[g] EXCEPT !.status = "active"]
    <3>1. TripBecomes(g, active, "trip_start") /\ UnchangedByTrips
      BY <1>7, <2>1 DEF HandleTripStart
    <3>2. active \in Trip
      BY <1>1, <1>2, <2>1, TripType DEF MayControlTrip
    <3>3. PersistenceTypeOK'
      BY <1>7 DEF HandleTripStart, PersistenceTypeOK, storeVars
    <3> HIDE DEF active
    <3>4. QED
      BY <1>1, <3>1, <3>2, <3>3, TripBecomesType
  <2>2. CASE ~MayControlTrip(c)
    BY <1>3, <1>7, <2>2 DEF HandleTripStart
  <2>3. QED
    BY <2>1, <2>2
<1>8. CASE HandleTripEnd(c)
  <2>1. CASE MayControlTrip(c)
    <3> DEFINE ended == [trips[g] EXCEPT !.status = "completed"]
    <3>1. /\ SendEach(groups[g], TripEnvelope("trip_end", ended))
          /\ trips' = [trips EXCEPT ![g] = None]
          /\ UnchangedByTrips
      BY <1>8, <2>1 DEF HandleTripEnd
    <3>2. ended \in Trip
      BY <1>1, <1>2, <2>1, TripType DEF MayControlTrip
    <3>3. PersistenceTypeOK'
      BY <1>8 DEF HandleTripEnd, PersistenceTypeOK, storeVars
    <3> HIDE DEF ended
    <3>4. TripEnvelope("trip_end", ended) \in Envelope /\ groups[g] \in SUBSET Clients
      BY <1>1, <3>2, EnvelopeType DEF HubTypeOK
    <3>5. /\ sendBuf' \in [Clients -> Seq(Envelope)]
          /\ \A d \in Clients : Len(sendBuf'[d]) <= SendCap
          /\ lost' \subseteq Clients
      BY <3>1, <3>4, SendEachType
    <3>6. QED
      BY <3>1, <3>3, <3>5 DEF HubTypeOK, UnchangedByTrips
  <2>2. CASE ~MayControlTrip(c)
    BY <1>3, <1>8, <2>2 DEF HandleTripEnd
  <2>3. QED
    BY <2>1, <2>2
<1>9. QED
  BY <1>4, <1>5, <1>6, <1>7, <1>8

-----------------------------------------------------------------------------
(* Every step of the server keeps the types.                               *)

\* What onmessage shows has the types of the views.
LEMMA ShownType ==
    ASSUME NEW m \in Envelope
    PROVE  /\ \A me \in Users, shown \in [Users -> Positions \cup {None}] :
                 ShowPeer(me, shown, m) \in [Users -> Positions \cup {None}]
           /\ \A shown \in Trip \cup {None} : ShowTrip(shown, m) \in Trip \cup {None}
<1>1. CASE m.type = "location"
  <2>1. m.user \in Users /\ m.pos \in Positions \cup {None}
    BY <1>1 DEF Envelope
  <2>2. QED
    BY <1>1, <2>1 DEF ShowPeer, ShowTrip
<1>2. CASE m.type # "location"
  <2>1. m.trip \in Trip /\ m.trip.riders \in Riders
    BY <1>2 DEF Envelope, Trip
  <2>2. \A shown \in Trip : /\ [shown EXCEPT !.status = "active"] \in Trip
                            /\ [shown EXCEPT !.riders = m.trip.riders] \in Trip
    BY <2>1 DEF Trip
  <2>3. QED
    BY <1>2, <2>1, <2>2 DEF ShowPeer, ShowTrip
<1>3. QED
  BY <1>1, <1>2

\* The part of TypeOK that speaks of connections, channels and browsers.
ConnTypeOK ==
    /\ phase \in [Clients -> {"idle", "dialing", "running", "leaving", "done"}]
    /\ connOpen \subseteq Clients
    /\ writing \subseteq Clients
    /\ peers \in [Clients -> [Users -> Positions \cup {None}]]
    /\ tripView \in [Clients -> Trip \cup {None}]

\* Closing a connection leaves a set of connections.
LEMMA ConnClosesType ==
    ASSUME ConnTypeOK, NEW c \in Clients, ConnCloses(c)
    PROVE  connOpen' \subseteq Clients
BY DEF ConnTypeOK, ConnCloses

\* A step that leaves the hub and the store alone keeps their types.
LEMMA UnchangedType ==
    /\ HubTypeOK /\ UNCHANGED hubVars => HubTypeOK'
    /\ PersistenceTypeOK /\ UNCHANGED storeVars => PersistenceTypeOK'
    /\ ConnTypeOK /\ UNCHANGED <<connVars, viewVars>> => ConnTypeOK'
BY DEF HubTypeOK, hubVars, PersistenceTypeOK, storeVars, ConnTypeOK, connVars, viewVars

\* The head of a channel leaves it.
LEMMA TakeType ==
    ASSUME HubTypeOK, NEW c \in Clients, sendBuf[c] # <<>>,
           sendBuf' = [sendBuf EXCEPT ![c] = Tail(@)]
    PROVE  /\ Head(sendBuf[c]) \in Envelope
           /\ sendBuf' \in [Clients -> Seq(Envelope)]
           /\ \A d \in Clients : Len(sendBuf'[d]) <= SendCap
<1>1. /\ Head(sendBuf[c]) \in Envelope
      /\ Tail(sendBuf[c]) \in Seq(Envelope)
      /\ Len(Tail(sendBuf[c])) = Len(sendBuf[c]) - 1
      /\ Len(sendBuf[c]) \in Nat
  BY HeadTailProperties, LenProperties DEF HubTypeOK
<1>2. SendCap \in Nat
  BY HubAssumption
<1>3. QED
  BY <1>1, <1>2 DEF HubTypeOK

\* The type of the Broadcast channel, capacity included.
BroadcastTypeOK == broadcast \in Seq(Message) /\ Len(broadcast) <= BroadcastCap

\* The stages of Stop.
StopTypeOK == stop \in {"up", "quitting", "draining", "returned"}

\* TypeOK, in the parts that different steps touch.
LEMMA TypeSplit ==
    /\ TypeOK <=> /\ PersistenceTypeOK
                  /\ HubTypeOK
                  /\ ConnTypeOK
                  /\ BroadcastTypeOK
                  /\ StopTypeOK
    /\ TypeOK' <=> /\ PersistenceTypeOK'
                   /\ HubTypeOK'
                   /\ ConnTypeOK'
                   /\ BroadcastTypeOK'
                   /\ StopTypeOK'
BY DEF TypeOK, ConnTypeOK, BroadcastTypeOK, StopTypeOK

\* What one message does to the hub and the store.
LEMMA BroadcastHandledType ==
    ASSUME HubTypeOK, PersistenceTypeOK, NEW m \in Message, NEW ok \in BOOLEAN,
           HandleBroadcast(m, ok)
    PROVE  HubTypeOK' /\ PersistenceTypeOK'
<1>1. m.sender \in Clients
  BY DEF Message
<1>2. CASE m.type = "location" /\ HandleLocation(m.sender, m.pos)
  <2>1. m.pos \in Positions
    BY <1>2 DEF Message
  <2>2. QED
    BY <1>1, <1>2, <2>1, LocationType
<1>3. CASE \E id \in FreshTripId : HandleTripCreate(m.sender, id, ok)
  BY <1>1, <1>3, TripHandlersType DEF FreshTripId
<1>4. CASE UNCHANGED <<hubVars, storeVars>>
  BY <1>4, UnchangedType
<1>5. QED
  BY <1>1, <1>2, <1>3, <1>4, TripHandlersType DEF HandleBroadcast

\* Every step of a client keeps every type.
LEMMA ClientStepType ==
    ASSUME TypeOK, Replaying, NEW c \in Clients, ClientNext(c)
    PROVE  TypeOK'
<1> USE TypeSplit
<1>1. StoreOutcomes \subseteq BOOLEAN
  BY PersistenceAssumption
<1>2. CASE Connect(c)
  BY <1>2, UnchangedType DEF Connect, ConnTypeOK, viewVars, BroadcastTypeOK, StopTypeOK
<1>3. CASE PeerCloses(c)
  BY <1>3, UnchangedType, ConnClosesType
  DEF PeerCloses, ConnTypeOK, viewVars, BroadcastTypeOK, StopTypeOK
<1>4. CASE Recycle(c)
  <2>1. <<>> \in Seq(Envelope) /\ Len(<<>>) = 0 /\ SendCap \in Nat
    BY EmptySeq, HubAssumption
  <2>2. /\ sendBuf' \in [Clients -> Seq(Envelope)]
        /\ \A d \in Clients : Len(sendBuf'[d]) <= SendCap
    BY <1>4, <2>1 DEF Recycle, HubTypeOK
  <2>3. HubTypeOK'
    BY <1>4, <2>2 DEF Recycle, HubTypeOK
  <2>4. ConnTypeOK'
    BY <1>4 DEF Recycle, ConnTypeOK, NoPositions
  <2>5. QED
    BY <1>4, <2>3, <2>4, UnchangedType DEF Recycle, BroadcastTypeOK, StopTypeOK
<1>5. ASSUME NEW m \in Message, ReadForwards(c, m)
      PROVE  TypeOK'
  <2>1. BroadcastTypeOK'
    <3>1. /\ Append(broadcast, m) \in Seq(Message)
          /\ Len(Append(broadcast, m)) = Len(broadcast) + 1
          /\ Len(broadcast) \in Nat
      BY AppendProperties, LenProperties DEF BroadcastTypeOK
    <3>2. BroadcastCap \in Nat
      BY ServerAssumption
    <3>3. QED
      BY <1>5, <3>1, <3>2 DEF ReadForwards, BroadcastTypeOK
  <2>2. QED
    BY <1>5, <2>1, UnchangedType DEF ReadForwards, StopTypeOK
<1>6. CASE ReadFails(c)
  BY <1>6, UnchangedType DEF ReadFails, ConnTypeOK, viewVars, BroadcastTypeOK, StopTypeOK
<1>7. CASE WriteDelivers(c)
  <2>1. /\ Head(sendBuf[c]) \in Envelope
        /\ sendBuf' \in [Clients -> Seq(Envelope)]
        /\ \A d \in Clients : Len(sendBuf'[d]) <= SendCap
    BY <1>7, TakeType DEF WriteDelivers
  <2>2. HubTypeOK'
    BY <1>7, <2>1 DEF WriteDelivers, HubTypeOK
  <2>3. UserOf[c] \in Users
    BY NamesType
  <2>4. /\ peers' \in [Clients -> [Users -> Positions \cup {None}]]
        /\ tripView' \in [Clients -> Trip \cup {None}]
    BY <1>7, <2>1, <2>3, ShownType DEF WriteDelivers, ConnTypeOK
  <2>5. QED
    BY <1>7, <2>2, <2>4, UnchangedType
    DEF WriteDelivers, ConnTypeOK, connVars, BroadcastTypeOK, StopTypeOK
<1>8. ASSUME WritePumpReturns(c),
             /\ sendBuf' \in [Clients -> Seq(Envelope)]
             /\ \A d \in Clients : Len(sendBuf'[d]) <= SendCap
      PROVE  TypeOK'
  <2>1. HubTypeOK'
    BY <1>8 DEF WritePumpReturns, HubTypeOK
  <2>2. ConnTypeOK'
    BY <1>8, ConnClosesType DEF WritePumpReturns, ConnTypeOK, viewVars
  <2>3. QED
    BY <1>8, <2>1, <2>2, UnchangedType
    DEF WritePumpReturns, BroadcastTypeOK, StopTypeOK
<1>9. CASE WriteFails(c)
  BY <1>8, <1>9, TakeType DEF WriteFails
<1>10. CASE PingFails(c) \/ WriteCloses(c)
  BY <1>8, <1>10 DEF PingFails, WriteCloses, HubTypeOK
<1>11. CASE HubRegisters(c)
  <2>1. HubTypeOK'
    BY <1>11, RegisterType DEF HubRegisters
  <2>2. PersistenceTypeOK'
    BY <1>11, UnchangedType DEF HubRegisters, RejectJoiner, AdmitJoiner
  <2>3. QED
    BY <1>11, <2>1, <2>2
    DEF HubRegisters, ConnTypeOK, viewVars, BroadcastTypeOK, StopTypeOK
<1>12. CASE HubUnregisters(c)
  <2>1. PICK ok \in BOOLEAN : HandleUnregister(c, ok)
    BY <1>1, <1>12 DEF HubUnregisters
  <2>2. HubTypeOK' /\ PersistenceTypeOK'
    BY <2>1, UnregisterType, UnchangedType DEF HandleUnregister, UnregisterStranger
  <2>3. ConnTypeOK'
    BY <1>12, ConnClosesType DEF HubUnregisters, ConnTypeOK, viewVars
  <2>4. QED
    BY <1>12, <2>2, <2>3 DEF HubUnregisters, BroadcastTypeOK, StopTypeOK
<1>13. CASE HubDrops(c)
  <2>1. PICK ok \in BOOLEAN : UnregisterMember(c, ok)
    BY <1>1, <1>13 DEF HubDrops
  <2>2. QED
    BY <1>13, <2>1, UnregisterType, UnchangedType DEF HubDrops, BroadcastTypeOK, StopTypeOK
<1>14. QED
  BY <1>2, <1>3, <1>4, <1>5, <1>6, <1>7, <1>9, <1>10, <1>11, <1>12, <1>13 DEF ClientNext

\* So does every other step of the hub,
LEMMA HubStepType ==
    ASSUME TypeOK, Replaying,
           HubReplays \/ HubBroadcasts \/ HubQuits \/ HubReturns
    PROVE  TypeOK'
<1> USE TypeSplit
<1>1. CASE HubReplays
  <2>1. HubTypeOK'
    BY <1>1, ReplayType DEF HubReplays
  <2>2. PersistenceTypeOK'
    BY <1>1, UnchangedType DEF HubReplays, ReplayLocation, ReplayOverflows, ReplayTrip
  <2>3. QED
    BY <1>1, <2>1, <2>2, UnchangedType DEF HubReplays, BroadcastTypeOK, StopTypeOK
<1>2. CASE HubBroadcasts
  <2>1. /\ Head(broadcast) \in Message
        /\ Tail(broadcast) \in Seq(Message)
        /\ Len(Tail(broadcast)) = Len(broadcast) - 1
        /\ Len(broadcast) \in Nat
    BY <1>2, HeadTailProperties, LenProperties DEF HubBroadcasts, BroadcastTypeOK
  <2>2. BroadcastTypeOK'
    <3>1. BroadcastCap \in Nat
      BY ServerAssumption
    <3>2. QED
      BY <1>2, <2>1, <3>1 DEF HubBroadcasts, BroadcastTypeOK
  <2>3. PICK ok \in BOOLEAN : HandleBroadcast(Head(broadcast), ok)
    BY <1>2, PersistenceAssumption DEF HubBroadcasts
  <2>4. HubTypeOK' /\ PersistenceTypeOK'
    BY <2>1, <2>3, BroadcastHandledType
  <2>5. QED
    BY <1>2, <2>2, <2>4, UnchangedType DEF HubBroadcasts, StopTypeOK
<1>3. CASE HubQuits \/ HubReturns
  <2>1. HubTypeOK'
    BY <1>3 DEF HubQuits, HubReturns, HubTypeOK
  <2>2. QED
    BY <1>3, <2>1, UnchangedType DEF HubQuits, HubReturns, BroadcastTypeOK, StopTypeOK
<1>4. QED
  BY <1>1, <1>2, <1>3

\* and of Stop, the workers, the pruner and the process.
LEMMA OtherStepType ==
    ASSUME TypeOK,
           \/ StopBegins
           \/ StopClosesPersist
           \/ StopReturns
           \/ ProcessExits
           \/ \E w \in Workers : Persists(w)
           \/ Prunes
    PROVE  TypeOK'
<1> USE TypeSplit
<1>1. CASE StopBegins \/ StopReturns
  BY <1>1, UnchangedType DEF StopBegins, StopReturns, BroadcastTypeOK, StopTypeOK
<1>2. CASE StopClosesPersist
  <2>1. PersistenceTypeOK'
    BY <1>2 DEF StopClosesPersist, ClosePersistCh, PersistenceTypeOK
  <2>2. QED
    BY <1>2, <2>1, UnchangedType DEF StopClosesPersist, BroadcastTypeOK, StopTypeOK
<1>3. CASE \E w \in Workers : Persists(w)
  <2>1. PersistenceTypeOK'
    BY <1>3, WorkerType DEF Persists
  <2>2. QED
    BY <1>3, <2>1, UnchangedType DEF Persists, BroadcastTypeOK, StopTypeOK
<1>4. CASE Prunes
  <2>1. PersistenceTypeOK'
    BY <1>4 DEF Prunes, PruneLocations, PersistenceTypeOK
  <2>2. QED
    BY <1>4, <2>1, UnchangedType DEF Prunes, BroadcastTypeOK, StopTypeOK
<1>5. CASE ProcessExits
  <2>1. HubTypeOK'
    BY <1>5 DEF ProcessExits, HubTypeOK
  <2>2. ConnTypeOK'
    BY <1>5 DEF ProcessExits, ConnTypeOK, viewVars
  <2>3. QED
    BY <1>5, <2>1, <2>2, UnchangedType DEF ProcessExits, BroadcastTypeOK, StopTypeOK
<1>6. QED
  BY <1>1, <1>2, <1>3, <1>4, <1>5

\* The hub is replaying only from AdmitJoiner, which names the joiner, on.
LEMMA ReplayingKept ==
    ASSUME Replaying, [Next]_vars
    PROVE  Replaying'
<1>1. ASSUME UNCHANGED <<run, joiner>>
      PROVE  Replaying'
  BY <1>1 DEF Replaying
<1>2. ASSUME NEW c \in Clients, ClientNext(c)
      PROVE  Replaying'
  <2>1. CASE HubRegisters(c)
    BY <2>1 DEF Replaying, HubRegisters, RejectJoiner, AdmitJoiner
  <2>2. CASE HubUnregisters(c) \/ HubDrops(c)
    <3>1. UNCHANGED <<run, joiner>>
      BY <2>2 DEF HubUnregisters, HubDrops, HandleUnregister, UnregisterMember,
                  UnregisterStranger, hubVars
    <3>2. QED
      BY <3>1, <1>1
  <2>3. CASE ~HubRegisters(c) /\ ~HubUnregisters(c) /\ ~HubDrops(c)
    <3>1. UNCHANGED <<run, joiner>>
      BY <1>2, <2>3
      DEF ClientNext, Connect, PeerCloses, Recycle, ReadForwards, ReadFails,
          WriteDelivers, WriteFails, PingFails, WriteCloses, WritePumpReturns, hubVars
    <3>2. QED
      BY <3>1, <1>1
  <2>4. QED
    BY <2>1, <2>2, <2>3
<1>3. CASE HubReplays
  BY <1>3 DEF Replaying, HubReplays, ReplayLocation, ReplayOverflows, ReplayTrip
<1>4. CASE HubBroadcasts
  <2>1. run' = "panicked" \/ (run' = run /\ joiner' = joiner)
    BY <1>4 DEF HubBroadcasts, HandleBroadcast, HandleLocation, HandleTripCreate,
                HandleTripJoin, HandleTripLeave, HandleTripStart, HandleTripEnd,
                UnchangedByTrips, hubVars
  <2>2. QED
    BY <2>1 DEF Replaying
<1>5. CASE HubQuits \/ HubReturns
  BY <1>5 DEF Replaying, HubQuits, HubReturns
<1>6. CASE \/ StopBegins
           \/ StopClosesPersist
           \/ StopReturns
           \/ \E w \in Workers : Persists(w)
           \/ Prunes
           \/ UNCHANGED vars
  <2>1. UNCHANGED <<run, joiner>>
    BY <1>6 DEF StopBegins, StopClosesPersist, StopReturns, Persists, Prunes, hubVars, vars
  <2>2. QED
    BY <2>1, <1>1
<1>7. CASE ProcessExits
  BY <1>7 DEF ProcessExits, Replaying
<1>8. QED
  BY <1>2, <1>3, <1>4, <1>5, <1>6, <1>7 DEF Next

\* Every variable keeps its type; in particular no Send channel, Broadcast or
\* persistCh ever holds more than its capacity, whatever those are.
THEOREM TypeCorrect == Spec => []TypeOK
<1> DEFINE TInv == TypeOK /\ Replaying
<1>1. Init => TInv
  <2> SUFFICES ASSUME Init PROVE TInv
    OBVIOUS
  <2>1. PersistenceTypeOK
    <3>1. /\ persistCh \in Seq(Location)
          /\ Len(persistCh) <= PersistCap
      BY PersistCapNat, EmptySeq DEF Init, PersistenceInit
    <3>2. worker \in [Workers -> WorkerState]
      BY DEF Init, PersistenceInit, WorkerState
    <3>3. QED
      BY <3>1, <3>2 DEF Init, PersistenceInit, PersistenceTypeOK
  <2>2. HubTypeOK
    BY HubAssumption, EmptySeq DEF Init, HubInit, HubTypeOK, NoPositions
  <2>3. ConnTypeOK
    BY DEF Init, ConnTypeOK, NoPositions
  <2>4. BroadcastTypeOK
    BY ServerAssumption, EmptySeq DEF Init, BroadcastTypeOK
  <2>5. QED
    BY <2>1, <2>2, <2>3, <2>4, TypeSplit DEF Init, HubInit, StopTypeOK, Replaying
<1>2. TInv /\ [Next]_vars => TInv'
  <2> SUFFICES ASSUME TInv, [Next]_vars PROVE TInv'
    OBVIOUS
  <2>1. TypeOK'
    <3>1. CASE UNCHANGED vars
      BY <3>1, UnchangedType, TypeSplit DEF vars, BroadcastTypeOK, StopTypeOK
    <3>2. CASE Next
      BY <3>2, ClientStepType, HubStepType, OtherStepType DEF Next
    <3>3. QED
      BY <3>1, <3>2
  <2>2. QED
    BY <2>1, ReplayingKept
<1>3. QED
  BY <1>1, <1>2, PTL DEF Spec

-----------------------------------------------------------------------------
(* Membership                                                              *)

memberVars == <<groups, sendClosed, rooms, run, joiner, todo, phase, connOpen, writing>>

\* MembershipInv depends on these variables only.
LEMMA MembershipUntouched ==
    ASSUME MembershipInv, UNCHANGED memberVars
    PROVE  MembershipInv'
BY DEF MembershipInv, MemberIffOpen, LeaversAreOut, RoomsNonEmpty, MembersBelong,
       ReplayIsToMember, ConnsArePlaced, IsMember, Others, memberVars

\* The conjuncts that only look at the groups, the rooms and the replay.
LEMMA GroupsUntouched ==
    ASSUME MembershipInv, UNCHANGED <<groups, rooms, run, joiner, todo>>
    PROVE  RoomsNonEmpty' /\ MembersBelong' /\ ReplayIsToMember'
BY DEF MembershipInv, RoomsNonEmpty, MembersBelong, ReplayIsToMember, IsMember, Others

\* A group without a seat has a member, since the limit is at least one.
LEMMA FullIsNotEmpty ==
    ASSUME NEW g \in Groups, ~HasSeat(g)
    PROVE  groups[g] # {}
<1> SUFFICES ASSUME groups[g] = {} PROVE FALSE
  OBVIOUS
<1>1. Cardinality(groups[g]) = 0
  BY FS_EmptySet
<1>2. QED
  BY <1>1, HubAssumption DEF HasSeat

\* The pumps and the browsers only move phases and close connections.
LEMMA PumpsKeepMembership ==
    ASSUME TypeOK, MembershipInv, NEW c \in Clients,
           \/ Connect(c)
           \/ PeerCloses(c)
           \/ Recycle(c)
           \/ \E m \in Message : ReadForwards(c, m)
           \/ ReadFails(c)
           \/ WriteDelivers(c)
           \/ WriteFails(c)
           \/ PingFails(c)
           \/ WriteCloses(c)
    PROVE  MembershipInv'
<1>1. phase \in [Clients -> {"idle", "dialing", "running", "leaving", "done"}]
  BY DEF TypeOK
<1> USE DEF MemberIffOpen, LeaversAreOut, ConnsArePlaced, IsMember
<1>2. UNCHANGED <<groups, rooms, run, joiner, todo>>
  BY DEF Connect, PeerCloses, Recycle, ReadForwards, ReadFails, WriteDelivers,
         WriteFails, PingFails, WriteCloses, WritePumpReturns, hubVars
<1>3. CASE Connect(c)
  <2>1. MemberIffOpen' /\ LeaversAreOut' /\ ConnsArePlaced'
    BY <1>1, <1>3 DEF Connect, MembershipInv, hubVars
  <2>2. QED
    BY <1>2, <2>1, GroupsUntouched DEF MembershipInv
<1>4. CASE PeerCloses(c)
  <2>1. MemberIffOpen' /\ LeaversAreOut' /\ ConnsArePlaced'
    BY <1>1, <1>4 DEF PeerCloses, ConnCloses, MembershipInv, hubVars
  <2>2. QED
    BY <1>2, <2>1, GroupsUntouched DEF MembershipInv
<1>5. CASE Recycle(c)
  <2>1. MemberIffOpen' /\ LeaversAreOut' /\ ConnsArePlaced'
    BY <1>1, <1>5 DEF Recycle, MembershipInv
  <2>2. QED
    BY <1>2, <2>1, GroupsUntouched DEF MembershipInv
<1>6. CASE \/ \E m \in Message : ReadForwards(c, m)
           \/ WriteDelivers(c)
  BY <1>6, MembershipUntouched
  DEF ReadForwards, WriteDelivers, memberVars, hubVars, connVars
<1>7. CASE ReadFails(c)
  <2>1. MemberIffOpen' /\ LeaversAreOut' /\ ConnsArePlaced'
    BY <1>1, <1>7 DEF ReadFails, MembershipInv, hubVars
  <2>2. QED
    BY <1>2, <2>1, GroupsUntouched DEF MembershipInv
<1>8. CASE WriteFails(c) \/ PingFails(c) \/ WriteCloses(c)
  <2>1. MemberIffOpen' /\ LeaversAreOut' /\ ConnsArePlaced'
    BY <1>1, <1>8
    DEF WriteFails, PingFails, WriteCloses, WritePumpReturns, ConnCloses, MembershipInv
  <2>2. QED
    BY <1>2, <2>1, GroupsUntouched DEF MembershipInv
<1>9. QED
  BY <1>3, <1>4, <1>5, <1>6, <1>7, <1>8

\* A registration keeps MembershipInv: a rejected client is closed and no member,
\* an admitted one is the joiner.
LEMMA RegisterKeepsMembership ==
    ASSUME TypeOK, MembershipInv, NEW c \in Clients, HubRegisters(c)
    PROVE  MembershipInv'
<1> DEFINE g == GroupOf[c]
<1> USE DEF MemberIffOpen, LeaversAreOut, RoomsNonEmpty, MembersBelong,
            ReplayIsToMember, ConnsArePlaced, IsMember
<1>1. /\ phase \in [Clients -> {"idle", "dialing", "running", "leaving", "done"}]
      /\ groups \in [Groups -> SUBSET Clients]
      /\ g \in Groups
  BY NamesType DEF TypeOK, HubTypeOK
<1>2. /\ phase[c] = "dialing"
      /\ phase' = [phase EXCEPT ![c] = "running"]
      /\ writing' = writing \cup {c}
      /\ run = "select"
      /\ UNCHANGED connOpen
  BY DEF HubRegisters
<1>3. c \notin groups[g] /\ c \notin sendClosed
  BY <1>2 DEF MembershipInv
<1>4. ConnsArePlaced'
  BY <1>1, <1>2 DEF MembershipInv
<1>5. CASE RejectJoiner(c)
  <2>1. /\ rooms' = rooms \cup {g}
        /\ sendClosed' = sendClosed \cup {c}
        /\ groups[g] # {}
        /\ UNCHANGED <<groups, run, joiner, todo>>
    BY <1>1, <1>5, FullIsNotEmpty DEF RejectJoiner, MakeGroup, CloseSend
  <2>2. MemberIffOpen' /\ LeaversAreOut'
    BY <1>1, <1>2, <1>3, <2>1 DEF MembershipInv
  <2>3. RoomsNonEmpty'
    BY <1>1, <2>1 DEF MembershipInv
  <2>4. MembersBelong' /\ ReplayIsToMember'
    BY <1>2, <2>1 DEF MembershipInv
  <2>5. QED
    BY <1>4, <2>2, <2>3, <2>4 DEF MembershipInv
<1>6. CASE AdmitJoiner(c)
  <2>1. /\ rooms' = rooms \cup {g}
        /\ groups' = [groups EXCEPT ![g] = @ \cup {c}]
        /\ run' = "replay"
        /\ joiner' = c
        /\ todo' = {u \in Users : cache'[g][u] # None}
        /\ UNCHANGED sendClosed
    BY <1>6 DEF AdmitJoiner, MakeGroup
  <2>2. MemberIffOpen' /\ LeaversAreOut'
    BY <1>1, <1>2, <1>3, <2>1, HubAssumption DEF MembershipInv
  <2>3. RoomsNonEmpty' /\ MembersBelong'
    BY <1>1, <2>1 DEF MembershipInv
  <2>4. todo' # {} => groups[g] # {}
    <3>1. CASE g \in rooms
      BY <1>1, <3>1 DEF MembershipInv
    <3>2. CASE g \notin rooms
      <4>1. cache' = [cache EXCEPT ![g] = NoPositions]
        BY <1>6, <3>2 DEF AdmitJoiner, MakeGroup
      <4>2. cache'[g] = NoPositions
        BY <1>1, <4>1 DEF TypeOK, HubTypeOK
      <4>3. QED
        BY <2>1, <4>2 DEF NoPositions
    <3>3. QED
      BY <3>1, <3>2
  <2>5. ReplayIsToMember'
    <3>1. groups'[g] = groups[g] \cup {c}
      BY <1>1, <2>1
    <3>2. todo' # {} => groups'[g] \ {c} # {}
      BY <1>3, <2>4, <3>1
    <3>3. QED
      BY <2>1, <3>1, <3>2 DEF Others
  <2>6. QED
    BY <1>4, <2>2, <2>3, <2>5 DEF MembershipInv
<1>7. QED
  BY <1>5, <1>6 DEF HubRegisters

\* The replay keeps it; an overflowing joiner leaves a group that has others.
LEMMA ReplayKeepsMembership ==
    ASSUME TypeOK, MembershipInv, HubReplays
    PROVE  MembershipInv'
<1> USE DEF MemberIffOpen, LeaversAreOut, RoomsNonEmpty, MembersBelong,
            ReplayIsToMember, ConnsArePlaced, IsMember
<1> DEFINE g == GroupOf[joiner]
<1>1. /\ run = "replay"
      /\ joiner \in Clients
      /\ joiner \in groups[g]
      /\ g \in Groups
      /\ groups \in [Groups -> SUBSET Clients]
      /\ UNCHANGED <<phase, connOpen, writing>>
  BY NamesType
  DEF MembershipInv, TypeOK, HubTypeOK, HubReplays, ReplayLocation, ReplayOverflows,
      ReplayTrip, connVars
<1>2. ASSUME NEW u \in Users, ReplayLocation(u)
      PROVE  MembershipInv'
  BY <1>1, <1>2 DEF MembershipInv, ReplayLocation, Others
<1>3. CASE ReplayOverflows
  <2>1. /\ sendClosed' = sendClosed \cup {joiner}
        /\ groups' = [groups EXCEPT ![g] = @ \ {joiner}]
        /\ run' = "select"
        /\ joiner' = None
        /\ todo' = {}
        /\ UNCHANGED rooms
    BY <1>3 DEF ReplayOverflows, CloseSend
  <2>2. groups[g] \ {joiner} # {}
    BY <1>1, <1>3 DEF MembershipInv, ReplayOverflows, Others
  <2>3. phase[joiner] \notin {"idle", "dialing"}
    BY <1>1 DEF MembershipInv
  <2>4. MemberIffOpen' /\ LeaversAreOut'
    BY <1>1, <2>1, <2>3, HubAssumption DEF MembershipInv
  <2>5. RoomsNonEmpty' /\ MembersBelong'
    BY <1>1, <2>1, <2>2 DEF MembershipInv
  <2>6. ReplayIsToMember' /\ ConnsArePlaced'
    BY <1>1, <2>1 DEF MembershipInv
  <2>7. QED
    BY <2>4, <2>5, <2>6 DEF MembershipInv
<1>4. CASE ReplayTrip
  BY <1>1, <1>4 DEF MembershipInv, ReplayTrip
<1>5. QED
  BY <1>2, <1>3, <1>4 DEF HubReplays

\* An unregistration keeps it, collecting the group it empties.
LEMMA UnregisterKeepsMembership ==
    ASSUME TypeOK, MembershipInv, NEW c \in Clients, HubUnregisters(c) \/ HubDrops(c)
    PROVE  MembershipInv'
<1> USE DEF MemberIffOpen, LeaversAreOut, RoomsNonEmpty, MembersBelong,
            ReplayIsToMember, ConnsArePlaced, IsMember
<1> DEFINE g    == GroupOf[c]
           rest == groups[g] \ {c}
<1>1. /\ phase \in [Clients -> {"idle", "dialing", "running", "leaving", "done"}]
      /\ groups \in [Groups -> SUBSET Clients]
      /\ g \in Groups
      /\ run # "replay"
      /\ joiner = None
      /\ todo = {}
  BY NamesType DEF TypeOK, HubTypeOK, MembershipInv, HubUnregisters, HubDrops
<1>2. CASE c \in groups[g]
  <2>1. PICK ok \in StoreOutcomes : UnregisterMember(c, ok)
    BY <1>2 DEF HubUnregisters, HubDrops, HandleUnregister, UnregisterStranger
  <2>2. /\ groups' = [groups EXCEPT ![g] = rest]
        /\ sendClosed' = sendClosed \cup {c}
        /\ rooms' = IF rest = {} THEN rooms \ {g} ELSE rooms
        /\ UNCHANGED <<run, joiner, todo>>
    BY <2>1 DEF UnregisterMember, CloseSend, Abandoned, Others
  <2>3. phase[c] \notin {"idle", "dialing"}
    BY <1>2 DEF MembershipInv
  <2>4. RoomsNonEmpty' /\ MembersBelong' /\ ReplayIsToMember'
    BY <1>1, <2>2 DEF MembershipInv
  <2>5. CASE HubUnregisters(c)
    <3>1. /\ phase' = [phase EXCEPT ![c] = "done"]
          /\ connOpen' = connOpen \ {c}
          /\ phase[c] = "leaving"
          /\ UNCHANGED writing
      BY <2>5 DEF HubUnregisters, ConnCloses
    <3>2. MemberIffOpen' /\ LeaversAreOut'
      BY <1>1, <2>2, <2>3, <3>1, HubAssumption DEF MembershipInv
    <3>3. ConnsArePlaced'
      BY <1>1, <3>1 DEF MembershipInv
    <3>4. QED
      BY <2>4, <3>2, <3>3 DEF MembershipInv
  <2>6. CASE HubDrops(c)
    <3>1. UNCHANGED <<phase, connOpen, writing>>
      BY <2>6 DEF HubDrops, connVars
    <3>2. MemberIffOpen' /\ LeaversAreOut'
      BY <1>1, <2>2, <2>3, <3>1, HubAssumption DEF MembershipInv
    <3>3. ConnsArePlaced'
      BY <3>1 DEF MembershipInv
    <3>4. QED
      BY <2>4, <3>2, <3>3 DEF MembershipInv
  <2>7. QED
    BY <2>5, <2>6
<1>3. CASE c \notin groups[g]
  <2>1. /\ UNCHANGED <<groups, rooms, run, joiner, todo, sendClosed, writing>>
        /\ phase[c] = "leaving"
        /\ phase' = [phase EXCEPT ![c] = "done"]
        /\ connOpen' = connOpen \ {c}
    BY <1>3
    DEF HubUnregisters, HubDrops, HandleUnregister, UnregisterMember,
        UnregisterStranger, hubVars, ConnCloses
  <2>2. MemberIffOpen' /\ LeaversAreOut' /\ ConnsArePlaced'
    BY <1>1, <1>3, <2>1 DEF MembershipInv
  <2>3. QED
    BY <2>1, <2>2, GroupsUntouched DEF MembershipInv
<1>4. QED
  BY <1>2, <1>3

\* A message, SIGTERM and the store leave membership alone; a message may end
\* the process.
LEMMA OthersKeepMembership ==
    ASSUME TypeOK, MembershipInv,
           \/ HubBroadcasts
           \/ HubQuits
           \/ HubReturns
           \/ StopBegins
           \/ StopClosesPersist
           \/ StopReturns
           \/ \E w \in Workers : Persists(w)
           \/ Prunes
    PROVE  MembershipInv'
<1>1. UNCHANGED <<groups, sendClosed, rooms, joiner, todo, phase, connOpen, writing>>
  BY DEF HubBroadcasts, HandleBroadcast, HandleLocation, HandleTripCreate,
         HandleTripJoin, HandleTripLeave, HandleTripStart, HandleTripEnd,
         UnchangedByTrips, HubQuits, HubReturns, StopBegins, StopClosesPersist,
         StopReturns, Persists, Prunes, hubVars, connVars
<1>2. run' = run \/ (run # "replay" /\ run' # "replay")
  <2>1. CASE HubBroadcasts
    <3>1. run = "select"
      BY <2>1 DEF HubBroadcasts
    <3>2. run' \in {run, "panicked"}
      BY <2>1 DEF HubBroadcasts, HandleBroadcast, HandleLocation, HandleTripCreate,
                  HandleTripJoin, HandleTripLeave, HandleTripStart, HandleTripEnd,
                  UnchangedByTrips, hubVars
    <3>3. QED
      BY <3>1, <3>2
  <2>2. CASE HubQuits \/ HubReturns
    BY <2>2 DEF HubQuits, HubReturns
  <2>3. CASE \/ StopBegins
             \/ StopClosesPersist
             \/ StopReturns
             \/ \E w \in Workers : Persists(w)
             \/ Prunes
    <3>1. UNCHANGED hubVars
      BY <2>3 DEF StopBegins, StopClosesPersist, StopReturns, Persists, Prunes
    <3>2. QED
      BY <3>1 DEF hubVars
  <2>4. QED
    BY <2>1, <2>2, <2>3
<1>3. QED
  BY <1>1, <1>2
  DEF MembershipInv, MemberIffOpen, LeaversAreOut, RoomsNonEmpty, MembersBelong,
      ReplayIsToMember, ConnsArePlaced, IsMember, Others

\* The process may end while the hub replays.
LEMMA ExitKeepsMembership ==
    ASSUME TypeOK, MembershipInv, ProcessExits
    PROVE  MembershipInv'
BY DEF ProcessExits, MembershipInv, MemberIffOpen, LeaversAreOut, RoomsNonEmpty,
       MembersBelong, ReplayIsToMember, ConnsArePlaced, IsMember

\* For any number of clients, groups and messages: a client is a member exactly
\* while its Send is open, leaves nothing behind, and groups exist exactly as
\* long as they have members.
THEOREM MembershipCorrect == Spec => []MembershipInv
<1>1. Init => MembershipInv
  <2> SUFFICES ASSUME Init PROVE MembershipInv
    OBVIOUS
  <2>1. \A c \in Clients : ~IsMember(c) /\ phase[c] = "idle"
    BY NamesType DEF Init, HubInit, IsMember
  <2>2. MemberIffOpen /\ LeaversAreOut /\ ConnsArePlaced
    BY <2>1 DEF Init, HubInit, MemberIffOpen, LeaversAreOut, ConnsArePlaced
  <2>3. RoomsNonEmpty /\ MembersBelong /\ ReplayIsToMember
    BY DEF Init, HubInit, RoomsNonEmpty, MembersBelong, ReplayIsToMember
  <2>4. QED
    BY <2>2, <2>3 DEF MembershipInv
<1>2. TypeOK /\ MembershipInv /\ [Next]_vars => MembershipInv'
  <2> SUFFICES ASSUME TypeOK, MembershipInv, [Next]_vars PROVE MembershipInv'
    OBVIOUS
  <2>1. CASE UNCHANGED vars
    BY <2>1, MembershipUntouched DEF vars, hubVars, connVars, memberVars
  <2>2. CASE Next
    BY <2>2, PumpsKeepMembership, RegisterKeepsMembership, ReplayKeepsMembership,
       UnregisterKeepsMembership, OthersKeepMembership, ExitKeepsMembership
    DEF Next, ClientNext
  <2>3. QED
    BY <2>1, <2>2
<1>3. QED
  BY <1>1, <1>2, TypeCorrect, PTL DEF Spec

-----------------------------------------------------------------------------
(* Sends                                                                   *)

\* Nobody outside its group is sent anything in this step.
OnlyMembersAreSentTo ==
    \A d \in Clients : ~IsMember(d) => ~(Len(sendBuf'[d]) > Len(sendBuf[d]))

\* A step that fills only the channels of to, a set of members.
LEMMA MembersOnly ==
    ASSUME TypeOK, NEW to,
           \A d \in to \cap Clients : IsMember(d),
           \A d \in Clients \ to : sendBuf'[d] = sendBuf[d]
    PROVE  OnlyMembersAreSentTo
<1>1. \A d \in Clients : Len(sendBuf[d]) \in Nat
  BY LenProperties DEF TypeOK, HubTypeOK
<1>2. QED
  BY <1>1 DEF OnlyMembersAreSentTo

\* Whom one or two envelopes to a set of clients leave alone.
LEMMA SendReaches ==
    /\ \A to, m : SendEach(to, m) =>
          \A d \in Clients \ to : sendBuf'[d] = sendBuf[d]
    /\ \A to, m1, m2 : SendBoth(to, m1, m2) =>
          \A d \in Clients \ to : sendBuf'[d] = sendBuf[d]
BY DEF SendEach, SendBoth

\* A group is the set of its members.
LEMMA GroupIsMembers ==
    ASSUME MembershipInv, NEW g \in Groups, NEW d \in groups[g]
    PROVE  IsMember(d)
BY DEF MembershipInv, MembersBelong, IsMember

\* An unregistration sends to members only.
LEMMA UnregisterSends ==
    ASSUME TypeOK, MembershipInv, NEW c \in Clients, NEW ok,
           HandleUnregister(c, ok)
    PROVE  OnlyMembersAreSentTo
<1>1. \A d \in Clients \ Others(c) : sendBuf'[d] = sendBuf[d]
  <2>1. CASE UnregisterStranger(c)
    BY <2>1 DEF UnregisterStranger, hubVars
  <2>2. CASE UnregisterMember(c, ok)
    BY <2>2, SendReaches DEF UnregisterMember
  <2>3. QED
    BY <2>1, <2>2 DEF HandleUnregister
<1>2. \A d \in Others(c) : IsMember(d)
  BY NamesType, GroupIsMembers DEF Others
<1>3. QED
  BY <1>1, <1>2, MembersOnly

\* A message from a browser is passed on to members only.
LEMMA MessageSends ==
    ASSUME TypeOK, MembershipInv, HubBroadcasts
    PROVE  OnlyMembersAreSentTo
<1> DEFINE m == Head(broadcast)
           c == m.sender
           g == GroupOf[c]
<1>1. PICK ok \in StoreOutcomes : HandleBroadcast(m, ok)
  BY DEF HubBroadcasts
<1>2. c \in Clients /\ g \in Groups
  <2>1. m \in Message
    BY HeadTailProperties DEF TypeOK, HubBroadcasts
  <2>2. QED
    BY <2>1, NamesType DEF Message
<1> HIDE DEF c, g
<1>3. \A d \in Clients \ groups[g] : sendBuf'[d] = sendBuf[d]
  <2>1. CASE HandleLocation(m.sender, m.pos)
    <3>1. UNCHANGED sendBuf \/ \E e : SendEach(Others(c), e)
      BY <2>1 DEF HandleLocation, c
    <3>2. Others(c) \subseteq groups[g]
      BY DEF Others, g
    <3>3. QED
      BY <3>1, <3>2, SendReaches
  <2>2. CASE ~HandleLocation(m.sender, m.pos)
    <3>1. UNCHANGED sendBuf \/ \E e : SendEach(groups[g], e)
      BY <1>1, <2>2
      DEF HandleBroadcast, HandleTripCreate, HandleTripJoin, HandleTripLeave,
          HandleTripStart, HandleTripEnd, TripBecomes, hubVars, c, g
    <3>2. QED
      BY <3>1, SendReaches
  <2>3. QED
    BY <2>1, <2>2
<1>4. QED
  BY <1>2, <1>3, GroupIsMembers, MembersOnly

\* So no step sends on a closed Send.
LEMMA StepSends ==
    ASSUME TypeOK, MembershipInv, Next
    PROVE  OnlyMembersAreSentTo
<1>1. \A d \in Clients : sendBuf[d] \in Seq(Envelope) /\ Len(sendBuf[d]) \in Nat
  BY LenProperties DEF TypeOK, HubTypeOK
<1>2. ASSUME UNCHANGED sendBuf PROVE OnlyMembersAreSentTo
  BY <1>1, <1>2 DEF OnlyMembersAreSentTo
<1>3. ASSUME NEW c \in Clients, ClientNext(c) PROVE OnlyMembersAreSentTo
  <2>1. CASE HubUnregisters(c)
    BY <2>1, UnregisterSends DEF HubUnregisters
  <2>2. CASE HubDrops(c)
    BY <2>2, UnregisterSends DEF HubDrops, HandleUnregister
  <2>3. CASE Recycle(c)
    <3>1. \A d \in Clients : sendBuf'[d] = sendBuf[d] \/ sendBuf'[d] = <<>>
      BY <2>3 DEF Recycle, TypeOK, HubTypeOK
    <3>2. Len(<<>>) = 0
      BY EmptySeq
    <3>3. QED
      BY <1>1, <3>1, <3>2 DEF OnlyMembersAreSentTo
  <2>4. CASE WriteDelivers(c) \/ WriteFails(c)
    <3>1. /\ sendBuf[c] # <<>>
          /\ sendBuf' = [sendBuf EXCEPT ![c] = Tail(@)]
      BY <2>4 DEF WriteDelivers, WriteFails
    <3>2. Len(Tail(sendBuf[c])) = Len(sendBuf[c]) - 1
      BY <1>1, <3>1, HeadTailProperties
    <3>3. \A d \in Clients : Len(sendBuf'[d]) <= Len(sendBuf[d])
      BY <1>1, <3>1, <3>2 DEF TypeOK, HubTypeOK
    <3>4. \A d \in Clients : Len(sendBuf'[d]) \in Nat
      BY <1>1, <3>1, <3>2 DEF TypeOK, HubTypeOK
    <3>5. QED
      BY <1>1, <3>3, <3>4 DEF OnlyMembersAreSentTo
  <2>5. CASE ~(HubUnregisters(c) \/ HubDrops(c) \/ Recycle(c) \/ WriteDelivers(c)
                 \/ WriteFails(c))
    <3>1. UNCHANGED sendBuf
      BY <1>3, <2>5
      DEF ClientNext, Connect, PeerCloses, ReadForwards, ReadFails, PingFails,
          WriteCloses, HubRegisters, RejectJoiner, AdmitJoiner, hubVars
    <3>2. QED
      BY <1>2, <3>1
  <2>6. QED
    BY <2>1, <2>2, <2>3, <2>4, <2>5
<1>4. CASE HubReplays
  <2>1. joiner \in Clients /\ IsMember(joiner)
    BY <1>4 DEF HubReplays, ReplayLocation, ReplayOverflows, ReplayTrip, MembershipInv,
                ReplayIsToMember
  <2>2. \A d \in Clients \ {joiner} : sendBuf'[d] = sendBuf[d]
    <3>1. CASE ReplayTrip
      BY <3>1, SendReaches DEF ReplayTrip
    <3>2. CASE ~ReplayTrip
      BY <1>4, <3>2 DEF HubReplays, ReplayLocation, ReplayOverflows, TypeOK, HubTypeOK
    <3>3. QED
      BY <3>1, <3>2
  <2>3. QED
    BY <2>1, <2>2, MembersOnly
<1>5. CASE \/ HubQuits
           \/ HubReturns
           \/ StopBegins
           \/ StopClosesPersist
           \/ StopReturns
           \/ ProcessExits
           \/ \E w \in Workers : Persists(w)
           \/ Prunes
  <2>1. UNCHANGED sendBuf
    BY <1>5 DEF HubQuits, HubReturns, StopBegins, StopClosesPersist, StopReturns,
                ProcessExits, Persists, Prunes, hubVars
  <2>2. QED
    BY <1>2, <2>1
<1>6. QED
  BY <1>3, <1>4, <1>5, MessageSends DEF Next

\* For any capacities and any number of clients, the hub never panics on a
\* closed Send: whoever is sent an envelope is a member, and a member's Send is
\* open.
THEOREM NeverSendsAfterClose == Spec => NoSendAfterClose
<1>1. ASSUME TypeOK, MembershipInv, [Next]_vars
      PROVE  [\A c \in Clients :
                 Len(sendBuf'[c]) > Len(sendBuf[c]) => c \notin sendClosed]_vars
  <2>1. CASE Next
    BY <1>1, <2>1, StepSends
    DEF OnlyMembersAreSentTo, MembershipInv, MemberIffOpen
  <2>2. QED
    BY <1>1, <2>1
<1>2. QED
  BY <1>1, TypeCorrect, MembershipCorrect, PTL DEF Spec, NoSendAfterClose

-----------------------------------------------------------------------------
(* The limit on the members of a group                                     *)

\* The limit that handleRegister's test on MaxGroupSize keeps.
SizeOK == \A g \in Groups : Cardinality(groups[g]) <= MaxGroupSize

\* Groups are finite, so that they have a cardinality.
LEMMA GroupsFinite ==
    ASSUME HubTypeOK, NEW g \in Groups
    PROVE  IsFiniteSet(groups[g]) /\ Cardinality(groups[g]) \in Nat
BY HubAssumption, FS_Subset, FS_CardinalityType DEF HubTypeOK

\* A group that loses members is no larger.
LEMMA SmallerIsFine ==
    ASSUME HubTypeOK, SizeOK, NEW g \in Groups, NEW S,
           groups' = [groups EXCEPT ![g] = @ \ S]
    PROVE  SizeOK'
<1>1. /\ groups'[g] = groups[g] \ S
      /\ \A h \in Groups \ {g} : groups'[h] = groups[h]
  BY DEF HubTypeOK
<1>2. Cardinality(groups'[g]) <= Cardinality(groups[g])
  BY <1>1, GroupsFinite, FS_Subset
<1>3. /\ Cardinality(groups'[g]) \in Nat
      /\ Cardinality(groups[g]) \in Nat
      /\ MaxGroupSize \in Nat
  BY <1>1, GroupsFinite, FS_Subset, FS_CardinalityType, HubAssumption
<1>4. QED
  BY <1>1, <1>2, <1>3 DEF SizeOK

\* One more member where there is a seat.
LEMMA SeatTaken ==
    ASSUME HubTypeOK, SizeOK, NEW c \in Clients, NEW g \in Groups, HasSeat(g),
           groups' = [groups EXCEPT ![g] = @ \cup {c}]
    PROVE  SizeOK'
<1>1. /\ groups'[g] = groups[g] \cup {c}
      /\ \A h \in Groups \ {g} : groups'[h] = groups[h]
  BY DEF HubTypeOK
<1>2. Cardinality(groups'[g]) <= Cardinality(groups[g]) + 1
  <2>1. IsFiniteSet(groups[g]) /\ Cardinality(groups[g]) \in Nat
    BY GroupsFinite
  <2>2. Cardinality(groups[g] \cup {c}) =
            IF c \in groups[g] THEN Cardinality(groups[g]) ELSE Cardinality(groups[g]) + 1
    BY ONLY <2>1, FS_AddElement
  <2>3. QED
    BY <1>1, <2>1, <2>2
<1>3. /\ Cardinality(groups'[g]) \in Nat
      /\ Cardinality(groups[g]) \in Nat
      /\ MaxGroupSize \in Nat
  BY <1>1, GroupsFinite, FS_AddElement, FS_CardinalityType, HubAssumption
<1>4. Cardinality(groups'[g]) <= MaxGroupSize
  BY <1>2, <1>3 DEF HasSeat
<1>5. QED
  BY <1>1, <1>4 DEF SizeOK

-----------------------------------------------------------------------------
(* What a step does to membership                                          *)

\* What a step of the server is, seen through the mapping.
MembershipSteps == AbstractRooms!Next \/ UNCHANGED Membership

\* Neither the phase nor the group of any client moves between outside and
\* inside.
LEMMA Stutters ==
    ASSUME UNCHANGED groups,
           \A d \in Clients : phase'[d] \in {"idle", "dialing"}
                                  <=> phase[d] \in {"idle", "dialing"}
    PROVE  UNCHANGED Membership
BY DEF Membership, IsMember

\* Through the mapping, a group's clients inside are its members.
LEMMA InsideIsGroup ==
    ASSUME TypeOK, MembershipInv, NEW g \in Groups
    PROVE  AbstractRooms!Inside(g) = groups[g]
<1>1. groups[g] \subseteq Clients
  BY DEF TypeOK, HubTypeOK
<1>2. \A d \in Clients : Membership[d] = "in" <=> IsMember(d)
  BY DEF Membership, MembershipInv, MemberIffOpen
<1>3. \A d \in groups[g] : GroupOf[d] = g
  BY DEF MembershipInv, MembersBelong
<1>4. QED
  BY <1>1, <1>2, <1>3 DEF AbstractRooms!Inside, IsMember

\* The instance has a Cardinality of its own, with the same definition.
LEMMA SameCardinality ==
    ASSUME NEW S
    PROVE  AbstractRooms!Cardinality(S) = Cardinality(S)
BY DEF AbstractRooms!Cardinality, Cardinality

\* One client changes its status.
LEMMA OneMoves ==
    ASSUME NEW c \in Clients, NEW from, NEW to,
           Membership[c] = from, Membership'[c] = to,
           \A d \in Clients \ {c} : Membership'[d] = Membership[d]
    PROVE  AbstractRooms!Becomes(c, from, to)
<1>1. Membership' = [Membership EXCEPT ![c] = to]
  BY DEF Membership
<1>2. QED
  BY <1>1 DEF AbstractRooms!Becomes

\* A registration is an Admit or a TurnAway.
LEMMA RegisterRefines ==
    ASSUME TypeOK, MembershipInv, SizeOK, NEW c \in Clients, HubRegisters(c)
    PROVE  MembershipSteps /\ SizeOK'
<1> DEFINE g == GroupOf[c]
<1>1. /\ phase \in [Clients -> {"idle", "dialing", "running", "leaving", "done"}]
      /\ groups \in [Groups -> SUBSET Clients]
      /\ g \in Groups
      /\ HubTypeOK
  BY NamesType DEF TypeOK, HubTypeOK
<1>2. /\ phase[c] = "dialing"
      /\ phase' = [phase EXCEPT ![c] = "running"]
  BY DEF HubRegisters
<1>3. Membership[c] = "out" /\ c \notin groups[g]
  BY <1>2 DEF Membership, MembershipInv, MemberIffOpen, IsMember
<1>4. AbstractRooms!Inside(g) = groups[g]
  BY <1>1, InsideIsGroup
<1>5. CASE RejectJoiner(c)
  <2>1. UNCHANGED groups /\ ~HasSeat(g)
    BY <1>5 DEF RejectJoiner
  <2>2. Membership'[c] = "gone"
    BY <1>1, <1>2, <1>3, <2>1 DEF Membership, IsMember
  <2>3. \A d \in Clients \ {c} : Membership'[d] = Membership[d]
    BY <1>1, <1>2, <2>1 DEF Membership, IsMember
  <2>4. Cardinality(groups[g]) = MaxGroupSize
    BY <1>1, <2>1, GroupsFinite, HubAssumption DEF HasSeat, SizeOK
  <2>5. AbstractRooms!TurnAway(c)
    BY <1>3, <1>4, <2>2, <2>3, <2>4, OneMoves, SameCardinality
    DEF AbstractRooms!TurnAway
  <2>6. QED
    BY <2>1, <2>5 DEF MembershipSteps, AbstractRooms!Next, SizeOK
<1>6. CASE AdmitJoiner(c)
  <2>1. HasSeat(g) /\ groups' = [groups EXCEPT ![g] = @ \cup {c}]
    BY <1>6 DEF AdmitJoiner
  <2>2. Membership'[c] = "in"
    BY <1>1, <1>2, <2>1 DEF Membership, IsMember
  <2>3. \A d \in Clients \ {c} : Membership'[d] = Membership[d]
    BY <1>1, <1>2, <2>1, HubAssumption DEF Membership, IsMember
  <2>4. AbstractRooms!Admit(c)
    BY <1>3, <1>4, <2>1, <2>2, <2>3, OneMoves, SameCardinality
    DEF AbstractRooms!Admit, HasSeat
  <2>5. QED
    BY <1>1, <2>1, <2>4, SeatTaken DEF MembershipSteps, AbstractRooms!Next
<1>7. QED
  BY <1>5, <1>6 DEF HubRegisters

\* A member leaves: c of its group, its phase moving among those inside or gone.
LEMMA LeaveRefines ==
    ASSUME TypeOK, MembershipInv, SizeOK, NEW c \in Clients, IsMember(c),
           groups' = [groups EXCEPT ![GroupOf[c]] = @ \ {c}],
           \A d \in Clients : phase'[d] \in {"idle", "dialing"}
                                  <=> phase[d] \in {"idle", "dialing"}
    PROVE  MembershipSteps /\ SizeOK'
<1>1. /\ groups \in [Groups -> SUBSET Clients]
      /\ GroupOf[c] \in Groups
      /\ HubTypeOK
  BY NamesType DEF TypeOK, HubTypeOK
<1>2. phase[c] \notin {"idle", "dialing"}
  BY DEF MembershipInv, MemberIffOpen
<1>3. Membership[c] = "in" /\ Membership'[c] = "gone"
  BY <1>1, <1>2 DEF Membership, IsMember
<1>4. \A d \in Clients \ {c} : Membership'[d] = Membership[d]
  BY <1>1, HubAssumption DEF Membership, IsMember
<1>5. AbstractRooms!Leave(c)
  BY <1>3, <1>4, OneMoves DEF AbstractRooms!Leave
<1>6. QED
  BY <1>1, <1>5, SmallerIsFine DEF MembershipSteps, AbstractRooms!Next

\* An unregistration is a Leave, or of a client that is gone already.
LEMMA UnregisterRefines ==
    ASSUME TypeOK, MembershipInv, SizeOK, NEW c \in Clients,
           HubUnregisters(c) \/ HubDrops(c)
    PROVE  MembershipSteps /\ SizeOK'
<1>1. \A d \in Clients : phase'[d] \in {"idle", "dialing"}
                             <=> phase[d] \in {"idle", "dialing"}
  BY DEF HubUnregisters, HubDrops, connVars, TypeOK
<1>2. CASE IsMember(c)
  <2>1. groups' = [groups EXCEPT ![GroupOf[c]] = @ \ {c}]
    BY <1>2, NamesType
    DEF HubUnregisters, HubDrops, HandleUnregister, UnregisterStranger, UnregisterMember,
        Others, IsMember
  <2>2. QED
    BY <1>1, <1>2, <2>1, LeaveRefines
<1>3. CASE ~IsMember(c)
  <2>1. UNCHANGED groups
    BY <1>3 DEF HubUnregisters, HubDrops, HandleUnregister, UnregisterStranger,
                UnregisterMember, IsMember, hubVars
  <2>2. QED
    BY <1>1, <2>1, Stutters DEF MembershipSteps, SizeOK
<1>4. QED
  BY <1>2, <1>3

\* A name that stands for a new client is a Forget.
LEMMA RecycleRefines ==
    ASSUME TypeOK, MembershipInv, SizeOK, NEW c \in Clients, Recycle(c)
    PROVE  MembershipSteps /\ SizeOK'
<1>1. /\ phase[c] = "done"
      /\ phase' = [phase EXCEPT ![c] = "idle"]
      /\ UNCHANGED groups
  BY DEF Recycle
<1>2. ~IsMember(c)
  BY <1>1 DEF MembershipInv, LeaversAreOut
<1>3. Membership[c] = "gone" /\ Membership'[c] = "out"
  BY <1>1, <1>2 DEF Membership, TypeOK
<1>4. \A d \in Clients \ {c} : Membership'[d] = Membership[d]
  BY <1>1 DEF Membership, IsMember, TypeOK
<1>5. AbstractRooms!Forget(c)
  BY <1>3, <1>4, OneMoves DEF AbstractRooms!Forget
<1>6. QED
  BY <1>1, <1>5 DEF MembershipSteps, AbstractRooms!Next, SizeOK

\* The replay leaves membership alone, or drops the joiner, which is a Leave.
LEMMA ReplayRefines ==
    ASSUME TypeOK, MembershipInv, SizeOK, HubReplays
    PROVE  MembershipSteps /\ SizeOK'
<1>1. UNCHANGED phase
  BY DEF HubReplays, connVars
<1>2. CASE ReplayOverflows
  <2>1. joiner \in Clients /\ IsMember(joiner)
    BY <1>2 DEF ReplayOverflows, MembershipInv, ReplayIsToMember
  <2>2. groups' = [groups EXCEPT ![GroupOf[joiner]] = @ \ {joiner}]
    BY <1>2 DEF ReplayOverflows
  <2>3. QED
    BY <1>1, <2>1, <2>2, LeaveRefines
<1>3. CASE ~ReplayOverflows
  <2>1. UNCHANGED groups
    BY <1>3 DEF HubReplays, ReplayLocation, ReplayTrip
  <2>2. QED
    BY <1>1, <2>1, Stutters DEF MembershipSteps, SizeOK
<1>4. QED
  BY <1>2, <1>3

\* Every other step leaves membership alone.
LEMMA OthersRefine ==
    ASSUME TypeOK, SizeOK,
           \/ \E c \in Clients : \/ Connect(c)
                                 \/ PeerCloses(c)
                                 \/ \E m \in Message : ReadForwards(c, m)
                                 \/ ReadFails(c)
                                 \/ WriteDelivers(c)
                                 \/ WriteFails(c)
                                 \/ PingFails(c)
                                 \/ WriteCloses(c)
           \/ HubBroadcasts
           \/ HubQuits
           \/ HubReturns
           \/ StopBegins
           \/ StopClosesPersist
           \/ StopReturns
           \/ ProcessExits
           \/ \E w \in Workers : Persists(w)
           \/ Prunes
           \/ UNCHANGED vars
    PROVE  MembershipSteps /\ SizeOK'
<1>1. UNCHANGED groups
  BY DEF Connect, PeerCloses, ReadForwards, ReadFails, WriteDelivers, WriteFails,
         PingFails, WriteCloses, WritePumpReturns, HubBroadcasts, HandleBroadcast,
         HandleLocation, HandleTripCreate, HandleTripJoin, HandleTripLeave,
         HandleTripStart, HandleTripEnd, UnchangedByTrips, HubQuits, HubReturns,
         StopBegins, StopClosesPersist, StopReturns, ProcessExits, Persists, Prunes, hubVars, vars
<1>2. \A d \in Clients : phase'[d] \in {"idle", "dialing"}
                             <=> phase[d] \in {"idle", "dialing"}
  BY DEF Connect, PeerCloses, ReadForwards, ReadFails, WriteDelivers, WriteFails,
         PingFails, WriteCloses, WritePumpReturns, HubBroadcasts, HubQuits, HubReturns,
         StopBegins, StopClosesPersist, StopReturns, ProcessExits, Persists, Prunes, connVars, vars,
         TypeOK
<1>3. QED
  BY <1>1, <1>2, Stutters DEF MembershipSteps, SizeOK

\* So every step refines, and keeps groups within their limit.
LEMMA StepRefines ==
    ASSUME TypeOK, MembershipInv, SizeOK, [Next]_vars
    PROVE  MembershipSteps /\ SizeOK'
BY RegisterRefines, UnregisterRefines, RecycleRefines, ReplayRefines, OthersRefine
DEF Next, ClientNext

\* Initially everybody is outside.
LEMMA InitRefines == Init => AbstractRooms!Init /\ SizeOK
<1> SUFFICES ASSUME Init PROVE AbstractRooms!Init /\ SizeOK
  OBVIOUS
<1>1. AbstractRooms!Init
  BY DEF Init, AbstractRooms!Init, Membership
<1>2. SizeOK
  BY FS_EmptySet, HubAssumption DEF Init, HubInit, SizeOK
<1>3. QED
  BY <1>1, <1>2

\* h.groups never holds more than MaxGroupSize members of a group.
LEMMA SizeCorrect == Spec => []SizeOK
BY InitRefines, StepRefines, TypeCorrect, MembershipCorrect, PTL DEF Spec

\* The server implements Rooms, whatever the number of clients and groups and
\* the limit: a client is let in only while its group has a seat, turned away
\* only when it has none, and comes back only as a new client.
THEOREM ServerImplementsRooms == Spec => ImplementsRooms
<1>1. ASSUME TypeOK, MembershipInv, SizeOK, [Next]_vars
      PROVE  [AbstractRooms!Next]_Membership
  BY <1>1, StepRefines DEF MembershipSteps
<1>2. QED
  BY <1>1, InitRefines, TypeCorrect, MembershipCorrect, SizeCorrect, PTL
  DEF Spec, ImplementsRooms, AbstractRooms!Spec

\* No group ever has more members than MaxGroupSize.
THEOREM GroupsWithinLimit == Spec => []AbstractRooms!WithinLimit
<1>1. TypeOK /\ MembershipInv /\ SizeOK => AbstractRooms!WithinLimit
  BY InsideIsGroup, SameCardinality DEF AbstractRooms!WithinLimit, SizeOK
<1>2. QED
  BY <1>1, TypeCorrect, MembershipCorrect, SizeCorrect, PTL

-----------------------------------------------------------------------------
(* The one panic the model has                                             *)

\* Only Stop closes persistCh, on its way to the wait for the workers, and
\* only a closed persistCh makes the hub panic.
PanicsOnlyStopping ==
    /\ persistClosed => HasStore /\ stop \in {"draining", "returned"}
    /\ run = "panicked" => persistClosed

\* What a step that closes nothing and stops nobody leaves true.
CalmStep ==
    /\ UNCHANGED <<persistClosed, stop>>
    /\ run' = "panicked" => run = "panicked" \/ persistClosed

LEMMA HandlersAreCalm ==
    ASSUME NEW c \in Clients, NEW ok,
           HandleUnregister(c, ok) \/ RejectJoiner(c) \/ AdmitJoiner(c)
    PROVE  persistClosed' = persistClosed /\ (run' = run \/ run' # "panicked")
  BY DEF HandleUnregister, UnregisterMember, UnregisterStranger, RejectJoiner,
         AdmitJoiner, UpdateTripRow, storeVars, hubVars

LEMMA ClientsAreCalm ==
    ASSUME NEW c \in Clients, ClientNext(c)
    PROVE  CalmStep
<1>1. CASE Connect(c) \/ PeerCloses(c) \/ Recycle(c) \/ ReadFails(c)
           \/ WriteDelivers(c) \/ WriteFails(c) \/ PingFails(c) \/ WriteCloses(c)
  BY <1>1 DEF Connect, PeerCloses, Recycle, ReadFails, WriteDelivers, WriteFails,
     PingFails, WriteCloses, WritePumpReturns, CalmStep, hubVars, storeVars
<1>2. CASE \E m \in Message : ReadForwards(c, m)
  BY <1>2 DEF ReadForwards, CalmStep, hubVars, storeVars
<1>3. CASE HubRegisters(c)
  BY <1>3, HandlersAreCalm DEF HubRegisters, CalmStep
<1>4. CASE HubUnregisters(c)
  BY <1>4, HandlersAreCalm DEF HubUnregisters, CalmStep
<1>5. CASE HubDrops(c)
  BY <1>5, HandlersAreCalm DEF HubDrops, HandleUnregister, CalmStep
<1>6. QED
  BY <1>1, <1>2, <1>3, <1>4, <1>5 DEF ClientNext

LEMMA BroadcastsAreCalm ==
    ASSUME HubBroadcasts
    PROVE  CalmStep
<1>1. PICK ok \in StoreOutcomes : HandleBroadcast(Head(broadcast), ok)
  BY DEF HubBroadcasts
<1>2. stop' = stop
  BY DEF HubBroadcasts
<1>. DEFINE m == Head(broadcast)
<1>3. CASE HandleLocation(m.sender, m.pos)
  BY <1>2, <1>3 DEF HandleLocation, EnqueueLocation, CalmStep, storeVars
<1>4. CASE \E id \in FreshTripId : HandleTripCreate(m.sender, id, ok)
  BY <1>2, <1>4 DEF HandleTripCreate, InsertTripRow, UnchangedByTrips, CalmStep
<1>5. CASE HandleTripJoin(m.sender, ok)
  BY <1>2, <1>5 DEF HandleTripJoin, UpdateTripRow, UnchangedByTrips, CalmStep,
     hubVars, storeVars
<1>6. CASE HandleTripLeave(m.sender, ok)
  BY <1>2, <1>6 DEF HandleTripLeave, UpdateTripRow, UnchangedByTrips, CalmStep,
     hubVars, storeVars
<1>7. CASE HandleTripStart(m.sender) \/ HandleTripEnd(m.sender)
           \/ UNCHANGED <<hubVars, storeVars>>
  BY <1>2, <1>7 DEF HandleTripStart, HandleTripEnd, UnchangedByTrips, CalmStep,
     hubVars, storeVars
<1>8. QED
  BY <1>1, <1>3, <1>4, <1>5, <1>6, <1>7 DEF HandleBroadcast

LEMMA OthersAreCalm ==
    ASSUME HubReplays \/ HubQuits \/ HubReturns
           \/ ProcessExits \/ (\E w \in Workers : Persists(w)) \/ Prunes
    PROVE  CalmStep
<1>1. CASE HubReplays
  BY <1>1 DEF HubReplays, ReplayLocation, ReplayOverflows, ReplayTrip, CalmStep, storeVars
<1>2. CASE HubQuits \/ HubReturns \/ ProcessExits
  BY <1>2 DEF HubQuits, HubReturns, ProcessExits, CalmStep, storeVars
<1>3. CASE \E w \in Workers : Persists(w)
  BY <1>3 DEF Persists, WorkerStep, WorkerReceives, WorkerUpsertsUser,
     WorkerInsertsLocation, WorkerExits, CalmStep, hubVars
<1>4. CASE Prunes
  BY <1>4 DEF Prunes, PruneLocations, CalmStep, hubVars
<1>5. QED
  BY <1>1, <1>2, <1>3, <1>4

\* The hub does not panic while the server is in service: its one panic, the
\* send on a closed persistCh, needs a Stop that has got as far as closing it.
THEOREM NoPanicInService ==
    Spec => [](run = "panicked" => stop \in {"draining", "returned"})
<1>1. Init => PanicsOnlyStopping
  BY DEF Init, HubInit, PersistenceInit, PanicsOnlyStopping
<1>2. ASSUME PanicsOnlyStopping, [Next]_vars
      PROVE  PanicsOnlyStopping'
  <2>1. CASE UNCHANGED vars
    BY <1>2, <2>1 DEF PanicsOnlyStopping, vars, hubVars, storeVars
  <2>2. CASE CalmStep
    BY <1>2, <2>2 DEF PanicsOnlyStopping, CalmStep
  <2>3. CASE StopBegins
    BY <1>2, <2>3 DEF PanicsOnlyStopping, StopBegins, hubVars, storeVars
  <2>4. CASE StopClosesPersist
    BY <1>2, <2>4 DEF PanicsOnlyStopping, StopClosesPersist, ClosePersistCh, hubVars
  <2>5. CASE StopReturns
    BY <1>2, <2>5 DEF PanicsOnlyStopping, StopReturns, hubVars, storeVars
  <2>6. QED
    BY <1>2, <2>1, <2>2, <2>3, <2>4, <2>5, ClientsAreCalm, BroadcastsAreCalm,
       OthersAreCalm DEF Next
<1>3. PanicsOnlyStopping => (run = "panicked" => stop \in {"draining", "returned"})
  BY DEF PanicsOnlyStopping
<1>4. QED
  BY <1>1, <1>2, <1>3, PTL DEF Spec
=============================================================================
