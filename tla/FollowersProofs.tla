--------------------------- MODULE FollowersProofs ---------------------------
(***************************************************************************)
(* Proofs about what follows the hub: the rows the persistence workers and *)
(* the trip handlers write, and what the browsers show of the positions    *)
(* and the trip of their group once they have applied what their Send      *)
(* holds; and that nothing shown is of another group. They rest on         *)
(* TypeCorrect and MembershipCorrect of ServerProofs.                      *)
(***************************************************************************)
EXTENDS ServerProofs, FoldLemmas

queueVars == <<persistCh, persistClosed, worker, userRows, stop>>

-----------------------------------------------------------------------------
(* The workers' invariant                                                  *)

\* A worker exits only from a channel that is closed and empty, and nothing
\* is sent on a closed channel.
ExitedMeansDrained ==
    \A w \in Workers :
        worker[w].stage = "exited" => persistClosed /\ persistCh = <<>>

\* With a store, Stop returns only after every worker has exited.
ReturnedMeansDone == stop = "returned" /\ HasStore => PersistDone

\* The inductive invariant behind the two theorems on the workers.
WorkersInv == InsertsHaveUserRow /\ ExitedMeansDrained /\ ReturnedMeansDone

\* WorkersInv depends on these variables only.
LEMMA WorkersUntouched ==
    ASSUME WorkersInv, UNCHANGED queueVars
    PROVE  WorkersInv'
BY DEF WorkersInv, InsertsHaveUserRow, ExitedMeansDrained, ReturnedMeansDone,
       PersistDone, queueVars

\* Connections, registrations, departures and trips never touch the queue.
LEMMA ClientsLeaveQueue ==
    ASSUME NEW c \in Clients, ClientNext(c)
    PROVE  UNCHANGED queueVars
<1>1. CASE HubUnregisters(c) \/ HubDrops(c)
  BY <1>1 DEF HubUnregisters, HubDrops, HandleUnregister, UnregisterMember,
              UnregisterStranger, UpdateTripRow, storeVars, queueVars
<1>2. CASE HubRegisters(c)
  BY <1>2 DEF HubRegisters, RejectJoiner, AdmitJoiner, storeVars, queueVars
<1>3. CASE ~HubUnregisters(c) /\ ~HubDrops(c) /\ ~HubRegisters(c)
  BY <1>3
  DEF ClientNext, Connect, PeerCloses, Recycle, ReadForwards, ReadFails, WriteDelivers,
      WriteFails, PingFails, WriteCloses, WritePumpReturns, storeVars, queueVars
<1>4. QED
  BY <1>1, <1>2, <1>3

\* A location is queued only while the channel is open.
LEMMA MessagesKeepWorkers ==
    ASSUME WorkersInv, HubBroadcasts
    PROVE  WorkersInv'
<1>1. PICK ok \in StoreOutcomes : HandleBroadcast(Head(broadcast), ok)
  BY DEF HubBroadcasts
<1> DEFINE m == Head(broadcast)
<1>2. UNCHANGED stop
  BY DEF HubBroadcasts
<1>3. CASE HandleLocation(m.sender, m.pos)
  <2>1. CASE HasStore /\ ~persistClosed
    <3>1. UNCHANGED <<persistClosed, worker, userRows>>
      BY <1>3, <2>1 DEF HandleLocation, EnqueueLocation
    <3>2. \A w \in Workers : worker[w].stage # "exited"
      BY <2>1 DEF WorkersInv, ExitedMeansDrained
    <3>3. QED
      BY <1>2, <3>1, <3>2
      DEF WorkersInv, InsertsHaveUserRow, ExitedMeansDrained, ReturnedMeansDone,
          PersistDone
  <2>2. CASE ~(HasStore /\ ~persistClosed)
    <3>1. UNCHANGED queueVars
      BY <1>2, <1>3, <2>2 DEF HandleLocation, EnqueueLocation, storeVars, queueVars
    <3>2. QED
      BY <3>1, WorkersUntouched
  <2>3. QED
    BY <2>1, <2>2
<1>4. CASE ~HandleLocation(m.sender, m.pos)
  <2>1. UNCHANGED queueVars
    BY <1>1, <1>2, <1>4
    DEF HandleBroadcast, HandleTripCreate, HandleTripJoin, HandleTripLeave,
        HandleTripStart, HandleTripEnd, InsertTripRow, UpdateTripRow, storeVars,
        queueVars
  <2>2. QED
    BY <2>1, WorkersUntouched
<1>5. QED
  BY <1>3, <1>4

\* The workers' own steps keep WorkersInv.
LEMMA WorkersKeepWorkers ==
    ASSUME TypeOK, WorkersInv, NEW w \in Workers, Persists(w)
    PROVE  WorkersInv'
<1> USE DEF WorkersInv, InsertsHaveUserRow, ExitedMeansDrained, ReturnedMeansDone,
            PersistDone
<1>1. /\ worker \in [Workers -> WorkerState]
      /\ userRows \in [Users -> Positions \cup {None}]
      /\ worker[w].stage # "exited"
      /\ UNCHANGED stop
  BY DEF TypeOK, PersistenceTypeOK, Persists, WorkerStep, WorkerReceives,
         WorkerUpsertsUser, WorkerInsertsLocation, WorkerExits, Idle
<1>2. CASE WorkerReceives(w)
  BY <1>1, <1>2 DEF WorkerReceives
<1>3. ASSUME NEW ok \in StoreOutcomes, WorkerUpsertsUser(w, ok)
      PROVE  WorkersInv'
  <2> DEFINE loc == worker[w].loc
  <2>1. loc.user \in Users /\ loc.pos \in Positions /\ loc.pos # None
    BY <1>1, <1>3, PersistenceAssumption
    DEF WorkerUpsertsUser, WorkerState, Location, Idle
  <2>2. CASE ok
    <3>1. /\ userRows' = [userRows EXCEPT ![loc.user] = loc.pos]
          /\ worker' = [worker EXCEPT ![w] = [stage |-> "insert", loc |-> loc]]
          /\ UNCHANGED <<persistCh, persistClosed>>
      BY <1>3, <2>2 DEF WorkerUpsertsUser
    <3>2. \A v \in Users : userRows[v] # None => userRows'[v] # None
      BY <1>1, <2>1, <3>1
    <3>3. userRows'[loc.user] # None
      BY <1>1, <2>1, <3>1
    <3>4. \A v \in Workers : worker[v].stage = "insert" => worker[v].loc.user \in Users
      BY <1>1 DEF WorkerState, Location, Idle
    <3>5. InsertsHaveUserRow'
      BY <1>1, <3>1, <3>2, <3>3, <3>4
    <3>6. QED
      BY <1>1, <3>1, <3>5
  <2>3. CASE ~ok
    BY <1>1, <1>3, <2>3 DEF WorkerUpsertsUser, Idle
  <2>4. QED
    BY <2>2, <2>3
<1>4. ASSUME NEW ok \in StoreOutcomes, WorkerInsertsLocation(w, ok)
      PROVE  WorkersInv'
  BY <1>1, <1>4 DEF WorkerInsertsLocation, Idle
<1>5. CASE WorkerExits(w)
  BY <1>1, <1>5 DEF WorkerExits, Idle
<1>6. QED
  BY <1>2, <1>3, <1>4, <1>5 DEF Persists, WorkerStep

\* So do the steps of Stop.
LEMMA StopKeepsWorkers ==
    ASSUME WorkersInv, StopBegins \/ StopClosesPersist \/ StopReturns
    PROVE  WorkersInv'
BY DEF WorkersInv, InsertsHaveUserRow, ExitedMeansDrained, ReturnedMeansDone,
       PersistDone, StopBegins, StopClosesPersist, StopReturns, ClosePersistCh,
       storeVars

\* WorkersInv is inductive, given the types.
LEMMA WorkersInductive ==
    ASSUME TypeOK, WorkersInv, [Next]_vars
    PROVE  WorkersInv'
<1>1. CASE UNCHANGED vars
  BY <1>1, WorkersUntouched DEF vars, storeVars, queueVars
<1>2. ASSUME NEW c \in Clients, ClientNext(c)
      PROVE  WorkersInv'
  BY <1>2, ClientsLeaveQueue, WorkersUntouched
<1>3. CASE HubReplays \/ HubQuits \/ HubReturns \/ ProcessExits \/ Prunes
  <2>1. UNCHANGED queueVars
    BY <1>3 DEF HubReplays, ReplayLocation, ReplayOverflows, ReplayTrip, HubQuits,
                HubReturns, ProcessExits, Prunes, PruneLocations, storeVars, queueVars
  <2>2. QED
    BY <2>1, WorkersUntouched
<1>4. QED
  BY <1>1, <1>2, <1>3, MessagesKeepWorkers, WorkersKeepWorkers, StopKeepsWorkers
  DEF Next

\* Workers exit only when nothing is left, and Stop returns only then.
LEMMA WorkersCorrect == Spec => []WorkersInv
<1>1. Init => WorkersInv
  BY DEF Init, PersistenceInit, WorkersInv, InsertsHaveUserRow, ExitedMeansDrained,
         ReturnedMeansDone, Idle
<1>2. QED
  BY <1>1, WorkersInductive, TypeCorrect, PTL DEF Spec

\* However many workers and users there are, and whichever store calls fail, a
\* worker that gets to INSERT a location finds the row of its user.
THEOREM InsertsFindUser == Spec => []InsertsHaveUserRow
<1>1. WorkersInv => InsertsHaveUserRow
  BY DEF WorkersInv
<1>2. QED
  BY <1>1, WorkersCorrect, PTL

\* When Stop has returned, no location is left in persistCh or with a worker.
\* It takes a worker (HasStore => Workers # {}): NewHub starts four.
THEOREM StopHasDrained == Spec => []StopDrains
<1>1. WorkersInv => StopDrains
  BY PersistenceAssumption
  DEF WorkersInv, ExitedMeansDrained, ReturnedMeansDone, StopDrains, PersistDone
<1>2. QED
  BY <1>1, WorkersCorrect, PTL

-----------------------------------------------------------------------------
(* The trips' invariant                                                    *)

tripVars == <<trips, tripRows, missedUpdates>>

\* No two groups share a trip.
IdsDiffer ==
    \A g, h \in Groups :
        trips[g] # None /\ trips[h] # None /\ g # h => trips[g].id # trips[h].id

\* Without a store there are no rows.
NoStoreNoRows == HasStore \/ \A id \in TripIds : tripRows[id] = None

\* The inductive invariant behind TripRowsFollow.
TripsInv == TripRowsAgree /\ IdsDiffer /\ NoStoreNoRows

\* TripsInv depends on these variables only.
LEMMA TripsUntouched ==
    ASSUME TripsInv, UNCHANGED tripVars
    PROVE  TripsInv'
BY DEF TripsInv, TripRowsAgree, IdsDiffer, NoStoreNoRows, tripVars

\* A group may lose its trip.
LEMMA TripForgotten ==
    ASSUME TypeOK, TripsInv, NEW g \in Groups,
           trips' = [trips EXCEPT ![g] = None],
           UNCHANGED <<tripRows, missedUpdates>>
    PROVE  TripsInv'
BY DEF TypeOK, HubTypeOK, TripsInv, TripRowsAgree, IdsDiffer, NoStoreNoRows

\* The participants change and the row is written, or that is noted as missed;
\* then the group keeps its trip, or loses it.
LEMMA RidersWritten ==
    ASSUME TypeOK, TripsInv, NEW g \in Groups, NEW ok \in BOOLEAN,
           trips[g] # None, NEW trip \in Trip, trip.id = trips[g].id,
           UpdateTripRow(trips[g].id, trip.riders, ok),
           \/ trips' = [trips EXCEPT ![g] = trip]
           \/ trips' = [trips EXCEPT ![g] = None]
    PROVE  TripsInv'
<1> DEFINE id == trips[g].id
<1>1. /\ id \in TripIds
      /\ trip # None
      /\ trips \in [Groups -> Trip \cup {None}]
      /\ tripRows \in [TripIds -> Riders \cup {None}]
      /\ \A h \in Groups : trips[h] # None => trips[h].id \in TripIds
  BY HubAssumption DEF TypeOK, HubTypeOK, PersistenceTypeOK, Trip
<1>2. \A h \in Groups \ {g} : trips'[h] = trips[h]
  BY <1>1
<1>3. trips'[g] \in {trip, None}
  BY <1>1
<1>4. IdsDiffer'
  BY <1>1, <1>2, <1>3 DEF TripsInv, IdsDiffer
<1>5. NoStoreNoRows'
  BY <1>1 DEF TripsInv, NoStoreNoRows, UpdateTripRow
<1>6. id \in missedUpdates' \/ tripRows'[id] \in {None, trip.riders}
  BY <1>1 DEF UpdateTripRow, TripsInv, NoStoreNoRows
<1>7. \A i \in TripIds \ {id} :
        tripRows'[i] = tripRows[i] /\ (i \in missedUpdates' <=> i \in missedUpdates)
  BY <1>1 DEF UpdateTripRow
<1>8. TripRowsAgree'
  <2> SUFFICES ASSUME NEW h \in Groups, trips'[h] # None
               PROVE  LET i == trips'[h].id IN
                      \/ tripRows'[i] = None
                      \/ i \in missedUpdates'
                      \/ tripRows'[i] = trips'[h].riders
    BY DEF TripRowsAgree
  <2>1. CASE h = g
    BY <1>3, <1>6, <2>1
  <2>2. CASE h # g
    <3>1. trips[h].id \in TripIds \ {id} /\ trips[h] # None /\ trips'[h] = trips[h]
      BY <1>1, <1>2, <2>2 DEF TripsInv, IdsDiffer
    <3>2. QED
      BY <1>7, <3>1 DEF TripsInv, TripRowsAgree
  <2>3. QED
    BY <2>1, <2>2
<1>9. QED
  BY <1>4, <1>5, <1>8 DEF TripsInv

\* A trip with an identity that nobody holds replaces the group's.
LEMMA TripCreated ==
    ASSUME TypeOK, TripsInv, NEW g \in Groups, NEW u \in Users, NEW ok \in BOOLEAN,
           NEW id \in FreshTripId, NEW trip \in Trip, trip.id = id,
           InsertTripRow(id, u, trip.riders, ok),
           trips' = [trips EXCEPT ![g] = trip]
    PROVE  TripsInv'
<1>1. /\ id \in TripIds
      /\ trips \in [Groups -> Trip \cup {None}]
      /\ tripRows \in [TripIds -> Riders \cup {None}]
      /\ tripRows[id] = None
      /\ \A h \in Groups : trips[h] # None => trips[h].id # id
      /\ \A h \in Groups : trips[h] # None => trips[h].id \in TripIds
  BY DEF TypeOK, HubTypeOK, PersistenceTypeOK, Trip, FreshTripId
<1>2. /\ trips'[g] = trip
      /\ \A h \in Groups \ {g} : trips'[h] = trips[h]
  BY <1>1
<1>3. /\ tripRows'[id] \in {None, trip.riders}
      /\ \A i \in TripIds \ {id} : tripRows'[i] = tripRows[i]
      /\ missedUpdates' = missedUpdates
  BY <1>1 DEF InsertTripRow
<1>4. IdsDiffer'
  BY <1>1, <1>2 DEF TripsInv, IdsDiffer
<1>5. NoStoreNoRows'
  BY <1>1 DEF TripsInv, NoStoreNoRows, InsertTripRow
<1>6. TripRowsAgree'
  BY <1>1, <1>2, <1>3 DEF TripsInv, TripRowsAgree
<1>7. QED
  BY <1>4, <1>5, <1>6 DEF TripsInv

\* The trips the handlers write, derived from the group's.
LEMMA TripEdited ==
    ASSUME NEW trip \in Trip, NEW u \in Users
    PROVE  /\ Leave(trip, u) \in Trip
           /\ Leave(trip, u).id = trip.id
           /\ [trip EXCEPT !.riders[u] = @ + 1] \in Trip
           /\ [trip EXCEPT !.riders[u] = @ + 1].id = trip.id
BY TripType DEF Leave, Trip

\* The trip of a group that has one.
LEMMA TripOfGroup ==
    ASSUME TypeOK, NEW g \in Groups, trips[g] # None
    PROVE  trips[g] \in Trip
BY DEF TypeOK, HubTypeOK

\* A store call succeeds or fails.
LEMMA OutcomesAreBoolean == StoreOutcomes \subseteq BOOLEAN
BY PersistenceAssumption

\* An unregistration keeps TripsInv.
LEMMA UnregisterKeepsTrips ==
    ASSUME TypeOK, TripsInv, NEW c \in Clients, NEW ok \in BOOLEAN,
           HandleUnregister(c, ok)
    PROVE  TripsInv'
<1> DEFINE g == GroupOf[c]
           u == UserOf[c]
           left == Leave(trips[g], u)
<1>1. g \in Groups /\ u \in Users
  BY NamesType
<1>2. CASE UnregisterStranger(c)
  BY <1>2, TripsUntouched DEF UnregisterStranger, hubVars, storeVars, tripVars
<1>3. CASE UnregisterMember(c, ok) /\ TripOpen(g)
  <2>1. trips[g] # None /\ trips[g] \in Trip
    BY <1>1, <1>3, TripOfGroup DEF TripOpen
  <2>2. left \in Trip /\ left.id = trips[g].id
    BY <1>1, <2>1, TripEdited
  <2>3. UpdateTripRow(trips[g].id, left.riders, ok)
    BY <1>3 DEF UnregisterMember
  <2>4. \/ trips' = [trips EXCEPT ![g] = left]
        \/ trips' = [trips EXCEPT ![g] = None]
    BY <1>3 DEF UnregisterMember
  <2>5. QED
    BY <1>1, <2>1, <2>2, <2>3, <2>4, RidersWritten
<1>4. CASE UnregisterMember(c, ok) /\ ~TripOpen(g)
  <2>1. UNCHANGED <<tripRows, missedUpdates>>
    BY <1>4 DEF UnregisterMember, storeVars
  <2>2. trips' = trips \/ trips' = [trips EXCEPT ![g] = None]
    BY <1>1, <1>4 DEF UnregisterMember, TypeOK, HubTypeOK
  <2>3. QED
    BY <1>1, <2>1, <2>2, TripsUntouched, TripForgotten DEF tripVars
<1>5. QED
  BY <1>2, <1>3, <1>4 DEF HandleUnregister

\* So does every message.
LEMMA MessagesKeepTrips ==
    ASSUME TypeOK, TripsInv, HubBroadcasts
    PROVE  TripsInv'
<1> DEFINE m == Head(broadcast)
           c == m.sender
           g == GroupOf[c]
           u == UserOf[c]
<1>1. PICK ok \in StoreOutcomes : HandleBroadcast(m, ok)
  BY DEF HubBroadcasts
<1>2. c \in Clients /\ g \in Groups /\ u \in Users /\ ok \in BOOLEAN
  <2>1. m \in Message
    BY HeadTailProperties DEF TypeOK, HubBroadcasts
  <2>2. QED
    BY <2>1, NamesType, OutcomesAreBoolean DEF Message
<1>3. CASE HandleLocation(c, m.pos) \/ UNCHANGED <<hubVars, storeVars>>
  <2>1. UNCHANGED tripVars
    BY <1>3 DEF HandleLocation, EnqueueLocation, hubVars, storeVars, tripVars
  <2>2. QED
    BY <2>1, TripsUntouched
<1>4. ASSUME NEW id \in FreshTripId, HandleTripCreate(c, id, ok)
      PROVE  TripsInv'
  <2> DEFINE trip == [id |-> id, creator |-> u, status |-> "planning",
                      riders |-> [NoRiders EXCEPT ![u] = 1]]
  <2>1. trip \in Trip
    BY <1>2, RidersType DEF Trip, FreshTripId
  <2>2. /\ InsertTripRow(id, u, trip.riders, ok)
        /\ trips' = [trips EXCEPT ![g] = trip]
    BY <1>4 DEF HandleTripCreate, TripBecomes
  <2>3. trip.id = id
    OBVIOUS
  <2> HIDE DEF trip
  <2>4. QED
    BY <1>2, <2>1, <2>2, <2>3, TripCreated
<1>5. CASE HandleTripJoin(c, ok)
  <2> DEFINE joined == [trips[g] EXCEPT !.riders[u] = @ + 1]
  <2>1. CASE TripOpen(g) /\ trips[g].riders[u] = 0
    <3>1. trips[g] # None /\ trips[g] \in Trip
      BY <1>2, <2>1, TripOfGroup DEF TripOpen
    <3>2. joined \in Trip /\ joined.id = trips[g].id
      BY <1>2, <3>1, TripEdited
    <3>3. /\ UpdateTripRow(trips[g].id, joined.riders, ok)
          /\ trips' = [trips EXCEPT ![g] = joined]
      BY <1>5, <2>1 DEF HandleTripJoin, TripBecomes
    <3> HIDE DEF joined
    <3>4. QED
      BY <1>2, <3>1, <3>2, <3>3, RidersWritten
  <2>2. CASE ~(TripOpen(g) /\ trips[g].riders[u] = 0)
    BY <1>5, <2>2, TripsUntouched DEF HandleTripJoin, hubVars, storeVars, tripVars
  <2>3. QED
    BY <2>1, <2>2
<1>6. CASE HandleTripLeave(c, ok)
  <2> DEFINE left == Leave(trips[g], u)
  <2>1. CASE TripOpen(g)
    <3>1. trips[g] # None /\ trips[g] \in Trip
      BY <1>2, <2>1, TripOfGroup DEF TripOpen
    <3>2. left \in Trip /\ left.id = trips[g].id
      BY <1>2, <3>1, TripEdited
    <3>3. /\ UpdateTripRow(trips[g].id, left.riders, ok)
          /\ trips' = [trips EXCEPT ![g] = left]
      BY <1>6, <2>1 DEF HandleTripLeave, TripBecomes
    <3> HIDE DEF left
    <3>4. QED
      BY <1>2, <3>1, <3>2, <3>3, RidersWritten
  <2>2. CASE ~TripOpen(g)
    BY <1>6, <2>2, TripsUntouched DEF HandleTripLeave, hubVars, storeVars, tripVars
  <2>3. QED
    BY <2>1, <2>2
<1>7. CASE HandleTripStart(c)
  <2> DEFINE started == [trips[g] EXCEPT !.status = "active"]
  <2>1. CASE MayControlTrip(c)
    <3>1. trips[g] # None /\ trips[g] \in Trip
      BY <1>2, <2>1, TripOfGroup DEF MayControlTrip
    <3>2. started.id = trips[g].id /\ started.riders = trips[g].riders /\ started \in Trip
      BY <3>1 DEF Trip
    <3>3. /\ trips' = [trips EXCEPT ![g] = started]
          /\ UNCHANGED <<tripRows, missedUpdates>>
      BY <1>7, <2>1 DEF HandleTripStart, TripBecomes, storeVars
    <3> HIDE DEF started
    <3>4. \A h \in Groups :
            trips'[h] # None =>
                /\ trips[h] # None
                /\ trips'[h].id = trips[h].id
                /\ trips'[h].riders = trips[h].riders
      BY <1>2, <3>1, <3>2, <3>3, HubAssumption DEF TypeOK, HubTypeOK
    <3>5. TripRowsAgree'
      <4> SUFFICES ASSUME NEW h \in Groups, trips'[h] # None
                   PROVE  LET i == trips'[h].id IN
                          \/ tripRows'[i] = None
                          \/ i \in missedUpdates'
                          \/ tripRows'[i] = trips'[h].riders
        BY DEF TripRowsAgree
      <4>1. /\ trips[h] # None
            /\ trips'[h].id = trips[h].id
            /\ trips'[h].riders = trips[h].riders
        BY <3>4
      <4>2. QED
        BY <3>3, <4>1 DEF TripsInv, TripRowsAgree
    <3>6. IdsDiffer'
      BY <3>4 DEF TripsInv, IdsDiffer
    <3>7. NoStoreNoRows'
      BY <3>3 DEF TripsInv, NoStoreNoRows
    <3>8. QED
      BY <3>5, <3>6, <3>7 DEF TripsInv
  <2>2. CASE ~MayControlTrip(c)
    BY <1>7, <2>2, TripsUntouched DEF HandleTripStart, hubVars, storeVars, tripVars
  <2>3. QED
    BY <2>1, <2>2
<1>8. CASE HandleTripEnd(c)
  <2>1. CASE MayControlTrip(c)
    BY <1>2, <1>8, <2>1, TripForgotten DEF HandleTripEnd, storeVars
  <2>2. CASE ~MayControlTrip(c)
    BY <1>8, <2>2, TripsUntouched DEF HandleTripEnd, hubVars, storeVars, tripVars
  <2>3. QED
    BY <2>1, <2>2
<1>9. QED
  BY <1>1, <1>3, <1>4, <1>5, <1>6, <1>7, <1>8 DEF HandleBroadcast

\* TripsInv is inductive, given the types.
LEMMA TripsInductive ==
    ASSUME TypeOK, TripsInv, [Next]_vars
    PROVE  TripsInv'
<1>1. CASE UNCHANGED vars
  BY <1>1, TripsUntouched DEF vars, hubVars, storeVars, tripVars
<1>2. ASSUME NEW c \in Clients, ClientNext(c)
      PROVE  TripsInv'
  <2>1. CASE HubUnregisters(c)
    BY <2>1, UnregisterKeepsTrips, OutcomesAreBoolean DEF HubUnregisters
  <2>2. CASE HubDrops(c)
    BY <2>2, UnregisterKeepsTrips, OutcomesAreBoolean DEF HubDrops, HandleUnregister
  <2>3. CASE ~HubUnregisters(c) /\ ~HubDrops(c)
    <3>1. UNCHANGED tripVars
      BY <1>2, <2>3
      DEF ClientNext, Connect, PeerCloses, Recycle, ReadForwards, ReadFails,
          WriteDelivers, WriteFails, PingFails, WriteCloses, WritePumpReturns,
          HubRegisters, RejectJoiner, AdmitJoiner, hubVars, storeVars, tripVars
    <3>2. QED
      BY <3>1, TripsUntouched
  <2>4. QED
    BY <2>1, <2>2, <2>3
<1>3. CASE \/ HubReplays
           \/ HubQuits
           \/ HubReturns
           \/ StopBegins
           \/ StopClosesPersist
           \/ StopReturns
           \/ ProcessExits
           \/ \E w \in Workers : Persists(w)
           \/ Prunes
  <2>1. UNCHANGED tripVars
    BY <1>3
    DEF HubReplays, ReplayLocation, ReplayOverflows, ReplayTrip, HubQuits, HubReturns,
        StopBegins, StopClosesPersist, ClosePersistCh, StopReturns, ProcessExits, Persists, WorkerStep,
        WorkerReceives, WorkerUpsertsUser, WorkerInsertsLocation, WorkerExits, Prunes,
        PruneLocations, hubVars, storeVars, tripVars
  <2>2. QED
    BY <2>1, TripsUntouched
<1>4. QED
  BY <1>1, <1>2, <1>3, MessagesKeepTrips DEF Next

\* For any number of groups, users and trips, and whichever store calls fail:
\* the row of a trip the hub has lists its participants, or was never written,
\* or missed its last UPDATE.
THEOREM TripRowsFollow == Spec => []TripRowsAgree
<1>1. Init => TripsInv
  BY DEF Init, HubInit, PersistenceInit, TripsInv, TripRowsAgree, IdsDiffer, NoStoreNoRows
<1>2. TripsInv => TripRowsAgree
  BY DEF TripsInv
<1>3. QED
  BY <1>1, <1>2, TripsInductive, TypeCorrect, PTL DEF Spec

-----------------------------------------------------------------------------
(* What a browser will show                                                *)

\* What envelopes q make of the trip, and of the positions, a browser shows.
ShownTrip(v, q) == FoldLeft(ShowTrip, v, q)

ShownPeers(me, v, q) == FoldLeft(LAMBDA s, m : ShowPeer(me, s, m), v, q)

TripViews == Trip \cup {None}
PeerViews == [Users -> Positions \cup {None}]

TripStep == [x \in TripViews \X Envelope |-> ShowTrip(x[1], x[2])]

PeerStep(me) == [x \in PeerViews \X Envelope |-> ShowPeer(me, x[1], x[2])]

\* Those functions are steps of folds.
LEMMA ViewSteps ==
    /\ TripStep \in Steps(TripViews, Envelope)
    /\ \A me \in Users : PeerStep(me) \in Steps(PeerViews, Envelope)
BY ShownType DEF Steps, TripStep, PeerStep, TripViews, PeerViews

\* The fold over setTrip is the outcome of its steps.
LEMMA TripFold ==
    ASSUME NEW v \in TripViews, NEW q \in Seq(Envelope)
    PROVE  ShownTrip(v, q) = Outcome(TripViews, TripStep, v, q)
<1> DEFINE Body(it) == [s \in SUBSET DOMAIN q |->
                          IF s = {} THEN v ELSE ShowTrip(it[s \ {Max(s)}], q[Max(s)])]
           it == CHOOSE x : x = Body(x)
<1>1. PICK t \in FoldTables(TripViews, TripStep, v, q) : TRUE
  BY ViewSteps, FoldTableExists
<1>2. t = Body(t)
  BY <1>1, TakeGreatest DEF FoldTables, TripStep
<1>3. it = Body(it)
  <2> HIDE DEF Body
  <2> QED
    BY <1>2
<1>4. LikeFoldTable(TripViews, TripStep, v, q, it)
  <2> HIDE DEF it
  <2> QED
    BY <1>3, TakeGreatest DEF LikeFoldTable, TripStep
<1>5. ShownTrip(v, q) = it[DOMAIN q]
  BY DEF ShownTrip, FoldLeft, MapThenFoldSet
<1> QED
  <2> HIDE DEF it
  <2> QED
    BY <1>4, <1>5, ViewSteps, FoldTableOutcome

\* So is the fold over upsertPeer and removePeer.
LEMMA PeerFold ==
    ASSUME NEW me \in Users, NEW v \in PeerViews, NEW q \in Seq(Envelope)
    PROVE  ShownPeers(me, v, q) = Outcome(PeerViews, PeerStep(me), v, q)
<1> DEFINE Body(it) == [s \in SUBSET DOMAIN q |->
                          IF s = {} THEN v ELSE ShowPeer(me, it[s \ {Max(s)}], q[Max(s)])]
           it == CHOOSE x : x = Body(x)
<1>1. PICK t \in FoldTables(PeerViews, PeerStep(me), v, q) : TRUE
  BY ViewSteps, FoldTableExists
<1>2. t = Body(t)
  BY <1>1, TakeGreatest DEF FoldTables, PeerStep
<1>3. it = Body(it)
  <2> HIDE DEF Body
  <2> QED
    BY <1>2
<1>4. LikeFoldTable(PeerViews, PeerStep(me), v, q, it)
  <2> HIDE DEF it
  <2> QED
    BY <1>3, TakeGreatest DEF LikeFoldTable, PeerStep
<1>5. ShownPeers(me, v, q) = it[DOMAIN q]
  BY DEF ShownPeers, FoldLeft, MapThenFoldSet
<1> QED
  <2> HIDE DEF it
  <2> QED
    BY <1>4, <1>5, ViewSteps, FoldTableOutcome

\* What is shown once no envelope, one more at the end, or all but the first
\* have been applied.
LEMMA TripFolds ==
    ASSUME NEW v \in TripViews, NEW q \in Seq(Envelope)
    PROVE  /\ ShownTrip(v, <<>>) = v
           /\ ShownTrip(v, q) \in TripViews
           /\ \A m \in Envelope : ShownTrip(v, Append(q, m)) = ShowTrip(ShownTrip(v, q), m)
           /\ q # <<>> => ShownTrip(ShowTrip(v, Head(q)), Tail(q)) = ShownTrip(v, q)
<1> DEFINE Out(x, p) == Outcome(TripViews, TripStep, x, p)
<1>1. \A x \in TripViews, p \in Seq(Envelope) : ShownTrip(x, p) = Out(x, p)
  BY TripFold
<1>2. \A x \in TripViews, m \in Envelope :
        TripStep[<<x, m>>] = ShowTrip(x, m) /\ ShowTrip(x, m) \in TripViews
  BY ShownType DEF TripStep, TripViews
<1>3. <<>> \in Seq(Envelope) /\ \A m \in Envelope : Append(q, m) \in Seq(Envelope)
  OBVIOUS
<1>4. ShownTrip(v, <<>>) = v
  BY <1>1, <1>3, ViewSteps, OutcomeEmpty
<1>5. ShownTrip(v, q) \in TripViews
  BY <1>1, ViewSteps, OutcomeType
<1>6. ASSUME NEW m \in Envelope
      PROVE  ShownTrip(v, Append(q, m)) = ShowTrip(ShownTrip(v, q), m)
  <2>1. Out(v, Append(q, m)) = TripStep[<<Out(v, q), m>>]
    BY ViewSteps, OutcomeAppend
  <2> QED
    BY <1>1, <1>2, <1>3, <1>5, <2>1
<1>7. ASSUME q # <<>>
      PROVE  ShownTrip(ShowTrip(v, Head(q)), Tail(q)) = ShownTrip(v, q)
  <2>1. Head(q) \in Envelope /\ Tail(q) \in Seq(Envelope)
    BY <1>7
  <2>2. Out(TripStep[<<v, Head(q)>>], Tail(q)) = Out(v, q)
    BY <1>7, ViewSteps, OutcomeTail
  <2> QED
    BY <1>1, <1>2, <2>1, <2>2
<1> QED
  BY <1>4, <1>5, <1>6, <1>7

\* The same of the positions.
LEMMA PeerFolds ==
    ASSUME NEW me \in Users, NEW v \in PeerViews, NEW q \in Seq(Envelope)
    PROVE  /\ ShownPeers(me, v, <<>>) = v
           /\ ShownPeers(me, v, q) \in PeerViews
           /\ \A m \in Envelope :
                 ShownPeers(me, v, Append(q, m)) = ShowPeer(me, ShownPeers(me, v, q), m)
           /\ q # <<>> => ShownPeers(me, ShowPeer(me, v, Head(q)), Tail(q)) = ShownPeers(me, v, q)
<1> DEFINE Out(x, p) == Outcome(PeerViews, PeerStep(me), x, p)
<1>1. \A x \in PeerViews, p \in Seq(Envelope) : ShownPeers(me, x, p) = Out(x, p)
  BY PeerFold
<1>2. \A x \in PeerViews, m \in Envelope :
        PeerStep(me)[<<x, m>>] = ShowPeer(me, x, m) /\ ShowPeer(me, x, m) \in PeerViews
  BY ShownType DEF PeerStep, PeerViews
<1>3. <<>> \in Seq(Envelope) /\ \A m \in Envelope : Append(q, m) \in Seq(Envelope)
  OBVIOUS
<1>4. ShownPeers(me, v, <<>>) = v
  BY <1>1, <1>3, ViewSteps, OutcomeEmpty
<1>5. ShownPeers(me, v, q) \in PeerViews
  BY <1>1, ViewSteps, OutcomeType
<1>6. ASSUME NEW m \in Envelope
      PROVE  ShownPeers(me, v, Append(q, m)) = ShowPeer(me, ShownPeers(me, v, q), m)
  <2>1. Out(v, Append(q, m)) = PeerStep(me)[<<Out(v, q), m>>]
    BY ViewSteps, OutcomeAppend
  <2> QED
    BY <1>1, <1>2, <1>3, <1>5, <2>1
<1>7. ASSUME q # <<>>
      PROVE  ShownPeers(me, ShowPeer(me, v, Head(q)), Tail(q)) = ShownPeers(me, v, q)
  <2>1. Head(q) \in Envelope /\ Tail(q) \in Seq(Envelope)
    BY <1>7
  <2>2. Out(PeerStep(me)[<<v, Head(q)>>], Tail(q)) = Out(v, q)
    BY <1>7, ViewSteps, OutcomeTail
  <2> QED
    BY <1>1, <1>2, <2>1, <2>2
<1> QED
  BY <1>4, <1>5, <1>6, <1>7

-----------------------------------------------------------------------------
(* Connections nobody has been heard on                                    *)

\* Before the hub has heard of a client, nothing was sent to it and it shows
\* nothing.
FreshAt(c) ==
    phase[c] \in {"idle", "dialing"} =>
        /\ sendBuf[c] = <<>>
        /\ c \notin lost
        /\ tripView[c] = None
        /\ peers[c] = NoPositions

FreshInv == \A c \in Clients : FreshAt(c)

\* What a step may leave of a client for it to stay fresh.
LEMMA FreshKept ==
    ASSUME NEW d \in Clients, FreshAt(d),
           phase'[d] \in {"idle", "dialing"} =>
               /\ phase[d] \in {"idle", "dialing"}
               /\ sendBuf'[d] = sendBuf[d]
               /\ d \in lost' => d \in lost
               /\ tripView'[d] = tripView[d]
               /\ peers'[d] = peers[d]
    PROVE  FreshAt(d)'
BY DEF FreshAt

\* One or two envelopes leave those they are not for alone.
LEMMA SendsTo ==
    ASSUME NEW to, NEW d \in Clients, d \notin to,
           \/ \E m : SendEach(to, m)
           \/ \E m1, m2 : SendBoth(to, m1, m2)
    PROVE  sendBuf'[d] = sendBuf[d] /\ (d \in lost' <=> d \in lost)
BY DEF SendEach, SendBoth

\* What the hub does with a departure or a message leaves whoever is no member
\* alone.
LEMMA StrangersHearNothing ==
    ASSUME TypeOK, MembershipInv, NEW d \in Clients, ~IsMember(d),
           \/ \E c \in Clients : HubUnregisters(c) \/ HubDrops(c)
           \/ HubReplays
           \/ HubBroadcasts
    PROVE  sendBuf'[d] = sendBuf[d] /\ (d \in lost' <=> d \in lost)
<1>1. \A g \in Groups : d \notin groups[g]
  BY GroupIsMembers
<1>2. ASSUME NEW c \in Clients, HubUnregisters(c) \/ HubDrops(c)
      PROVE  sendBuf'[d] = sendBuf[d] /\ (d \in lost' <=> d \in lost)
  <2>1. PICK ok \in StoreOutcomes : HandleUnregister(c, ok)
    BY <1>2 DEF HubUnregisters, HubDrops, HandleUnregister
  <2>2. CASE UnregisterStranger(c)
    BY <2>2 DEF UnregisterStranger, hubVars
  <2>3. CASE UnregisterMember(c, ok)
    <3>1. d \notin Others(c)
      BY <1>1, NamesType DEF Others
    <3>2. \/ \E m : SendEach(Others(c), m)
          \/ \E m1, m2 : SendBoth(Others(c), m1, m2)
      BY <2>3 DEF UnregisterMember
    <3>3. QED
      BY <3>1, <3>2, SendsTo
  <2>4. QED
    BY <2>1, <2>2, <2>3 DEF HandleUnregister
<1>3. CASE HubReplays
  <2>1. joiner \in Clients /\ joiner # d
    BY <1>3 DEF HubReplays, ReplayLocation, ReplayOverflows, ReplayTrip, MembershipInv,
                ReplayIsToMember
  <2>2. CASE ReplayTrip
    BY <2>1, <2>2, SendsTo DEF ReplayTrip
  <2>3. CASE ~ReplayTrip
    BY <1>3, <2>1, <2>3 DEF HubReplays, ReplayLocation, ReplayOverflows, TypeOK, HubTypeOK
  <2>4. QED
    BY <2>2, <2>3
<1>4. CASE HubBroadcasts
  <2> DEFINE m == Head(broadcast)
             c == m.sender
             g == GroupOf[c]
  <2>1. PICK ok \in StoreOutcomes : HandleBroadcast(m, ok)
    BY <1>4 DEF HubBroadcasts
  <2>2. c \in Clients /\ g \in Groups
    <3>1. m \in Message
      BY <1>4, HeadTailProperties DEF TypeOK, HubBroadcasts
    <3>2. QED
      BY <3>1, NamesType DEF Message
  <2>3. d \notin groups[g] /\ d \notin Others(c)
    BY <1>1, <2>2 DEF Others
  <2> HIDE DEF c, g
  <2>4. CASE HandleLocation(m.sender, m.pos)
    <3>1. UNCHANGED <<sendBuf, lost>> \/ \E e : SendEach(Others(c), e)
      BY <2>4 DEF HandleLocation, c
    <3>2. QED
      BY <2>3, <3>1, SendsTo
  <2>5. CASE ~HandleLocation(m.sender, m.pos)
    <3>1. UNCHANGED <<sendBuf, lost>> \/ \E e : SendEach(groups[g], e)
      BY <2>1, <2>5
      DEF HandleBroadcast, HandleTripCreate, HandleTripJoin, HandleTripLeave,
          HandleTripStart, HandleTripEnd, TripBecomes, hubVars, c, g
    <3>2. QED
      BY <2>3, <3>1, SendsTo
  <2>6. QED
    BY <2>4, <2>5
<1>5. QED
  BY <1>2, <1>3, <1>4

\* A step of a browser, of a pump or of a registration keeps clients fresh.
LEMMA ClientsStayFresh ==
    ASSUME TypeOK, MembershipInv, FreshInv, NEW c \in Clients, ClientNext(c),
           ~HubUnregisters(c), ~HubDrops(c)
    PROVE  FreshInv'
<1> SUFFICES ASSUME NEW d \in Clients PROVE FreshAt(d)'
  BY DEF FreshInv
<1>1. FreshAt(d)
  BY DEF FreshInv
<1>2. /\ phase \in [Clients -> {"idle", "dialing", "running", "leaving", "done"}]
      /\ sendBuf \in [Clients -> Seq(Envelope)]
      /\ tripView \in [Clients -> Trip \cup {None}]
      /\ peers \in [Clients -> [Users -> Positions \cup {None}]]
  BY DEF TypeOK, HubTypeOK
<1>3. CASE Recycle(c)
  BY <1>1, <1>2, <1>3 DEF Recycle, FreshAt
<1>4. CASE Connect(c)
  BY <1>1, <1>2, <1>4, FreshKept DEF Connect, hubVars, viewVars
<1>5. CASE WriteDelivers(c) \/ WriteFails(c)
  <2>1. phase[c] \notin {"idle", "dialing"}
    BY <1>5 DEF WriteDelivers, WriteFails, MembershipInv, ConnsArePlaced
  <2>2. UNCHANGED <<phase, lost>>
    BY <1>5 DEF WriteDelivers, WriteFails, WritePumpReturns, connVars
  <2>3. c # d => sendBuf'[d] = sendBuf[d] /\ tripView'[d] = tripView[d] /\ peers'[d] = peers[d]
    BY <1>2, <1>5 DEF WriteDelivers, WriteFails, WritePumpReturns, viewVars
  <2>4. QED
    BY <1>1, <2>1, <2>2, <2>3, FreshKept
<1>6. CASE ReadFails(c) \/ HubRegisters(c)
  BY <1>1, <1>2, <1>6, FreshKept
  DEF ReadFails, HubRegisters, RejectJoiner, AdmitJoiner, hubVars, viewVars
<1>7. CASE PeerCloses(c) \/ PingFails(c) \/ WriteCloses(c)
           \/ \E m \in Message : ReadForwards(c, m)
  BY <1>1, <1>7, FreshKept
  DEF PeerCloses, PingFails, WriteCloses, WritePumpReturns, ReadForwards, hubVars,
      connVars, viewVars
<1>8. QED
  BY <1>3, <1>4, <1>5, <1>6, <1>7 DEF ClientNext

\* FreshInv is inductive, given the types and membership.
LEMMA FreshInductive ==
    ASSUME TypeOK, MembershipInv, FreshInv, [Next]_vars
    PROVE  FreshInv'
<1>1. ASSUME UNCHANGED <<phase, sendBuf, lost, tripView, peers>> PROVE FreshInv'
  BY <1>1 DEF FreshInv, FreshAt
<1>2. CASE \/ \E c \in Clients : HubUnregisters(c) \/ HubDrops(c)
           \/ HubReplays
           \/ HubBroadcasts
  <2> SUFFICES ASSUME NEW d \in Clients PROVE FreshAt(d)'
    BY DEF FreshInv
  <2>1. FreshAt(d)
    BY DEF FreshInv
  <2>2. UNCHANGED <<tripView, peers>>
    BY <1>2 DEF HubUnregisters, HubDrops, HubReplays, HubBroadcasts, viewVars
  <2>3. phase'[d] \in {"idle", "dialing"} => phase[d] \in {"idle", "dialing"}
    BY <1>2 DEF HubUnregisters, HubDrops, HubReplays, HubBroadcasts, connVars, TypeOK
  <2>4. phase[d] \in {"idle", "dialing"} => ~IsMember(d)
    BY DEF MembershipInv, MemberIffOpen
  <2>5. QED
    BY <1>2, <2>1, <2>2, <2>3, <2>4, StrangersHearNothing, FreshKept
<1>3. CASE \/ UNCHANGED vars
           \/ HubQuits
           \/ HubReturns
           \/ StopBegins
           \/ StopClosesPersist
           \/ StopReturns
           \/ ProcessExits
           \/ \E w \in Workers : Persists(w)
           \/ Prunes
  <2>1. UNCHANGED <<phase, sendBuf, lost, tripView, peers>>
    BY <1>3
    DEF HubQuits, HubReturns, StopBegins, StopClosesPersist, StopReturns, ProcessExits,
        Persists, Prunes, vars, hubVars, connVars, viewVars
  <2>2. QED
    BY <1>1, <2>1
<1>4. QED
  BY <1>2, <1>3, ClientsStayFresh DEF Next

\* So FreshInv always holds.
LEMMA FreshCorrect == Spec => []FreshInv
<1>1. Init => FreshInv
  BY DEF Init, HubInit, FreshInv, FreshAt
<1>2. QED
  BY <1>1, FreshInductive, TypeCorrect, MembershipCorrect, PTL DEF Spec

-----------------------------------------------------------------------------
(* What browsers show follows the hub                                      *)

\* What c shows once it has applied what its Send holds.
TripShown(c)  == ShownTrip(tripView[c], sendBuf[c])
PeersShown(c) == ShownPeers(UserOf[c], peers[c], sendBuf[c])

\* A member that hears of everything.
Reached(c) == c \in writing /\ c \in connOpen /\ IsMember(c) /\ c \notin lost

\* c shows the cache of its group, but for the users in left.
PeersFollow(c, left) ==
    \A u \in Users \ {UserOf[c]} :
        PeersShown(c)[u] = IF u \in left THEN None ELSE cache[GroupOf[c]][u]

\* In the middle of a replay the joiner shows what was replayed so far, and no
\* trip; every other member shows what the hub has.
ViewAt(c) ==
    Reached(c) =>
        IF joiner = c
        THEN TripShown(c) = None /\ PeersFollow(c, todo)
        ELSE TripShown(c) = trips[GroupOf[c]] /\ PeersFollow(c, {})

\* The inductive invariant behind PeersFollowCache and TripsFollowHub.
ViewsInv == \A c \in Clients : ViewAt(c)

\* What a step may leave of a client for its view to be right still.
LEMMA ViewKept ==
    ASSUME NEW d \in Clients, ViewAt(d),
           Reached(d)' =>
               /\ Reached(d)
               /\ sendBuf'[d] = sendBuf[d]
               /\ tripView'[d] = tripView[d]
               /\ peers'[d] = peers[d]
               /\ trips'[GroupOf[d]] = trips[GroupOf[d]]
               /\ cache'[GroupOf[d]] = cache[GroupOf[d]]
               /\ joiner' = d <=> joiner = d
               /\ joiner = d => todo' = todo
    PROVE  ViewAt(d)'
BY DEF ViewAt, TripShown, PeersShown, PeersFollow

\* The types of what is shown, and what one more envelope makes of it.
LEMMA ShownTypes ==
    ASSUME TypeOK, NEW d \in Clients
    PROVE  /\ TripShown(d) \in TripViews
           /\ PeersShown(d) \in PeerViews
           /\ sendBuf[d] \in Seq(Envelope)
           /\ Len(sendBuf[d]) \in Nat
<1>1. /\ sendBuf[d] \in Seq(Envelope)
      /\ tripView[d] \in TripViews
      /\ peers[d] \in PeerViews
      /\ UserOf[d] \in Users
  BY NamesType DEF TypeOK, HubTypeOK, TripViews, PeerViews
<1>2. Len(sendBuf[d]) \in Nat
  BY <1>1
<1>3. QED
  BY <1>1, <1>2, TripFolds, PeerFolds DEF TripShown, PeersShown

\* A client that is sent an envelope will show what it makes of the view.
LEMMA HearsOne ==
    ASSUME TypeOK, NEW d \in Clients, NEW m \in Envelope,
           sendBuf'[d] = Append(sendBuf[d], m),
           tripView'[d] = tripView[d],
           peers'[d] = peers[d]
    PROVE  /\ TripShown(d)' = ShowTrip(TripShown(d), m)
           /\ PeersShown(d)' = ShowPeer(UserOf[d], PeersShown(d), m)
<1>1. /\ sendBuf[d] \in Seq(Envelope)
      /\ tripView[d] \in TripViews
      /\ peers[d] \in PeerViews
      /\ UserOf[d] \in Users
  BY NamesType DEF TypeOK, HubTypeOK, TripViews, PeerViews
<1>2. QED
  BY <1>1, TripFolds, PeerFolds DEF TripShown, PeersShown

\* So it will with two.
LEMMA HearsTwo ==
    ASSUME TypeOK, NEW d \in Clients, NEW m1 \in Envelope, NEW m2 \in Envelope,
           sendBuf'[d] = Append(Append(sendBuf[d], m1), m2),
           tripView'[d] = tripView[d],
           peers'[d] = peers[d]
    PROVE  /\ TripShown(d)' = ShowTrip(ShowTrip(TripShown(d), m1), m2)
           /\ PeersShown(d)' =
                ShowPeer(UserOf[d], ShowPeer(UserOf[d], PeersShown(d), m1), m2)
<1> DEFINE q == Append(sendBuf[d], m1)
<1>1. /\ sendBuf[d] \in Seq(Envelope)
      /\ q \in Seq(Envelope)
      /\ tripView[d] \in TripViews
      /\ peers[d] \in PeerViews
      /\ UserOf[d] \in Users
  BY NamesType DEF TypeOK, HubTypeOK, TripViews, PeerViews
<1>2. /\ ShownTrip(tripView[d], q) = ShowTrip(TripShown(d), m1)
      /\ ShownPeers(UserOf[d], peers[d], q) = ShowPeer(UserOf[d], PeersShown(d), m1)
  BY <1>1, TripFolds, PeerFolds DEF TripShown, PeersShown
<1> HIDE DEF q
<1>3. /\ ShownTrip(tripView[d], Append(q, m2)) = ShowTrip(ShownTrip(tripView[d], q), m2)
      /\ ShownPeers(UserOf[d], peers[d], Append(q, m2)) =
            ShowPeer(UserOf[d], ShownPeers(UserOf[d], peers[d], q), m2)
  BY <1>1, TripFolds, PeerFolds
<1>4. QED
  BY <1>2, <1>3 DEF TripShown, PeersShown, q

\* Whoever is not marked lost has got the envelope, or both.
LEMMA SentUnlessLost ==
    ASSUME TypeOK, NEW to, NEW d \in to, d \in Clients, d \notin lost'
    PROVE  /\ \A m : SendEach(to, m) => d \notin lost /\ sendBuf'[d] = Append(sendBuf[d], m)
           /\ \A m1, m2 : SendBoth(to, m1, m2) =>
                d \notin lost /\ sendBuf'[d] = Append(Append(sendBuf[d], m1), m2)
<1>1. Len(sendBuf[d]) \in Nat /\ SendCap \in Nat
  BY ShownTypes, HubAssumption
<1>2. ASSUME NEW m, SendEach(to, m)
      PROVE  d \notin lost /\ sendBuf'[d] = Append(sendBuf[d], m)
  BY <1>2 DEF SendEach
<1>3. ASSUME NEW m1, NEW m2, SendBoth(to, m1, m2)
      PROVE  d \notin lost /\ sendBuf'[d] = Append(Append(sendBuf[d], m1), m2)
  <2>1. d \notin lost /\ ~(Len(sendBuf[d]) + 1 >= SendCap)
    BY <1>3 DEF SendBoth
  <2>2. HasRoom(d) /\ Len(sendBuf[d]) + 1 < SendCap
    BY <1>1, <2>1 DEF HasRoom
  <2>3. QED
    BY <1>3, <2>1, <2>2 DEF SendBoth
<1>4. QED
  BY <1>2, <1>3

\* What the hub leaves alone when it passes something on to a group.
LEMMA OutsidersUntold ==
    ASSUME MembershipInv, ViewsInv, NEW to, NEW d \in Clients, d \notin to,
           \/ \E m : SendEach(to, m)
           \/ \E m1, m2 : SendBoth(to, m1, m2),
           IsMember(d)' => /\ IsMember(d)
                           /\ trips'[GroupOf[d]] = trips[GroupOf[d]]
                           /\ cache'[GroupOf[d]] = cache[GroupOf[d]],
           connOpen' \subseteq connOpen,
           UNCHANGED <<writing, tripView, peers, joiner, todo>>
    PROVE  ViewAt(d)'
<1>1. sendBuf'[d] = sendBuf[d] /\ (d \in lost' <=> d \in lost)
  BY SendsTo
<1>2. Reached(d)' => IsMember(d)' /\ Reached(d)
  BY <1>1 DEF Reached
<1>3. QED
  BY <1>1, <1>2, ViewKept DEF ViewsInv

\* The trip of a group changes as its members are told.
LEMMA TripNews ==
    ASSUME TypeOK, MembershipInv, ViewsInv, joiner = None,
           NEW g \in Groups, NEW m \in Envelope, m.type # "location",
           SendEach(groups[g], m),
           ShowTrip(trips[g], m) = trips'[g],
           \A h \in Groups \ {g} : trips'[h] = trips[h],
           UNCHANGED <<groups, cache, writing, connOpen, tripView, peers, joiner, todo>>
    PROVE  ViewsInv'
<1> SUFFICES ASSUME NEW d \in Clients PROVE ViewAt(d)'
  BY DEF ViewsInv
<1>1. GroupOf[d] \in Groups /\ joiner # d
  BY NamesType, HubAssumption
<1>2. CASE d \in groups[g]
  <2> SUFFICES ASSUME Reached(d)'
               PROVE  TripShown(d)' = trips'[GroupOf[d]] /\ PeersFollow(d, {})'
    BY <1>1 DEF ViewAt
  <2>1. GroupOf[d] = g
    BY <1>2 DEF MembershipInv, MembersBelong
  <2>2. d \notin lost /\ sendBuf'[d] = Append(sendBuf[d], m)
    BY <1>2, SentUnlessLost DEF Reached
  <2>3. Reached(d)
    BY <2>2 DEF Reached, IsMember
  <2>4. TripShown(d) = trips[g] /\ PeersFollow(d, {})
    BY <1>1, <2>1, <2>3 DEF ViewsInv, ViewAt
  <2>5. TripShown(d)' = ShowTrip(trips[g], m) /\ PeersShown(d)' = PeersShown(d)
    BY <2>2, <2>4, HearsOne DEF ShowPeer
  <2>6. QED
    BY <2>1, <2>4, <2>5 DEF PeersFollow
<1>3. CASE d \notin groups[g]
  <2>1. IsMember(d) => GroupOf[d] # g
    BY <1>3 DEF IsMember
  <2>2. QED
    BY <1>1, <1>3, <2>1, OutsidersUntold DEF IsMember
<1>4. QED
  BY <1>2, <1>3
\* A position, or its end, reaches the members but the sender, who is no
\* longer one or does not list itself.
LEMMA PositionNews ==
    ASSUME TypeOK, MembershipInv, ViewsInv, joiner = None,
           NEW c \in Clients, NEW p \in Positions \cup {None},
           SendEach(Others(c), LocationOf(UserOf[c], p)),
           groups' = groups \/ groups' = [groups EXCEPT ![GroupOf[c]] = Others(c)],
           connOpen' \subseteq connOpen,
           Others(c) # {} \/ IsMember(c)' =>
               /\ trips' = trips
               /\ cache' = [cache EXCEPT ![GroupOf[c]][UserOf[c]] = p],
           \A h \in Groups \ {GroupOf[c]} : trips'[h] = trips[h] /\ cache'[h] = cache[h],
           UNCHANGED <<writing, tripView, peers, joiner, todo>>
    PROVE  ViewsInv'
<1> DEFINE g == GroupOf[c]
           u == UserOf[c]
           m == LocationOf(u, p)
<1> SUFFICES ASSUME NEW d \in Clients PROVE ViewAt(d)'
  BY DEF ViewsInv
<1>1. /\ GroupOf[d] \in Groups
      /\ g \in Groups
      /\ u \in Users
      /\ joiner # d
      /\ groups \in [Groups -> SUBSET Clients]
      /\ cache \in [Groups -> [Users -> Positions \cup {None}]]
      /\ m \in Envelope
  BY NamesType, HubAssumption, EnvelopeType DEF TypeOK, HubTypeOK
<1>2. m.type = "location" /\ m.user = u /\ m.pos = p
  BY DEF LocationOf
<1>3. IsMember(d)' => IsMember(d)
  BY <1>1 DEF IsMember, Others
<1> HIDE DEF m
<1>4. CASE d \in Others(c)
  <2> SUFFICES ASSUME Reached(d)'
               PROVE  TripShown(d)' = trips'[GroupOf[d]] /\ PeersFollow(d, {})'
    BY <1>1 DEF ViewAt
  <2>1. GroupOf[d] = g
    BY <1>1, <1>4 DEF MembershipInv, MembersBelong, Others
  <2>2. d \notin lost /\ sendBuf'[d] = Append(sendBuf[d], m)
    BY <1>4, SentUnlessLost DEF Reached, m
  <2>3. Reached(d)
    BY <1>3, <2>2 DEF Reached
  <2>4. TripShown(d) = trips[g] /\ PeersFollow(d, {})
    BY <1>1, <2>1, <2>3 DEF ViewsInv, ViewAt
  <2>5. TripShown(d)' = TripShown(d) /\ PeersShown(d)' = ShowPeer(UserOf[d], PeersShown(d), m)
    BY <1>1, <1>2, <2>2, HearsOne DEF ShowTrip
  <2>6. trips' = trips /\ cache' = [cache EXCEPT ![g][u] = p]
    BY <1>4
  <2>7. PeersShown(d) \in [Users -> Positions \cup {None}]
    BY ShownTypes DEF PeerViews
  <2>8. ASSUME NEW v \in Users \ {UserOf[d]}
        PROVE  PeersShown(d)'[v] = cache'[g][v]
    <3>1. PeersShown(d)[v] = cache[g][v]
      BY <2>1, <2>4 DEF PeersFollow
    <3>2. CASE v = u
      <4>1. PeersShown(d)' = [PeersShown(d) EXCEPT ![u] = p]
        BY <1>2, <2>5, <3>2 DEF ShowPeer
      <4>2. QED
        BY <1>1, <2>6, <2>7, <3>2, <4>1
    <3>3. CASE v # u
      <4>1. PeersShown(d)'[v] = PeersShown(d)[v]
        BY <1>2, <2>5, <2>7, <3>3 DEF ShowPeer
      <4>2. cache'[g][v] = cache[g][v]
        BY <1>1, <2>6, <3>3
      <4>3. QED
        BY <3>1, <4>1, <4>2
    <3>4. QED
      BY <3>2, <3>3
  <2>9. QED
    BY <2>1, <2>4, <2>5, <2>6, <2>8 DEF PeersFollow
<1>5. CASE d \notin Others(c) /\ d # c
  <2>1. IsMember(d) => GroupOf[d] # g
    BY <1>5 DEF IsMember, Others
  <2>2. QED
    BY <1>1, <1>3, <1>5, <2>1, OutsidersUntold
<1>6. CASE d = c
  <2> SUFFICES ASSUME Reached(d)'
               PROVE  TripShown(d)' = trips'[GroupOf[d]] /\ PeersFollow(d, {})'
    BY <1>1 DEF ViewAt
  <2>1. d \notin Others(c)
    BY <1>6 DEF Others
  <2>2. sendBuf'[d] = sendBuf[d] /\ (d \in lost' <=> d \in lost)
    BY <2>1, SendsTo
  <2>3. Reached(d)
    BY <1>3, <2>2 DEF Reached
  <2>4. TripShown(d) = trips[g] /\ PeersFollow(d, {})
    BY <1>1, <1>6, <2>3 DEF ViewsInv, ViewAt
  <2>5. trips' = trips /\ cache' = [cache EXCEPT ![g][u] = p]
    BY <1>6 DEF Reached
  <2>6. \A v \in Users \ {u} : cache'[g][v] = cache[g][v]
    BY <1>1, <2>5
  <2>7. QED
    BY <1>6, <2>2, <2>4, <2>5, <2>6 DEF PeersFollow, TripShown, PeersShown
<1>7. QED
  BY <1>4, <1>5, <1>6

\* What a trip handler's envelope makes of the trip the group had.
LEMMA ShownAsHub ==
    ASSUME NEW trip \in Trip
    PROVE  /\ \A new \in Trip : \A old : ShowTrip(old, TripEnvelope("trip_create", new)) = new
           /\ \A old : ShowTrip(old, TripEnvelope("trip_end", trip)) = None
           /\ \A u \in Users, type \in {"trip_join", "trip_leave"} :
                 /\ ShowTrip(trip, TripEnvelope(type, Leave(trip, u))) = Leave(trip, u)
                 /\ ShowTrip(trip, TripEnvelope(type, [trip EXCEPT !.riders[u] = @ + 1]))
                      = [trip EXCEPT !.riders[u] = @ + 1]
           /\ LET started == [trip EXCEPT !.status = "active"] IN
              ShowTrip(trip, TripEnvelope("trip_start", started)) = started
<1>1. trip # None
  BY HubAssumption
<1>2. /\ \A new \in Trip : \A old : ShowTrip(old, TripEnvelope("trip_create", new)) = new
      /\ \A old : ShowTrip(old, TripEnvelope("trip_end", trip)) = None
  BY DEF ShowTrip, TripEnvelope
<1>3. ASSUME NEW u \in Users, NEW type \in {"trip_join", "trip_leave"}, NEW new \in Trip,
             new.id = trip.id, new.creator = trip.creator, new.status = trip.status
      PROVE  ShowTrip(trip, TripEnvelope(type, new)) = new
  <2>1. ShowTrip(trip, TripEnvelope(type, new)) = [trip EXCEPT !.riders = new.riders]
    BY <1>1 DEF ShowTrip, TripEnvelope
  <2>2. QED
    BY <1>3, <2>1 DEF Trip
<1>4. ASSUME NEW u \in Users
      PROVE  /\ Leave(trip, u) \in Trip
             /\ Leave(trip, u).id = trip.id
             /\ Leave(trip, u).creator = trip.creator
             /\ Leave(trip, u).status = trip.status
  BY TripType DEF Leave, Trip
<1>5. ASSUME NEW u \in Users
      PROVE  LET new == [trip EXCEPT !.riders[u] = @ + 1] IN
             /\ new \in Trip
             /\ new.id = trip.id
             /\ new.creator = trip.creator
             /\ new.status = trip.status
  BY TripType DEF Trip
<1>6. LET started == [trip EXCEPT !.status = "active"] IN
      ShowTrip(trip, TripEnvelope("trip_start", started)) = started
  BY <1>1 DEF ShowTrip, TripEnvelope
<1>7. QED
  BY <1>2, <1>3, <1>4, <1>5, <1>6

\* A rider leaves its group: the others hear of the trip and of its position.
LEMMA RiderNews ==
    ASSUME TypeOK, MembershipInv, ViewsInv, joiner = None,
           NEW c \in Clients, NEW ok, UnregisterMember(c, ok), TripOpen(GroupOf[c]),
           connOpen' \subseteq connOpen,
           UNCHANGED <<writing, tripView, peers>>
    PROVE  ViewsInv'
<1> DEFINE g == GroupOf[c]
           u == UserOf[c]
           left == Leave(trips[g], u)
           m1 == TripEnvelope("trip_leave", left)
           m2 == Offline(u)
<1> SUFFICES ASSUME NEW d \in Clients PROVE ViewAt(d)'
  BY DEF ViewsInv
<1>1. /\ GroupOf[d] \in Groups
      /\ g \in Groups
      /\ u \in Users
      /\ joiner # d
      /\ groups \in [Groups -> SUBSET Clients]
      /\ cache \in [Groups -> [Users -> Positions \cup {None}]]
      /\ trips \in [Groups -> Trip \cup {None}]
      /\ trips[g] \in Trip
      /\ left \in Trip
  <2>1. GroupOf[d] \in Groups /\ g \in Groups /\ u \in Users /\ joiner # d
    BY NamesType, HubAssumption
  <2>2. trips[g] \in Trip
    BY <2>1, TripOfGroup DEF TripOpen
  <2>3. QED
    BY <2>1, <2>2, TripEdited DEF TypeOK, HubTypeOK
<1>2. /\ m1 \in Envelope /\ m2 \in Envelope
      /\ m1.type = "trip_leave"
      /\ m2.type = "location" /\ m2.user = u /\ m2.pos = None
      /\ ShowTrip(trips[g], m1) = left
  BY <1>1, EnvelopeType, ShownAsHub DEF Offline, LocationOf, TripEnvelope
<1>3. /\ c \in groups[g]
      /\ groups' = [groups EXCEPT ![g] = Others(c)]
      /\ SendBoth(Others(c), m1, m2)
      /\ trips' = [trips EXCEPT ![g] = IF Abandoned(Others(c)) THEN None ELSE left]
      /\ cache' = IF Abandoned(Others(c)) THEN [cache EXCEPT ![g] = NoPositions]
                                         ELSE [cache EXCEPT ![g][u] = None]
      /\ UNCHANGED <<joiner, todo>>
  BY DEF UnregisterMember
<1>4. IsMember(d)' => IsMember(d) /\ d # c
  BY <1>1, <1>3 DEF IsMember, Others
<1> HIDE DEF m1, m2, left
<1>5. CASE d \in Others(c)
  <2> SUFFICES ASSUME Reached(d)'
               PROVE  TripShown(d)' = trips'[GroupOf[d]] /\ PeersFollow(d, {})'
    BY <1>1, <1>3 DEF ViewAt
  <2>1. GroupOf[d] = g
    BY <1>1, <1>5 DEF MembershipInv, MembersBelong, Others
  <2>2. d \notin lost /\ sendBuf'[d] = Append(Append(sendBuf[d], m1), m2)
    BY <1>3, <1>5, SentUnlessLost DEF Reached
  <2>3. Reached(d)
    BY <1>4, <2>2 DEF Reached
  <2>4. TripShown(d) = trips[g] /\ PeersFollow(d, {})
    BY <1>1, <2>1, <2>3 DEF ViewsInv, ViewAt
  <2>5. /\ TripShown(d)' = ShowTrip(ShowTrip(TripShown(d), m1), m2)
        /\ PeersShown(d)' =
             ShowPeer(UserOf[d], ShowPeer(UserOf[d], PeersShown(d), m1), m2)
    BY <1>2, <2>2, HearsTwo
  <2>6. TripShown(d)' = left
    BY <1>2, <2>4, <2>5 DEF ShowTrip
  <2>7. PeersShown(d)' = ShowPeer(UserOf[d], PeersShown(d), m2)
    BY <1>2, <2>5 DEF ShowPeer
  <2>8. trips'[g] = left /\ cache' = [cache EXCEPT ![g][u] = None]
    BY <1>1, <1>3, <1>5 DEF Abandoned
  <2>9. PeersShown(d) \in [Users -> Positions \cup {None}]
    BY ShownTypes DEF PeerViews
  <2>10. ASSUME NEW v \in Users \ {UserOf[d]}
         PROVE  PeersShown(d)'[v] = cache'[g][v]
    <3>1. PeersShown(d)[v] = cache[g][v]
      BY <2>1, <2>4 DEF PeersFollow
    <3>2. QED
      BY <1>1, <1>2, <2>7, <2>8, <2>9, <3>1 DEF ShowPeer
  <2>11. QED
    BY <2>1, <2>6, <2>8, <2>10 DEF PeersFollow
<1>6. CASE d \notin Others(c)
  <2>1. IsMember(d)' => GroupOf[d] # g
    BY <1>1, <1>3, <1>6 DEF IsMember
  <2>2. GroupOf[d] # g => trips'[GroupOf[d]] = trips[GroupOf[d]]
                          /\ cache'[GroupOf[d]] = cache[GroupOf[d]]
    BY <1>1, <1>3
  <2>3. QED
    BY <1>3, <1>4, <1>6, <2>1, <2>2, OutsidersUntold
<1>7. QED
  BY <1>5, <1>6

\* An unregistration keeps the views right.
LEMMA DeparturesKeepViews ==
    ASSUME TypeOK, MembershipInv, ViewsInv, NEW c \in Clients,
           HubUnregisters(c) \/ HubDrops(c)
    PROVE  ViewsInv'
<1> DEFINE g == GroupOf[c]
           u == UserOf[c]
<1>1. PICK ok \in StoreOutcomes : HandleUnregister(c, ok)
  BY DEF HubUnregisters, HubDrops, HandleUnregister
<1>2. joiner = None /\ connOpen' \subseteq connOpen /\ UNCHANGED <<writing, tripView, peers>>
  BY DEF HubUnregisters, HubDrops, ConnCloses, connVars, viewVars, MembershipInv,
         ReplayIsToMember
<1>3. g \in Groups /\ u \in Users
  BY NamesType
<1>4. CASE UnregisterStranger(c)
  <2> SUFFICES ASSUME NEW d \in Clients PROVE ViewAt(d)'
    BY DEF ViewsInv
  <2>1. ViewAt(d) /\ UNCHANGED hubVars
    BY <1>4 DEF ViewsInv, UnregisterStranger
  <2>2. QED
    BY <1>2, <2>1, ViewKept DEF hubVars, Reached, IsMember
<1>5. CASE UnregisterMember(c, ok) /\ TripOpen(g)
  BY <1>2, <1>5, RiderNews
<1>6. CASE UnregisterMember(c, ok) /\ ~TripOpen(g)
  <2>1. /\ groups' = [groups EXCEPT ![g] = Others(c)]
        /\ SendEach(Others(c), LocationOf(u, None))
        /\ trips' = [trips EXCEPT ![g] = IF Abandoned(Others(c)) THEN None ELSE @]
        /\ cache' = IF Abandoned(Others(c)) THEN [cache EXCEPT ![g] = NoPositions]
                                           ELSE [cache EXCEPT ![g][u] = None]
        /\ UNCHANGED <<joiner, todo>>
    BY <1>6 DEF UnregisterMember, Offline
  <2>2. ~IsMember(c)'
    BY <1>3, <2>1 DEF IsMember, Others, TypeOK, HubTypeOK
  <2>3. Others(c) # {} => trips' = trips /\ cache' = [cache EXCEPT ![g][u] = None]
    BY <1>3, <2>1 DEF Abandoned, TypeOK, HubTypeOK
  <2>4. \A h \in Groups \ {g} : trips'[h] = trips[h] /\ cache'[h] = cache[h]
    BY <1>3, <2>1 DEF TypeOK, HubTypeOK
  <2>5. QED
    BY <1>2, <2>1, <2>2, <2>3, <2>4, PositionNews
<1>7. QED
  BY <1>1, <1>4, <1>5, <1>6 DEF HandleUnregister

\* So does a message.
LEMMA MessagesKeepViews ==
    ASSUME TypeOK, MembershipInv, ViewsInv, HubBroadcasts
    PROVE  ViewsInv'
<1> DEFINE m == Head(broadcast)
           c == m.sender
           g == GroupOf[c]
           u == UserOf[c]
<1>1. PICK ok \in StoreOutcomes : HandleBroadcast(m, ok)
  BY DEF HubBroadcasts
<1>2. /\ m \in Message /\ c \in Clients /\ g \in Groups /\ u \in Users
      /\ joiner = None
      /\ UNCHANGED <<writing, connOpen, tripView, peers>>
  <2>1. m \in Message
    BY HeadTailProperties DEF TypeOK, HubBroadcasts
  <2>2. QED
    BY <2>1, NamesType
    DEF Message, HubBroadcasts, connVars, viewVars, MembershipInv, ReplayIsToMember
<1>3. ASSUME UNCHANGED <<groups, cache, trips, sendBuf, lost, joiner, todo>>
      PROVE  ViewsInv'
  <2> SUFFICES ASSUME NEW d \in Clients PROVE ViewAt(d)'
    BY DEF ViewsInv
  <2>1. ViewAt(d)
    BY DEF ViewsInv
  <2>2. QED
    BY <1>2, <1>3, <2>1, ViewKept DEF Reached, IsMember
<1>4. CASE m.type = "location" /\ HandleLocation(c, m.pos)
  <2>1. CASE HasStore /\ persistClosed
    BY <1>3, <1>4, <2>1 DEF HandleLocation
  <2>2. CASE ~(HasStore /\ persistClosed)
    <3>1. /\ cache' = [cache EXCEPT ![g][u] = m.pos]
          /\ SendEach(Others(c), LocationOf(u, m.pos))
          /\ UNCHANGED <<groups, trips, joiner, todo>>
      BY <1>4, <2>2 DEF HandleLocation
    <3>2. \A h \in Groups \ {g} : cache'[h] = cache[h]
      BY <1>2, <3>1 DEF TypeOK, HubTypeOK
    <3>3. m.pos \in Positions \cup {None}
      BY <1>2 DEF Message
    <3>4. QED
      BY <1>2, <3>1, <3>2, <3>3, PositionNews
  <2>3. QED
    BY <2>1, <2>2
<1>5. ASSUME NEW trip \in Trip, NEW type,
             TripBecomes(g, trip, type), UnchangedByTrips,
             TripEnvelope(type, trip) \in Envelope, type # "location",
             ShowTrip(trips[g], TripEnvelope(type, trip)) = trip
      PROVE  ViewsInv'
  <2> DEFINE e == TripEnvelope(type, trip)
  <2>1. /\ e \in Envelope /\ e.type # "location"
        /\ SendEach(groups[g], e)
        /\ trips' = [trips EXCEPT ![g] = trip]
        /\ UNCHANGED <<groups, cache, joiner, todo>>
    BY <1>5 DEF TripBecomes, UnchangedByTrips, TripEnvelope
  <2>2. trips'[g] = trip /\ \A h \in Groups \ {g} : trips'[h] = trips[h]
    BY <1>2, <2>1 DEF TypeOK, HubTypeOK
  <2>3. ShowTrip(trips[g], e) = trips'[g]
    BY <1>5, <2>2
  <2> HIDE DEF e, g
  <2>4. QED
    BY <1>2, <2>1, <2>2, <2>3, TripNews
<1>6. ASSUME NEW id \in FreshTripId, HandleTripCreate(c, id, ok)
      PROVE  ViewsInv'
  <2> DEFINE trip == [id |-> id, creator |-> u, status |-> "planning",
                      riders |-> [NoRiders EXCEPT ![u] = 1]]
  <2>1. trip \in Trip
    BY <1>2, RidersType DEF Trip, FreshTripId
  <2>2. TripBecomes(g, trip, "trip_create") /\ UnchangedByTrips
    BY <1>6 DEF HandleTripCreate
  <2> HIDE DEF trip
  <2>3. QED
    BY <1>5, <2>1, <2>2, EnvelopeType, ShownAsHub
<1>7. CASE HandleTripJoin(c, ok)
  <2> DEFINE joined == [trips[g] EXCEPT !.riders[u] = @ + 1]
  <2>1. CASE TripOpen(g) /\ trips[g].riders[u] = 0
    <3>1. trips[g] \in Trip
      BY <1>2, <2>1, TripOfGroup DEF TripOpen
    <3>2. joined \in Trip /\ ShowTrip(trips[g], TripEnvelope("trip_join", joined)) = joined
      BY <1>2, <3>1, TripEdited, ShownAsHub
    <3>3. TripBecomes(g, joined, "trip_join") /\ UnchangedByTrips
      BY <1>7, <2>1 DEF HandleTripJoin
    <3> HIDE DEF joined
    <3>4. QED
      BY <1>5, <3>2, <3>3, EnvelopeType
  <2>2. CASE ~(TripOpen(g) /\ trips[g].riders[u] = 0)
    BY <1>3, <1>7, <2>2 DEF HandleTripJoin, hubVars
  <2>3. QED
    BY <2>1, <2>2
<1>8. CASE HandleTripLeave(c, ok)
  <2> DEFINE left == Leave(trips[g], u)
  <2>1. CASE TripOpen(g)
    <3>1. trips[g] \in Trip
      BY <1>2, <2>1, TripOfGroup DEF TripOpen
    <3>2. left \in Trip /\ ShowTrip(trips[g], TripEnvelope("trip_leave", left)) = left
      BY <1>2, <3>1, TripEdited, ShownAsHub
    <3>3. TripBecomes(g, left, "trip_leave") /\ UnchangedByTrips
      BY <1>8, <2>1 DEF HandleTripLeave
    <3> HIDE DEF left
    <3>4. QED
      BY <1>5, <3>2, <3>3, EnvelopeType
  <2>2. CASE ~TripOpen(g)
    BY <1>3, <1>8, <2>2 DEF HandleTripLeave, hubVars
  <2>3. QED
    BY <2>1, <2>2
<1>9. CASE HandleTripStart(c)
  <2> DEFINE started == [trips[g] EXCEPT !.status = "active"]
  <2>1. CASE MayControlTrip(c)
    <3>1. trips[g] \in Trip
      BY <1>2, <2>1, TripOfGroup DEF MayControlTrip
    <3>2. started \in Trip /\ ShowTrip(trips[g], TripEnvelope("trip_start", started)) = started
      BY <3>1, ShownAsHub DEF Trip
    <3>3. TripBecomes(g, started, "trip_start") /\ UnchangedByTrips
      BY <1>9, <2>1 DEF HandleTripStart
    <3> HIDE DEF started
    <3>4. QED
      BY <1>5, <3>2, <3>3, EnvelopeType
  <2>2. CASE ~MayControlTrip(c)
    BY <1>3, <1>9, <2>2 DEF HandleTripStart, hubVars
  <2>3. QED
    BY <2>1, <2>2
<1>10. CASE HandleTripEnd(c)
  <2> DEFINE ended == [trips[g] EXCEPT !.status = "completed"]
             e == TripEnvelope("trip_end", ended)
  <2>1. CASE MayControlTrip(c)
    <3>1. trips[g] \in Trip
      BY <1>2, <2>1, TripOfGroup DEF MayControlTrip
    <3>2. ended \in Trip
      BY <3>1 DEF Trip
    <3>3. /\ SendEach(groups[g], e)
          /\ trips' = [trips EXCEPT ![g] = None]
          /\ UNCHANGED <<groups, cache, joiner, todo>>
      BY <1>10, <2>1 DEF HandleTripEnd, UnchangedByTrips
    <3> HIDE DEF ended
    <3>4. e \in Envelope /\ e.type # "location" /\ ShowTrip(trips[g], e) = None
      BY <3>2, EnvelopeType, ShownAsHub DEF TripEnvelope
    <3>5. trips'[g] = None /\ \A h \in Groups \ {g} : trips'[h] = trips[h]
      BY <1>2, <3>3 DEF TypeOK, HubTypeOK
    <3>6. ShowTrip(trips[g], e) = trips'[g]
      BY <3>4, <3>5
    <3> HIDE DEF e, g
    <3>7. QED
      BY <1>2, <3>3, <3>4, <3>5, <3>6, TripNews
  <2>2. CASE ~MayControlTrip(c)
    BY <1>3, <1>10, <2>2 DEF HandleTripEnd, hubVars
  <2>3. QED
    BY <2>1, <2>2
<1>11. CASE m.type = "other" /\ UNCHANGED <<hubVars, storeVars>>
  BY <1>3, <1>11 DEF hubVars
<1>12. QED
  BY <1>1, <1>4, <1>6, <1>7, <1>8, <1>9, <1>10, <1>11 DEF HandleBroadcast
\* So does a registration; an admitted client shows nothing, and everything is
\* left to replay.
LEMMA RegistrationsKeepViews ==
    ASSUME TypeOK, MembershipInv, FreshInv, ViewsInv, NEW c \in Clients, HubRegisters(c)
    PROVE  ViewsInv'
<1> DEFINE g == GroupOf[c]
<1> SUFFICES ASSUME NEW d \in Clients PROVE ViewAt(d)'
  BY DEF ViewsInv
<1>1. /\ phase[c] = "dialing"
      /\ writing' = writing \cup {c}
      /\ joiner = None
      /\ c \notin groups[g]
      /\ ViewAt(d)
      /\ GroupOf[d] \in Groups /\ g \in Groups
      /\ groups \in [Groups -> SUBSET Clients]
      /\ cache \in [Groups -> [Users -> Positions \cup {None}]]
      /\ UNCHANGED <<connOpen, tripView, peers, sendBuf, lost, trips>>
  BY NamesType
  DEF HubRegisters, RejectJoiner, AdmitJoiner, MembershipInv, MemberIffOpen,
      ReplayIsToMember, IsMember, ViewsInv, TypeOK, HubTypeOK, viewVars
<1>2. IsMember(d) => cache'[GroupOf[d]] = cache[GroupOf[d]]
  <2>1. MakeGroup(g)
    BY DEF HubRegisters, RejectJoiner, AdmitJoiner
  <2>2. IsMember(d) => GroupOf[d] \in rooms
    BY <1>1 DEF MembershipInv, RoomsNonEmpty, IsMember
  <2>3. QED
    BY <1>1, <2>1, <2>2 DEF MakeGroup
<1>3. CASE RejectJoiner(c)
  <2>1. UNCHANGED <<groups, joiner, todo>>
    BY <1>3 DEF RejectJoiner
  <2>2. ~IsMember(c)'
    BY <1>1, <2>1 DEF IsMember
  <2>3. QED
    BY <1>1, <1>2, <2>1, <2>2, ViewKept DEF Reached, IsMember
<1>4. CASE AdmitJoiner(c)
  <2>1. /\ groups' = [groups EXCEPT ![g] = @ \cup {c}]
        /\ joiner' = c
        /\ todo' = {u \in Users : cache'[g][u] # None}
    BY <1>4 DEF AdmitJoiner
  <2>2. CASE d # c
    <3>1. IsMember(d)' => IsMember(d)
      BY <1>1, <2>1, <2>2 DEF IsMember
    <3>2. joiner # d /\ joiner' # d
      BY <1>1, <2>1, <2>2, HubAssumption
    <3>3. QED
      BY <1>1, <1>2, <2>2, <3>1, <3>2, ViewKept DEF Reached
  <2>3. CASE d = c
    <3>1. sendBuf[c] = <<>> /\ tripView[c] = None /\ peers[c] = NoPositions
      BY <1>1 DEF FreshInv, FreshAt
    <3>2. UserOf[c] \in Users /\ None \in TripViews /\ NoPositions \in PeerViews
          /\ <<>> \in Seq(Envelope)
      BY NamesType DEF TripViews, PeerViews, NoPositions
    <3>3. ShownTrip(None, <<>>) = None /\ ShownPeers(UserOf[c], NoPositions, <<>>) = NoPositions
      BY <3>2, TripFolds, PeerFolds
    <3>4. TripShown(c)' = None /\ PeersShown(c)' = NoPositions
      BY <1>1, <3>1, <3>3 DEF TripShown, PeersShown
    <3>5. PeersFollow(c, todo)'
      BY <2>1, <3>4 DEF PeersFollow, NoPositions
    <3>6. QED
      BY <2>1, <2>3, <3>4, <3>5 DEF ViewAt
  <2>4. QED
    BY <2>2, <2>3
<1>5. QED
  BY <1>3, <1>4 DEF HubRegisters

\* So does the replay, which ends with the joiner shown what the others are.
LEMMA ReplayKeepsViews ==
    ASSUME TypeOK, MembershipInv, ViewsInv, HubReplays
    PROVE  ViewsInv'
<1> DEFINE c == joiner
           g == GroupOf[c]
<1> SUFFICES ASSUME NEW d \in Clients PROVE ViewAt(d)'
  BY DEF ViewsInv
<1>1. /\ c \in Clients /\ g \in Groups
      /\ c # None
      /\ ViewAt(d)
      /\ UNCHANGED <<writing, connOpen, tripView, peers, trips, cache>>
      /\ groups \in [Groups -> SUBSET Clients]
      /\ cache \in [Groups -> [Users -> Positions \cup {None}]]
      /\ trips \in [Groups -> Trip \cup {None}]
      /\ sendBuf \in [Clients -> Seq(Envelope)]
  BY NamesType, HubAssumption
  DEF MembershipInv, ReplayIsToMember, HubReplays, ReplayLocation, ReplayOverflows,
      ReplayTrip, ViewsInv, TypeOK, HubTypeOK, connVars, viewVars
<1>2. ASSUME NEW u \in Users, ReplayLocation(u)
      PROVE  ViewAt(d)'
  <2> DEFINE m == LocationOf(u, cache[g][u])
  <2>1. /\ u \in todo
        /\ sendBuf' = [sendBuf EXCEPT ![c] = Append(@, m)]
        /\ todo' = todo \ {u}
        /\ UNCHANGED <<groups, lost, joiner>>
    BY <1>2 DEF ReplayLocation
  <2>2. m \in Envelope /\ m.type = "location" /\ m.user = u /\ m.pos = cache[g][u]
    BY <1>1, EnvelopeType DEF LocationOf
  <2> HIDE DEF m
  <2>3. CASE d # c
    BY <1>1, <2>1, <2>3, ViewKept DEF Reached, IsMember
  <2>4. CASE d = c
    <3> SUFFICES ASSUME Reached(d)' PROVE TripShown(d)' = None /\ PeersFollow(d, todo)'
      BY <2>1, <2>4 DEF ViewAt
    <3>1. sendBuf'[d] = Append(sendBuf[d], m)
      BY <1>1, <2>1, <2>4
    <3>2. TripShown(d) = None /\ PeersFollow(d, todo)
      BY <1>1, <2>1, <2>4 DEF ViewAt, Reached, IsMember
    <3>3. /\ TripShown(d)' = TripShown(d)
          /\ PeersShown(d)' = ShowPeer(UserOf[d], PeersShown(d), m)
      BY <1>1, <2>2, <3>1, HearsOne DEF ShowTrip
    <3>4. PeersShown(d) \in [Users -> Positions \cup {None}]
      BY ShownTypes DEF PeerViews
    <3>5. ASSUME NEW v \in Users \ {UserOf[d]}
          PROVE  PeersShown(d)'[v] = IF v \in todo' THEN None ELSE cache'[GroupOf[d]][v]
      <4>1. PeersShown(d)[v] = IF v \in todo THEN None ELSE cache[g][v]
        BY <2>4, <3>2 DEF PeersFollow
      <4>2. QED
        BY <1>1, <2>1, <2>2, <2>4, <3>3, <3>4, <4>1 DEF ShowPeer
    <3>6. QED
      BY <3>2, <3>3, <3>5 DEF PeersFollow
  <2>5. QED
    BY <2>3, <2>4
<1>3. CASE ReplayOverflows
  <2>1. /\ groups' = [groups EXCEPT ![g] = @ \ {c}]
        /\ joiner' = None
        /\ UNCHANGED <<sendBuf, lost>>
    BY <1>3 DEF ReplayOverflows
  <2>2. IsMember(d)' => IsMember(d) /\ d # c
    BY <1>1, <2>1 DEF IsMember
  <2>3. d # None
    BY HubAssumption
  <2>4. QED
    BY <1>1, <2>1, <2>2, <2>3, ViewKept DEF Reached
<1>4. CASE ReplayTrip
  <2>1. todo = {} /\ joiner' = None /\ d # None /\ UNCHANGED <<groups, todo>>
    BY <1>4, HubAssumption DEF ReplayTrip
  <2>2. CASE d # c
    <3>1. sendBuf'[d] = sendBuf[d] /\ (d \in lost' <=> d \in lost)
      BY <1>4, <2>2, SendsTo DEF ReplayTrip
    <3>2. QED
      BY <1>1, <2>1, <2>2, <3>1, ViewKept DEF Reached, IsMember
  <2>3. CASE d = c
    <3> SUFFICES ASSUME Reached(d)'
                 PROVE  TripShown(d)' = trips[g] /\ PeersFollow(d, {})'
      BY <1>1, <2>1, <2>3 DEF ViewAt
    <3>1. CASE trips[g] # None
      <4> DEFINE m == TripEnvelope("trip_create", trips[g])
      <4>1. trips[g] \in Trip /\ SendEach({c}, m)
        BY <1>1, <1>4, <3>1 DEF ReplayTrip
      <4>2. /\ m \in Envelope /\ m.type = "trip_create"
            /\ \A old : ShowTrip(old, m) = trips[g]
        BY <4>1, EnvelopeType, ShownAsHub DEF TripEnvelope
      <4> HIDE DEF m
      <4>3. d \notin lost /\ sendBuf'[d] = Append(sendBuf[d], m)
        BY <2>3, <4>1, SentUnlessLost DEF Reached
      <4>4. PeersFollow(d, {})
        BY <1>1, <2>1, <2>3, <4>3 DEF ViewAt, Reached, IsMember
      <4>5. TripShown(d)' = ShowTrip(TripShown(d), m) /\ PeersShown(d)' = PeersShown(d)
        BY <1>1, <4>2, <4>3, HearsOne DEF ShowPeer
      <4>6. QED
        BY <1>1, <4>2, <4>4, <4>5 DEF PeersFollow
    <3>2. CASE trips[g] = None
      <4>1. UNCHANGED <<sendBuf, lost>>
        BY <1>4, <3>2 DEF ReplayTrip
      <4>2. TripShown(d) = None /\ PeersFollow(d, {})
        BY <1>1, <2>1, <2>3, <4>1 DEF ViewAt, Reached, IsMember
      <4>3. QED
        BY <1>1, <3>2, <4>1, <4>2 DEF TripShown, PeersShown, PeersFollow
    <3>3. QED
      BY <3>1, <3>2
  <2>4. QED
    BY <2>2, <2>3
<1>5. QED
  BY <1>2, <1>3, <1>4 DEF HubReplays

\* So do the pumps and the browsers: what is delivered is shown, and no longer
\* waits to be.
LEMMA PumpsKeepViews ==
    ASSUME TypeOK, MembershipInv, ViewsInv, NEW c \in Clients,
           \/ Connect(c)
           \/ PeerCloses(c)
           \/ Recycle(c)
           \/ \E m \in Message : ReadForwards(c, m)
           \/ ReadFails(c)
           \/ WriteDelivers(c)
           \/ WriteFails(c)
           \/ PingFails(c)
           \/ WriteCloses(c)
    PROVE  ViewsInv'
<1> SUFFICES ASSUME NEW d \in Clients PROVE ViewAt(d)'
  BY DEF ViewsInv
<1>1. /\ ViewAt(d)
      /\ UNCHANGED <<groups, cache, trips, joiner, todo>>
  BY DEF ViewsInv, Connect, PeerCloses, Recycle, ReadForwards, ReadFails, WriteDelivers,
         WriteFails, PingFails, WriteCloses, WritePumpReturns, hubVars
<1>2. /\ sendBuf \in [Clients -> Seq(Envelope)]
      /\ tripView \in [Clients -> Trip \cup {None}]
      /\ peers \in [Clients -> [Users -> Positions \cup {None}]]
      /\ UserOf[d] \in Users
  BY NamesType DEF TypeOK, HubTypeOK
<1>3. CASE Recycle(c)
  <2>1. c \notin writing /\ UNCHANGED <<writing, connOpen>>
    BY <1>3 DEF Recycle
  <2>2. c # d => /\ sendBuf'[d] = sendBuf[d]
                 /\ tripView'[d] = tripView[d]
                 /\ peers'[d] = peers[d]
                 /\ d \in lost' <=> d \in lost
    BY <1>2, <1>3 DEF Recycle
  <2>3. QED
    BY <1>1, <2>1, <2>2, ViewKept DEF Reached, IsMember
<1>4. CASE Connect(c)
  <2>1. c \notin writing
    BY <1>4 DEF Connect, MembershipInv, ConnsArePlaced
  <2>2. /\ connOpen' = connOpen \cup {c}
        /\ UNCHANGED <<writing, sendBuf, lost, tripView, peers>>
    BY <1>4 DEF Connect, hubVars, viewVars
  <2>3. QED
    BY <1>1, <2>1, <2>2, ViewKept DEF Reached, IsMember
<1>5. CASE WriteDelivers(c)
  <2>1. /\ sendBuf[c] # <<>>
        /\ sendBuf' = [sendBuf EXCEPT ![c] = Tail(@)]
        /\ peers' = [peers EXCEPT ![c] = ShowPeer(UserOf[c], @, Head(sendBuf[c]))]
        /\ tripView' = [tripView EXCEPT ![c] = ShowTrip(@, Head(sendBuf[c]))]
        /\ UNCHANGED <<writing, connOpen, lost>>
    BY <1>5 DEF WriteDelivers, connVars
  <2>2. CASE d # c
    BY <1>1, <1>2, <2>1, <2>2, ViewKept DEF Reached, IsMember
  <2>3. CASE d = c
    <3> DEFINE q == sendBuf[d]
    <3>1. /\ q \in Seq(Envelope) /\ q # <<>>
          /\ tripView[d] \in TripViews
          /\ peers[d] \in PeerViews
      BY <1>2, <2>1, <2>3 DEF TripViews, PeerViews
    <3>2. /\ sendBuf'[d] = Tail(q)
          /\ tripView'[d] = ShowTrip(tripView[d], Head(q))
          /\ peers'[d] = ShowPeer(UserOf[d], peers[d], Head(q))
      BY <1>2, <2>1, <2>3
    <3> HIDE DEF q
    <3>3. /\ ShownTrip(ShowTrip(tripView[d], Head(q)), Tail(q)) = ShownTrip(tripView[d], q)
          /\ ShownPeers(UserOf[d], ShowPeer(UserOf[d], peers[d], Head(q)), Tail(q)) =
                ShownPeers(UserOf[d], peers[d], q)
      BY <1>2, <3>1, TripFolds, PeerFolds
    <3>4. TripShown(d)' = TripShown(d) /\ PeersShown(d)' = PeersShown(d)
      BY <3>2, <3>3 DEF TripShown, PeersShown, q
    <3>5. QED
      BY <1>1, <2>1, <3>4 DEF ViewAt, Reached, IsMember, PeersFollow
  <2>4. QED
    BY <2>2, <2>3
<1>6. CASE WriteFails(c)
  <2>1. /\ sendBuf' = [sendBuf EXCEPT ![c] = Tail(@)]
        /\ writing' = writing \ {c}
        /\ connOpen' = connOpen \ {c}
        /\ UNCHANGED <<lost, tripView, peers>>
    BY <1>6 DEF WriteFails, WritePumpReturns, ConnCloses, viewVars
  <2>2. d # c => sendBuf'[d] = sendBuf[d]
    BY <1>2, <2>1
  <2>3. QED
    BY <1>1, <2>1, <2>2, ViewKept DEF Reached, IsMember
<1>7. CASE \/ PeerCloses(c)
           \/ \E m \in Message : ReadForwards(c, m)
           \/ ReadFails(c)
           \/ PingFails(c)
           \/ WriteCloses(c)
  <2>1. /\ writing' \subseteq writing
        /\ connOpen' \subseteq connOpen
        /\ UNCHANGED <<sendBuf, lost, tripView, peers>>
    BY <1>7 DEF PeerCloses, ReadForwards, ReadFails, PingFails, WriteCloses,
                WritePumpReturns, ConnCloses, hubVars, connVars, viewVars
  <2>2. QED
    BY <1>1, <2>1, ViewKept DEF Reached, IsMember
<1>8. QED
  BY <1>3, <1>4, <1>5, <1>6, <1>7

\* ViewsInv is inductive, given the types, membership and FreshInv.
LEMMA ViewsInductive ==
    ASSUME TypeOK, MembershipInv, FreshInv, ViewsInv, [Next]_vars
    PROVE  ViewsInv'
<1>1. CASE ProcessExits
  BY <1>1 DEF ProcessExits, ViewsInv, ViewAt, Reached
<1>2. CASE \/ UNCHANGED vars
           \/ HubQuits
           \/ HubReturns
           \/ StopBegins
           \/ StopClosesPersist
           \/ StopReturns
           \/ \E w \in Workers : Persists(w)
           \/ Prunes
  <2>1. UNCHANGED <<groups, cache, trips, sendBuf, lost, joiner, todo, writing, connOpen,
                    tripView, peers>>
    BY <1>2
    DEF HubQuits, HubReturns, StopBegins, StopClosesPersist, StopReturns, Persists,
        Prunes, vars, hubVars, connVars, viewVars
  <2>2. ASSUME NEW d \in Clients PROVE ViewAt(d)'
    BY <2>1, ViewKept DEF ViewsInv, Reached, IsMember
  <2>3. QED
    BY <2>2 DEF ViewsInv
<1>3. QED
  BY <1>1, <1>2, RegistrationsKeepViews, ReplayKeepsViews, DeparturesKeepViews,
     MessagesKeepViews, PumpsKeepViews
  DEF Next, ClientNext

\* So ViewsInv always holds.
LEMMA ViewsCorrect == Spec => []ViewsInv
<1>1. Init => ViewsInv
  BY DEF Init, ViewsInv, ViewAt, Reached
<1>2. QED
  BY <1>1, ViewsInductive, TypeCorrect, MembershipCorrect, FreshCorrect, PTL DEF Spec

\* For any number of clients, users and groups, and any capacities: a browser
\* that was dropped no envelope shows, once it has applied what its Send still
\* holds, the position of exactly the other users the hub has cached, whatever
\* the order of joins, replays, locations and departures.
THEOREM PeersFollowCache == Spec => []PeersAgree
<1>1. ASSUME TypeOK, ViewsInv PROVE PeersAgree
  <2>1. \A c \in writing \cap connOpen :
          IsMember(c) /\ c \notin lost /\ joiner # c =>
            \A u \in Users \ {UserOf[c]} :
              ShownPeers(UserOf[c], peers[c], sendBuf[c])[u] = cache[GroupOf[c]][u]
    BY <1>1 DEF ViewsInv, ViewAt, Reached, PeersFollow, PeersShown, TypeOK
  <2>2. QED
    BY <2>1 DEF PeersAgree, ShownPeers
<1>2. QED
  BY <1>1, TypeCorrect, ViewsCorrect, PTL

\* And its trip is the hub's, though it is patched together from trip_create,
\* trip_join, trip_leave, trip_start and trip_end.
THEOREM TripsFollowHub == Spec => []TripViewsAgree
<1>1. ASSUME TypeOK, ViewsInv PROVE TripViewsAgree
  <2>1. \A c \in writing \cap connOpen :
          IsMember(c) /\ c \notin lost /\ joiner # c =>
            ShownTrip(tripView[c], sendBuf[c]) = trips[GroupOf[c]]
    BY <1>1 DEF ViewsInv, ViewAt, Reached, TripShown, TypeOK
  <2>2. QED
    BY <2>1 DEF TripViewsAgree, ShownTrip
<1>2. QED
  BY <1>1, TypeCorrect, ViewsCorrect, PTL

-----------------------------------------------------------------------------
(* Groups stay apart                                                       *)

\* An envelope about users of the group.
LocalEnvelope(g, m) ==
    IF m.type = "location" THEN m.user \in UsersOf(g) ELSE LocalTrip(g, m.trip)

\* What a browser shows is about users of its group if what the hub keeps of
\* the group, and what it has sent, is.
LocalGroup(g) == LocalPositions(g, cache[g]) /\ LocalTrip(g, trips[g])

LocalSend(c) == \A i \in DOMAIN sendBuf[c] : LocalEnvelope(GroupOf[c], sendBuf[c][i])

LocalReplay == joiner # None => todo \subseteq UsersOf(GroupOf[joiner])

ApartInv ==
    /\ GroupsStayApart
    /\ \A g \in Groups : LocalGroup(g)
    /\ \A c \in Clients : LocalSend(c)
    /\ LocalReplay

\* A client's user is one of its group.
LEMMA OwnUser ==
    ASSUME NEW c \in Clients
    PROVE  UserOf[c] \in UsersOf(GroupOf[c])
BY DEF UsersOf

\* The trips the handlers make of a local trip are local.
LEMMA TripsStayLocal ==
    ASSUME NEW g, NEW trip \in Trip, LocalTrip(g, trip), NEW u \in Users
    PROVE  /\ LocalTrip(g, Leave(trip, u))
           /\ u \in UsersOf(g) => LocalTrip(g, [trip EXCEPT !.riders[u] = @ + 1])
           /\ \A s : LocalTrip(g, [trip EXCEPT !.status = s])
<1>1. trip # None /\ trip.riders \in [Users -> Nat] /\ trip.creator \in UsersOf(g)
  BY HubAssumption DEF Trip, Riders, LocalTrip
<1>2. \A v \in Users : trip.riders[v] # 0 => v \in UsersOf(g)
  BY <1>1 DEF LocalTrip
<1>3. LocalTrip(g, Leave(trip, u))
  <2>1. Leave(trip, u).creator = trip.creator /\ Leave(trip, u).riders = [trip.riders EXCEPT ![u] = 0]
    BY DEF Leave, Trip
  <2> QED
    BY <1>1, <1>2, <2>1 DEF LocalTrip
<1>4. ASSUME u \in UsersOf(g) PROVE LocalTrip(g, [trip EXCEPT !.riders[u] = @ + 1])
  <2> DEFINE joined == [trip EXCEPT !.riders[u] = @ + 1]
  <2>1. joined.creator = trip.creator /\ joined.riders = [trip.riders EXCEPT ![u] = @ + 1]
    BY DEF Trip
  <2> HIDE DEF joined
  <2> QED
    BY <1>1, <1>2, <1>4, <2>1 DEF LocalTrip
<1>5. ASSUME NEW s PROVE LocalTrip(g, [trip EXCEPT !.status = s])
  BY <1>1, <1>2 DEF LocalTrip, Trip
<1> QED
  BY <1>3, <1>4, <1>5

\* A local envelope leaves what is shown local.
LEMMA ShownStaysLocal ==
    ASSUME NEW g, NEW m \in Envelope, LocalEnvelope(g, m)
    PROVE  /\ \A me \in Users, shown \in PeerViews :
                 LocalPositions(g, shown) => LocalPositions(g, ShowPeer(me, shown, m))
           /\ \A shown \in TripViews :
                 LocalTrip(g, shown) => LocalTrip(g, ShowTrip(shown, m))
<1>1. CASE m.type = "location"
  <2>1. m.user \in UsersOf(g) /\ \A shown : ShowTrip(shown, m) = shown
    BY <1>1 DEF LocalEnvelope, ShowTrip
  <2> QED
    BY <1>1, <2>1 DEF ShowPeer, LocalPositions, PeerViews
<1>2. CASE m.type # "location"
  <2>1. /\ m.trip \in Trip /\ LocalTrip(g, m.trip) /\ m.trip # None
        /\ m.type \in {"trip_create", "trip_join", "trip_leave", "trip_start", "trip_end"}
    BY <1>2, HubAssumption DEF Envelope, LocalEnvelope
  <2>2. ASSUME NEW shown \in Trip, LocalTrip(g, shown)
        PROVE  /\ LocalTrip(g, [shown EXCEPT !.status = "active"])
               /\ LocalTrip(g, [shown EXCEPT !.riders = m.trip.riders])
    <3>1. shown # None /\ shown.creator \in UsersOf(g)
      BY <2>2, HubAssumption DEF LocalTrip
    <3>2. \A u \in Users : m.trip.riders[u] # 0 => u \in UsersOf(g)
      BY <2>1 DEF LocalTrip
    <3> QED
      BY <2>2, <3>1, <3>2 DEF LocalTrip, Trip
  <2>3. LocalTrip(g, None)
    BY DEF LocalTrip
  <2>4. ASSUME NEW shown \in TripViews, LocalTrip(g, shown)
        PROVE  LocalTrip(g, ShowTrip(shown, m))
    BY <1>2, <2>1, <2>2, <2>3, <2>4 DEF ShowTrip, TripViews
  <2>5. \A me, shown : ShowPeer(me, shown, m) = shown
    BY <1>2 DEF ShowPeer
  <2> QED
    BY <2>4, <2>5
<1> QED
  BY <1>1, <1>2

\* One or two local envelopes leave what was sent local.
LEMMA SendsStayLocal ==
    ASSUME TypeOK, NEW c \in Clients, LocalSend(c), NEW to,
           \/ \E m : SendEach(to, m) /\ (c \in to => LocalEnvelope(GroupOf[c], m))
           \/ \E m1, m2 : /\ SendBoth(to, m1, m2)
                          /\ c \in to => LocalEnvelope(GroupOf[c], m1) /\ LocalEnvelope(GroupOf[c], m2)
    PROVE  LocalSend(c)'
<1>1. sendBuf[c] \in Seq(Envelope) /\ Len(sendBuf[c]) \in Nat
  BY DEF TypeOK, HubTypeOK
<1>2. \A i \in 1 .. Len(sendBuf[c]) : LocalEnvelope(GroupOf[c], sendBuf[c][i])
  BY <1>1 DEF LocalSend
<1>3. CASE sendBuf'[c] = sendBuf[c]
  BY <1>3 DEF LocalSend
<1>4. ASSUME NEW m, LocalEnvelope(GroupOf[c], m), sendBuf'[c] = Append(sendBuf[c], m)
      PROVE  LocalSend(c)'
  BY <1>1, <1>2, <1>4 DEF LocalSend
<1>5. ASSUME NEW m1, NEW m2, LocalEnvelope(GroupOf[c], m1), LocalEnvelope(GroupOf[c], m2),
             sendBuf'[c] = Append(Append(sendBuf[c], m1), m2)
      PROVE  LocalSend(c)'
  BY <1>1, <1>2, <1>5 DEF LocalSend
<1>6. \/ sendBuf'[c] = sendBuf[c]
      \/ \E m : LocalEnvelope(GroupOf[c], m) /\ sendBuf'[c] = Append(sendBuf[c], m)
      \/ \E m1, m2 : /\ LocalEnvelope(GroupOf[c], m1) /\ LocalEnvelope(GroupOf[c], m2)
                     /\ sendBuf'[c] = Append(Append(sendBuf[c], m1), m2)
  BY DEF SendEach, SendBoth
<1> QED
  BY <1>3, <1>4, <1>5, <1>6

\* What is sent to members of a group, and is about the group, stays there.
LEMMA GroupHears ==
    ASSUME TypeOK, MembershipInv, ApartInv, NEW g \in Groups, NEW to, to \subseteq groups[g],
           \/ \E m : SendEach(to, m) /\ LocalEnvelope(g, m)
           \/ \E m1, m2 : /\ SendBoth(to, m1, m2)
                          /\ LocalEnvelope(g, m1) /\ LocalEnvelope(g, m2)
    PROVE  \A c \in Clients : LocalSend(c)'
<1> TAKE c \in Clients
<1>1. c \in to => GroupOf[c] = g
  BY DEF MembershipInv, MembersBelong
<1>2. LocalSend(c)
  BY DEF ApartInv
<1>3. \/ \E m : SendEach(to, m) /\ (c \in to => LocalEnvelope(GroupOf[c], m))
      \/ \E m1, m2 : /\ SendBoth(to, m1, m2)
                     /\ c \in to => LocalEnvelope(GroupOf[c], m1) /\ LocalEnvelope(GroupOf[c], m2)
  BY <1>1
<1> QED
  BY <1>2, <1>3, SendsStayLocal

\* A handler that changes the cache, the trip and the sends of one group only.
LEMMA GroupChanges ==
    ASSUME TypeOK, ApartInv, NEW g \in Groups, LocalPositions(g, cache'[g]), LocalTrip(g, trips'[g]),
           \A h \in Groups \ {g} : cache'[h] = cache[h] /\ trips'[h] = trips[h],
           \A c \in Clients : LocalSend(c)',
           UNCHANGED <<peers, tripView, joiner, todo>>
    PROVE  ApartInv'
<1>1. ASSUME NEW h \in Groups PROVE LocalGroup(h)'
  <2>1. CASE h = g
    BY <2>1 DEF LocalGroup
  <2>2. CASE h # g
    BY <2>2 DEF ApartInv, LocalGroup
  <2> QED
    BY <2>1, <2>2
<1> QED
  BY <1>1 DEF ApartInv, GroupsStayApart, LocalReplay

\* A departure.
LEMMA DeparturesStayApart ==
    ASSUME TypeOK, MembershipInv, ApartInv, NEW c \in Clients, HubUnregisters(c) \/ HubDrops(c)
    PROVE  ApartInv'
<1> DEFINE g == GroupOf[c]
           u == UserOf[c]
           rest == Others(c)
           left == Leave(trips[g], u)
<1>1. PICK ok \in StoreOutcomes : HandleUnregister(c, ok)
  BY DEF HubUnregisters, HubDrops, HandleUnregister
<1>2. UNCHANGED viewVars
  BY DEF HubUnregisters, HubDrops
<1>3. CASE UnregisterStranger(c)
  BY <1>2, <1>3 DEF UnregisterStranger, hubVars, viewVars, ApartInv, GroupsStayApart, LocalGroup,
                    LocalSend, LocalReplay
<1>4. CASE UnregisterMember(c, ok)
  <2>1. g \in Groups /\ u \in Users /\ u \in UsersOf(g)
    BY NamesType, OwnUser
  <2>2. LocalPositions(g, cache[g]) /\ LocalTrip(g, trips[g])
    BY <2>1 DEF ApartInv, LocalGroup
  <2>3. TripOpen(g) => LocalTrip(g, left)
    BY <2>1, <2>2, TripOfGroup, TripsStayLocal DEF TripOpen
  <2>4. rest \subseteq groups[g]
    BY DEF Others
  <2>5. LocalEnvelope(g, Offline(u)) /\ (TripOpen(g) => LocalEnvelope(g, TripEnvelope("trip_leave", left)))
    BY <2>1, <2>3 DEF LocalEnvelope, Offline, LocationOf, TripEnvelope
  <2>6. \/ SendEach(rest, Offline(u))
        \/ TripOpen(g) /\ SendBoth(rest, TripEnvelope("trip_leave", left), Offline(u))
    BY <1>4 DEF UnregisterMember
  <2>7. \A d \in Clients : LocalSend(d)'
    <3> HIDE DEF g, u, rest, left
    <3> QED
      BY <2>1, <2>4, <2>5, <2>6, GroupHears
  <2>8. /\ trips'[g] \in {None, trips[g]} \/ (TripOpen(g) /\ trips'[g] = left)
        /\ cache'[g] \in {NoPositions, [cache[g] EXCEPT ![u] = None]}
        /\ \A h \in Groups \ {g} : cache'[h] = cache[h] /\ trips'[h] = trips[h]
        /\ UNCHANGED <<joiner, todo>>
    BY <1>4, <2>1 DEF UnregisterMember, TypeOK, HubTypeOK
  <2>9. LocalTrip(g, trips'[g])
    <3>1. LocalTrip(g, None)
      BY DEF LocalTrip
    <3> QED
      BY <2>2, <2>3, <2>8, <3>1
  <2>10. LocalPositions(g, cache'[g])
    <3>1. cache[g] \in [Users -> Positions \cup {None}]
      BY <2>1 DEF TypeOK, HubTypeOK
    <3>2. \A x \in Users : cache'[g][x] # None => cache[g][x] # None
      BY <2>8, <3>1 DEF NoPositions
    <3> QED
      BY <2>2, <3>2 DEF LocalPositions
  <2> HIDE DEF g
  <2>11. QED
    BY <1>2, <2>1, <2>7, <2>8, <2>9, <2>10, GroupChanges DEF viewVars
<1>5. QED
  BY <1>1, <1>3, <1>4 DEF HandleUnregister

\* A message.
LEMMA MessagesStayApart ==
    ASSUME TypeOK, MembershipInv, ApartInv, HubBroadcasts
    PROVE  ApartInv'
<1> DEFINE m == Head(broadcast)
           c == m.sender
           g == GroupOf[c]
           u == UserOf[c]
<1>1. PICK ok \in StoreOutcomes : HandleBroadcast(m, ok)
  BY DEF HubBroadcasts
<1>2. c \in Clients /\ g \in Groups /\ u \in Users /\ u \in UsersOf(g)
  <2>1. m \in Message
    BY HeadTailProperties DEF TypeOK, HubBroadcasts
  <2>2. QED
    BY <2>1, NamesType, OwnUser DEF Message
<1>3. UNCHANGED <<peers, tripView>>
  BY DEF HubBroadcasts, viewVars
<1>4. /\ LocalPositions(g, cache[g]) /\ LocalTrip(g, trips[g])
      /\ cache \in [Groups -> [Users -> Positions \cup {None}]]
      /\ trips \in [Groups -> Trip \cup {None}]
  BY <1>2 DEF ApartInv, LocalGroup, TypeOK, HubTypeOK
<1>5. ASSUME UNCHANGED <<cache, trips, sendBuf, joiner, todo>> PROVE ApartInv'
  BY <1>3, <1>5 DEF ApartInv, GroupsStayApart, LocalGroup, LocalSend, LocalReplay
<1>6. ASSUME NEW trip, LocalTrip(g, trip),
             NEW type \in {"trip_create", "trip_join", "trip_leave", "trip_start", "trip_end"},
             SendEach(groups[g], TripEnvelope(type, trip)),
             trips' = [trips EXCEPT ![g] = trip] \/ trips' = [trips EXCEPT ![g] = None],
             UNCHANGED <<cache, joiner, todo>>
      PROVE  ApartInv'
  <2>1. LocalEnvelope(g, TripEnvelope(type, trip))
    BY <1>6 DEF LocalEnvelope, TripEnvelope
  <2>2. \A d \in Clients : LocalSend(d)'
    <3> HIDE DEF g
    <3> QED
      BY <1>2, <1>6, <2>1, GroupHears
  <2>3. LocalTrip(g, trips'[g]) /\ \A h \in Groups \ {g} : trips'[h] = trips[h]
    BY <1>2, <1>4, <1>6 DEF LocalTrip
  <2> HIDE DEF g
  <2>4. QED
    BY <1>2, <1>3, <1>4, <1>6, <2>2, <2>3, GroupChanges
<1>7. CASE HandleLocation(c, m.pos)
  <2>1. CASE HasStore /\ persistClosed
    BY <1>5, <1>7, <2>1 DEF HandleLocation
  <2>2. CASE ~(HasStore /\ persistClosed)
    <3>1. /\ cache' = [cache EXCEPT ![g][u] = m.pos]
          /\ SendEach(Others(c), LocationOf(u, m.pos))
          /\ UNCHANGED <<trips, joiner, todo>>
      BY <1>7, <2>2 DEF HandleLocation
    <3>2. LocalEnvelope(g, LocationOf(u, m.pos)) /\ Others(c) \subseteq groups[g]
      BY <1>2 DEF LocalEnvelope, LocationOf, Others
    <3>3. \A d \in Clients : LocalSend(d)'
      <4> HIDE DEF c, g, u
      <4> QED
        BY <1>2, <3>1, <3>2, GroupHears
    <3>4. LocalPositions(g, cache'[g]) /\ \A h \in Groups \ {g} : cache'[h] = cache[h]
      BY <1>2, <1>4, <3>1 DEF LocalPositions
    <3> HIDE DEF c, g, u
    <3>5. QED
      BY <1>2, <1>3, <1>4, <3>1, <3>3, <3>4, GroupChanges
  <2>3. QED
    BY <2>1, <2>2
<1>8. ASSUME NEW id \in FreshTripId, HandleTripCreate(c, id, ok)
      PROVE  ApartInv'
  <2> DEFINE trip == [id |-> id, creator |-> u, status |-> "planning",
                      riders |-> [NoRiders EXCEPT ![u] = 1]]
  <2>1. LocalTrip(g, trip)
    BY <1>2 DEF LocalTrip, NoRiders
  <2>2. /\ trips' = [trips EXCEPT ![g] = trip]
        /\ SendEach(groups[g], TripEnvelope("trip_create", trip))
        /\ UNCHANGED <<cache, joiner, todo>>
    BY <1>8 DEF HandleTripCreate, TripBecomes, UnchangedByTrips
  <2> HIDE DEF trip, g
  <2>3. QED
    BY <1>6, <2>1, <2>2 DEF TripEnvelope
<1>9. CASE HandleTripJoin(c, ok)
  <2> DEFINE joined == [trips[g] EXCEPT !.riders[u] = @ + 1]
  <2>1. CASE TripOpen(g) /\ trips[g].riders[u] = 0
    <3>1. LocalTrip(g, joined)
      BY <1>2, <1>4, <2>1, TripsStayLocal, TripOfGroup DEF TripOpen
    <3>2. /\ trips' = [trips EXCEPT ![g] = joined]
          /\ SendEach(groups[g], TripEnvelope("trip_join", joined))
          /\ UNCHANGED <<cache, joiner, todo>>
      BY <1>9, <2>1 DEF HandleTripJoin, TripBecomes, UnchangedByTrips
    <3> HIDE DEF joined, g
    <3>3. QED
      BY <1>6, <3>1, <3>2 DEF TripEnvelope
  <2>2. CASE ~(TripOpen(g) /\ trips[g].riders[u] = 0)
    BY <1>5, <1>9, <2>2 DEF HandleTripJoin, hubVars
  <2>3. QED
    BY <2>1, <2>2
<1>10. CASE HandleTripLeave(c, ok)
  <2> DEFINE left == Leave(trips[g], u)
  <2>1. CASE TripOpen(g)
    <3>1. LocalTrip(g, left)
      BY <1>2, <1>4, <2>1, TripsStayLocal, TripOfGroup DEF TripOpen
    <3>2. /\ trips' = [trips EXCEPT ![g] = left]
          /\ SendEach(groups[g], TripEnvelope("trip_leave", left))
          /\ UNCHANGED <<cache, joiner, todo>>
      BY <1>10, <2>1 DEF HandleTripLeave, TripBecomes, UnchangedByTrips
    <3> HIDE DEF left, g
    <3>3. QED
      BY <1>6, <3>1, <3>2 DEF TripEnvelope
  <2>2. CASE ~TripOpen(g)
    BY <1>5, <1>10, <2>2 DEF HandleTripLeave, hubVars
  <2>3. QED
    BY <2>1, <2>2
<1>11. CASE HandleTripStart(c) \/ HandleTripEnd(c)
  <2> DEFINE with(s) == [trips[g] EXCEPT !.status = s]
  <2>1. CASE MayControlTrip(c)
    <3>1. LocalTrip(g, with("active")) /\ LocalTrip(g, with("completed"))
      BY <1>2, <1>4, <2>1, TripsStayLocal, TripOfGroup DEF MayControlTrip
    <3>2. \/ /\ trips' = [trips EXCEPT ![g] = with("active")]
             /\ SendEach(groups[g], TripEnvelope("trip_start", with("active")))
          \/ /\ trips' = [trips EXCEPT ![g] = None]
             /\ SendEach(groups[g], TripEnvelope("trip_end", with("completed")))
      BY <1>11, <2>1 DEF HandleTripStart, HandleTripEnd, TripBecomes
    <3>3. UNCHANGED <<cache, joiner, todo>>
      BY <1>11, <2>1 DEF HandleTripStart, HandleTripEnd, UnchangedByTrips
    <3> HIDE DEF with, g
    <3>4. QED
      BY <1>6, <3>1, <3>2, <3>3 DEF TripEnvelope
  <2>2. CASE ~MayControlTrip(c)
    BY <1>5, <1>11, <2>2 DEF HandleTripStart, HandleTripEnd, hubVars
  <2>3. QED
    BY <2>1, <2>2
<1>12. CASE UNCHANGED <<hubVars, storeVars>>
  BY <1>5, <1>12 DEF hubVars
<1>13. QED
  BY <1>1, <1>7, <1>8, <1>9, <1>10, <1>11, <1>12 DEF HandleBroadcast

\* A registration: the replay will be of the group's own.
LEMMA RegistrationsStayApart ==
    ASSUME TypeOK, MembershipInv, ApartInv, NEW c \in Clients, HubRegisters(c)
    PROVE  ApartInv'
<1> DEFINE g == GroupOf[c]
<1>1. UNCHANGED <<peers, tripView>> /\ (RejectJoiner(c) \/ AdmitJoiner(c))
  BY DEF HubRegisters, viewVars
<1>2. UNCHANGED <<trips, sendBuf>> /\ MakeGroup(g)
  BY <1>1 DEF RejectJoiner, AdmitJoiner
<1>3. g \in Groups /\ cache \in [Groups -> [Users -> Positions \cup {None}]]
  BY NamesType DEF TypeOK, HubTypeOK
<1>4. ASSUME NEW h \in Groups PROVE LocalGroup(h)'
  <2>1. cache'[h] = cache[h] \/ cache'[h] = NoPositions
    BY <1>2, <1>3 DEF MakeGroup
  <2>2. LocalPositions(h, NoPositions)
    BY DEF LocalPositions, NoPositions
  <2>3. QED
    BY <1>2, <2>1, <2>2 DEF ApartInv, LocalGroup
<1>5. LocalReplay'
  <2>1. CASE RejectJoiner(c)
    BY <2>1 DEF RejectJoiner, ApartInv, LocalReplay
  <2>2. CASE AdmitJoiner(c)
    <3>1. joiner' = c /\ todo' = {u \in Users : cache'[g][u] # None}
      BY <2>2 DEF AdmitJoiner
    <3>2. LocalPositions(g, cache'[g])
      BY <1>3, <1>4 DEF LocalGroup
    <3>3. QED
      BY <3>1, <3>2 DEF LocalReplay, LocalPositions
  <2>3. QED
    BY <1>1, <2>1, <2>2
<1>6. QED
  BY <1>1, <1>2, <1>4, <1>5 DEF ApartInv, GroupsStayApart, LocalSend

\* A step of the replay: the joiner is sent what is cached of its group.
LEMMA ReplayStaysApart ==
    ASSUME TypeOK, MembershipInv, ApartInv, HubReplays
    PROVE  ApartInv'
<1>1. UNCHANGED <<peers, tripView, cache, trips>>
  BY DEF HubReplays, ReplayLocation, ReplayOverflows, ReplayTrip, viewVars
<1>2. joiner \in Clients /\ GroupOf[joiner] \in Groups
  BY NamesType DEF HubReplays, ReplayLocation, ReplayOverflows, ReplayTrip, MembershipInv,
                   ReplayIsToMember
<1>3. ASSUME \A d \in Clients : LocalSend(d)', LocalReplay' PROVE ApartInv'
  BY <1>1, <1>3 DEF ApartInv, GroupsStayApart, LocalGroup
<1>4. ASSUME NEW u \in Users, ReplayLocation(u) PROVE ApartInv'
  <2> DEFINE e == LocationOf(u, cache[GroupOf[joiner]][u])
  <2>1. LocalEnvelope(GroupOf[joiner], e)
    BY <1>2, <1>4, HubAssumption
    DEF ReplayLocation, ApartInv, LocalReplay, LocalEnvelope, LocationOf
  <2>2. SendEach({joiner}, e)
    BY <1>2, <1>4 DEF ReplayLocation, SendEach, TypeOK, HubTypeOK
  <2>3. ASSUME NEW d \in Clients PROVE LocalSend(d)'
    <3>1. LocalSend(d) /\ (d \in {joiner} => LocalEnvelope(GroupOf[d], e))
      BY <2>1 DEF ApartInv
    <3> HIDE DEF e
    <3> QED
      BY <2>2, <3>1, SendsStayLocal
  <2>4. LocalReplay'
    BY <1>4 DEF ReplayLocation, ApartInv, LocalReplay
  <2>5. QED
    BY <1>3, <2>3, <2>4
<1>5. CASE ReplayOverflows
  BY <1>3, <1>5 DEF ReplayOverflows, ApartInv, LocalReplay, LocalSend
<1>6. CASE ReplayTrip
  <2> DEFINE trip == trips[GroupOf[joiner]]
             e == TripEnvelope("trip_create", trip)
  <2>1. joiner' = None
    BY <1>6 DEF ReplayTrip
  <2>2. LocalEnvelope(GroupOf[joiner], e)
    BY <1>2 DEF ApartInv, LocalGroup, LocalEnvelope, TripEnvelope
  <2>3. SendEach({joiner}, e) \/ UNCHANGED sendBuf
    BY <1>6 DEF ReplayTrip
  <2>4. ASSUME NEW d \in Clients PROVE LocalSend(d)'
    <3>1. LocalSend(d) /\ (d \in {joiner} => LocalEnvelope(GroupOf[d], e))
      BY <2>2 DEF ApartInv
    <3>2. CASE UNCHANGED sendBuf
      BY <3>1, <3>2 DEF LocalSend
    <3>3. CASE SendEach({joiner}, e)
      <4> HIDE DEF e
      <4> QED
        BY <3>1, <3>3, SendsStayLocal
    <3> QED
      BY <2>3, <3>2, <3>3
  <2>5. QED
    BY <1>3, <2>1, <2>4 DEF LocalReplay
<1>7. QED
  BY <1>4, <1>5, <1>6 DEF HubReplays

\* The steps of connections.
LEMMA PumpsStayApart ==
    ASSUME TypeOK, ApartInv, NEW c \in Clients,
           \/ Connect(c)
           \/ PeerCloses(c)
           \/ Recycle(c)
           \/ \E m \in Message : ReadForwards(c, m)
           \/ ReadFails(c)
           \/ WriteDelivers(c)
           \/ WriteFails(c)
           \/ PingFails(c)
           \/ WriteCloses(c)
    PROVE  ApartInv'
<1>1. UNCHANGED <<cache, trips, joiner, todo>>
  BY DEF Connect, PeerCloses, Recycle, ReadForwards, ReadFails, WriteDelivers, WriteFails,
         PingFails, WriteCloses, WritePumpReturns, hubVars
<1>2. /\ sendBuf \in [Clients -> Seq(Envelope)] /\ tripView \in [Clients -> TripViews]
      /\ peers \in [Clients -> PeerViews]
  BY DEF TypeOK, HubTypeOK, TripViews, PeerViews
<1>3. ASSUME \A d \in Clients : /\ LocalSend(d)' /\ LocalPositions(GroupOf[d], peers'[d])
                                /\ LocalTrip(GroupOf[d], tripView'[d])
      PROVE  ApartInv'
  BY <1>1, <1>3 DEF ApartInv, GroupsStayApart, LocalGroup, LocalReplay
<1>4. \A d \in Clients : /\ LocalSend(d) /\ LocalPositions(GroupOf[d], peers[d])
                         /\ LocalTrip(GroupOf[d], tripView[d])
  BY DEF ApartInv, GroupsStayApart
<1>5. CASE UNCHANGED <<sendBuf, peers, tripView>>
  BY <1>3, <1>4, <1>5 DEF LocalSend
<1>6. ASSUME sendBuf[c] # <<>>, sendBuf' = [sendBuf EXCEPT ![c] = Tail(@)]
      PROVE  \A d \in Clients : LocalSend(d)'
  <2>1. /\ Tail(sendBuf[c]) \in Seq(Envelope)
        /\ \A i \in DOMAIN Tail(sendBuf[c]) :
              i + 1 \in DOMAIN sendBuf[c] /\ Tail(sendBuf[c])[i] = sendBuf[c][i + 1]
    BY <1>2, <1>6
  <2> QED
    BY <1>2, <1>4, <1>6, <2>1 DEF LocalSend
<1>7. CASE WriteFails(c)
  BY <1>3, <1>4, <1>6, <1>7 DEF WriteFails, WritePumpReturns, viewVars
<1>8. CASE WriteDelivers(c)
  <2> DEFINE m == Head(sendBuf[c])
  <2>1. /\ sendBuf[c] # <<>> /\ sendBuf' = [sendBuf EXCEPT ![c] = Tail(@)]
        /\ peers' = [peers EXCEPT ![c] = ShowPeer(UserOf[c], @, m)]
        /\ tripView' = [tripView EXCEPT ![c] = ShowTrip(@, m)]
    BY <1>8 DEF WriteDelivers
  <2>2. m \in Envelope /\ LocalEnvelope(GroupOf[c], m)
    <3>1. sendBuf[c] \in Seq(Envelope)
      BY <1>2
    <3>2. 1 \in DOMAIN sendBuf[c] /\ m = sendBuf[c][1] /\ m \in Envelope
      BY <2>1, <3>1
    <3> QED
      BY <1>4, <3>2 DEF LocalSend
  <2> HIDE DEF m
  <2>3. /\ LocalPositions(GroupOf[c], ShowPeer(UserOf[c], peers[c], m))
        /\ LocalTrip(GroupOf[c], ShowTrip(tripView[c], m))
    BY <1>2, <1>4, <2>2, NamesType, ShownStaysLocal
  <2>4. QED
    BY <1>2, <1>3, <1>4, <1>6, <2>1, <2>3
<1>9. CASE Recycle(c)
  <2>1. /\ sendBuf' = [sendBuf EXCEPT ![c] = <<>>]
        /\ peers' = [peers EXCEPT ![c] = NoPositions]
        /\ tripView' = [tripView EXCEPT ![c] = None]
    BY <1>9 DEF Recycle
  <2>2. LocalPositions(GroupOf[c], NoPositions) /\ LocalTrip(GroupOf[c], None)
    BY DEF LocalPositions, NoPositions, LocalTrip
  <2>3. QED
    BY <1>2, <1>3, <1>4, <2>1, <2>2 DEF LocalSend
<1>10. CASE ~(WriteFails(c) \/ WriteDelivers(c) \/ Recycle(c))
  BY <1>5, <1>10 DEF Connect, PeerCloses, ReadForwards, ReadFails, PingFails, WriteCloses,
                     WritePumpReturns, hubVars, viewVars
<1>11. QED
  BY <1>7, <1>8, <1>9, <1>10

\* ApartInv is inductive, given the types and membership.
LEMMA ApartInductive ==
    ASSUME TypeOK, MembershipInv, ApartInv, [Next]_vars
    PROVE  ApartInv'
<1>1. CASE \/ UNCHANGED vars
           \/ HubQuits
           \/ HubReturns
           \/ StopBegins
           \/ StopClosesPersist
           \/ StopReturns
           \/ \E w \in Workers : Persists(w)
           \/ Prunes
  <2>1. UNCHANGED <<cache, trips, sendBuf, peers, tripView, joiner, todo>>
    BY <1>1 DEF HubQuits, HubReturns, StopBegins, StopClosesPersist, StopReturns, Persists, Prunes,
                vars, hubVars, viewVars
  <2>2. QED
    BY <2>1 DEF ApartInv, GroupsStayApart, LocalGroup, LocalSend, LocalReplay
<1>2. CASE ProcessExits
  BY <1>2 DEF ProcessExits, viewVars, ApartInv, GroupsStayApart, LocalGroup, LocalSend, LocalReplay
<1>3. QED
  BY <1>1, <1>2, RegistrationsStayApart, ReplayStaysApart, DeparturesStayApart, MessagesStayApart,
     PumpsStayApart
  DEF Next, ClientNext

\* Rooms are private: whatever is dropped, replayed, overtaken or recycled, a
\* browser shows positions, creator and riders of users of its own group only.
\* The handlers find whom to tell by the group of the sender (hub.go 206-262,
\* 296-331, 352-500).
THEOREM GroupsApart == Spec => []GroupsStayApart
<1>1. Init => ApartInv
  <2>1. \A g : LocalPositions(g, NoPositions) /\ LocalTrip(g, None)
    BY DEF LocalPositions, NoPositions, LocalTrip
  <2> QED
    BY <2>1 DEF Init, HubInit, ApartInv, GroupsStayApart, LocalGroup, LocalSend, LocalReplay
<1>2. ApartInv => GroupsStayApart
  BY DEF ApartInv
<1>3. QED
  BY <1>1, <1>2, ApartInductive, TypeCorrect, MembershipCorrect, PTL DEF Spec

\* Two browsers of a group that have read what they were sent, and were
\* dropped nothing, show the same positions of everybody else, and the same
\* trip - however their joins, replays and the messages of others met.
MembersSeeAlike ==
    \A c, d \in writing \cap connOpen :
        /\ IsMember(c) /\ IsMember(d) /\ GroupOf[c] = GroupOf[d]
        /\ sendBuf[c] = <<>> /\ sendBuf[d] = <<>>
        /\ {c, d} \cap lost = {} /\ joiner \notin {c, d}
        => /\ tripView[c] = tripView[d]
           /\ \A u \in Users \ {UserOf[c], UserOf[d]} : peers[c][u] = peers[d][u]

\* That follows from PeersFollowCache and TripsFollowHub (App.tsx onmessage
\* against hub.go's sends).
THEOREM MembersAgree == Spec => []MembersSeeAlike
<1>1. ASSUME TypeOK, PeersAgree, TripViewsAgree PROVE MembersSeeAlike
  <2>1. ASSUME NEW c \in writing \cap connOpen, IsMember(c), sendBuf[c] = <<>>, c \notin lost,
               joiner # c
        PROVE  /\ tripView[c] = trips[GroupOf[c]]
               /\ \A u \in Users \ {UserOf[c]} : peers[c][u] = cache[GroupOf[c]][u]
    <3>1. /\ c \in Clients /\ UserOf[c] \in Users /\ tripView[c] \in TripViews
          /\ peers[c] \in PeerViews /\ <<>> \in Seq(Envelope)
      BY <1>1, NamesType DEF TypeOK, HubTypeOK, TripViews, PeerViews
    <3>2. ShownTrip(tripView[c], <<>>) = tripView[c]
      BY <3>1, TripFolds
    <3>3. ShownPeers(UserOf[c], peers[c], <<>>) = peers[c]
      BY <3>1, PeerFolds
    <3>4. ShownTrip(tripView[c], sendBuf[c]) = trips[GroupOf[c]]
      BY <1>1, <2>1 DEF TripViewsAgree, ShownTrip
    <3>5. \A u \in Users \ {UserOf[c]} :
             ShownPeers(UserOf[c], peers[c], sendBuf[c])[u] = cache[GroupOf[c]][u]
      BY <1>1, <2>1 DEF PeersAgree, ShownPeers
    <3> QED
      BY <2>1, <3>2, <3>3, <3>4, <3>5
  <2> QED
    BY <2>1 DEF MembersSeeAlike
<1>2. QED
  BY <1>1, TypeCorrect, PeersFollowCache, TripsFollowHub, PTL

=============================================================================
