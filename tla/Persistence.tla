---------------------------- MODULE Persistence ----------------------------
(***************************************************************************)
(* The persistence side of the hub: the bounded channel persistCh, the     *)
(* worker goroutines NewHub starts on it (websocket/hub.go) and the three  *)
(* Postgres tables they and the trip handlers write                        *)
(* (storage/postgres.go, backend/migrations).                              *)
(*                                                                         *)
(* The hub may be built without a store (hub.go tests h.Store != nil       *)
(* everywhere); HasStore is that test, and when it is FALSE none of the    *)
(* variables below ever changes.                                           *)
(***************************************************************************)
EXTENDS Naturals, Sequences, FiniteSets

CONSTANTS
    Users,          \* user identities (JWT user_id)
    Positions,      \* what a valid location carries: lat, lng and name
    TripIds,        \* identities generateID hands out
    Workers,        \* the persistence goroutines (numWorkers)
    PersistCap,     \* capacity of persistCh
    HasStore,       \* h.Store != nil
    StoreOutcomes,  \* results a store call may have: TRUE nil, FALSE an error
    None            \* no position, no trip, no row

Riders == [Users -> Nat]    \* Participants: how often each user is listed

ASSUME PersistenceAssumption ==
    /\ None \notin Positions
    /\ None \notin Riders
    /\ PersistCap \in Nat \ {0}
    /\ HasStore \in BOOLEAN
    /\ HasStore => Workers # {}
    /\ StoreOutcomes \subseteq BOOLEAN

VARIABLES
    persistCh,      \* the locations waiting for a worker, oldest first
    persistClosed,  \* TRUE once Stop has closed persistCh
    worker,         \* what each worker goroutine is doing
    userRows,       \* table users: the name stored for a user, or None
    locationRows,   \* table locations
    tripRows,       \* table trips: the participants column, or None
    missedUpdates   \* trips whose last participants UPDATE returned an error

storeVars == <<persistCh, persistClosed, worker, userRows, locationRows,
               tripRows, missedUpdates>>

Location == [user : Users, pos : Positions]

Idle == [stage |-> "idle", loc |-> None]

WorkerState ==
    {Idle, [stage |-> "exited", loc |-> None]}
        \cup [stage : {"upsert", "insert"}, loc : Location]

PersistenceTypeOK ==
    /\ persistCh \in Seq(Location)
    /\ Len(persistCh) <= PersistCap
    /\ persistClosed \in BOOLEAN
    /\ worker \in [Workers -> WorkerState]
    /\ userRows \in [Users -> Positions \cup {None}]
    /\ locationRows \subseteq Location
    /\ tripRows \in [TripIds -> Riders \cup {None}]
    /\ missedUpdates \subseteq TripIds

PersistenceInit ==
    /\ persistCh = <<>>
    /\ persistClosed = FALSE
    /\ worker = [w \in Workers |-> Idle]
    /\ userRows = [u \in Users |-> None]
    /\ locationRows = {}
    /\ tripRows = [id \in TripIds |-> None]
    /\ missedUpdates = {}

-----------------------------------------------------------------------------
(* What the hub does to the store from inside its handlers.                *)

\* The non-blocking send on persistCh: a full buffer drops the location.
EnqueueLocation(loc) ==
    /\ persistCh' = IF HasStore /\ Len(persistCh) < PersistCap
                    THEN Append(persistCh, loc)
                    ELSE persistCh
    /\ UNCHANGED <<persistClosed, worker, userRows, locationRows, tripRows,
                   missedUpdates>>

\* CreateTrip. The insert also fails when creator_id has no row in users,
\* which the foreign key of migration 0002 demands.
InsertTripRow(id, creator, riders, ok) ==
    /\ tripRows' = IF HasStore /\ ok /\ userRows[creator] # None
                   THEN [tripRows EXCEPT ![id] = riders]
                   ELSE tripRows
    /\ UNCHANGED <<persistCh, persistClosed, worker, userRows, locationRows,
                   missedUpdates>>

\* UpdateTripParticipants. An UPDATE of a row that is not there changes
\* nothing and is no error.
UpdateTripRow(id, riders, ok) ==
    /\ tripRows' = IF HasStore /\ ok /\ tripRows[id] # None
                   THEN [tripRows EXCEPT ![id] = riders]
                   ELSE tripRows
    /\ missedUpdates' = IF HasStore /\ ~ok
                        THEN missedUpdates \cup {id}
                        ELSE missedUpdates \ {id}
    /\ UNCHANGED <<persistCh, persistClosed, worker, userRows, locationRows>>

ClosePersistChForgotten == UNCHANGED storeVars   \* (mutant of ClosePersistCh)

\* close(h.persistCh) in Stop.
ClosePersistCh ==
    /\ persistClosed' = TRUE
    /\ UNCHANGED <<persistCh, worker, userRows, locationRows, tripRows,
                   missedUpdates>>

-----------------------------------------------------------------------------
(* The worker goroutines: for loc := range h.persistCh { persistLocation } *)

\* (mutant of WorkerReceives: persistLocation inserts without the upsert)
WorkerReceivesNoUpsert(w) ==
    /\ worker[w] = Idle
    /\ persistCh # <<>>
    /\ worker' = [worker EXCEPT ![w] = [stage |-> "insert",
                                        loc |-> Head(persistCh)]]
    /\ persistCh' = Tail(persistCh)
    /\ UNCHANGED <<persistClosed, userRows, locationRows, tripRows,
                   missedUpdates>>

WorkerReceives(w) ==
    /\ worker[w] = Idle
    /\ persistCh # <<>>
    /\ worker' = [worker EXCEPT ![w] = [stage |-> "upsert",
                                        loc |-> Head(persistCh)]]
    /\ persistCh' = Tail(persistCh)
    /\ UNCHANGED <<persistClosed, userRows, locationRows, tripRows,
                   missedUpdates>>

\* The first statement of persistLocation; an error, a timeout included,
\* abandons the location.
WorkerUpsertsUser(w, ok) ==
    /\ worker[w].stage = "upsert"
    /\ LET loc == worker[w].loc IN
       IF ok
       THEN /\ userRows' = [userRows EXCEPT ![loc.user] = loc.pos]
            /\ worker' = [worker EXCEPT ![w] = [stage |-> "insert",
                                                loc |-> loc]]
       ELSE /\ worker' = [worker EXCEPT ![w] = Idle]
            /\ UNCHANGED userRows
    /\ UNCHANGED <<persistCh, persistClosed, locationRows, tripRows,
                   missedUpdates>>

\* The second statement; user_id REFERENCES users(id).
WorkerInsertsLocation(w, ok) ==
    /\ worker[w].stage = "insert"
    /\ LET loc == worker[w].loc IN
       locationRows' = IF ok /\ userRows[loc.user] # None
                       THEN locationRows \cup {loc}
                       ELSE locationRows
    /\ worker' = [worker EXCEPT ![w] = Idle]
    /\ UNCHANGED <<persistCh, persistClosed, userRows, tripRows,
                   missedUpdates>>

\* range ends when the channel is closed and empty; then wg.Done.
WorkerExits(w) ==
    /\ worker[w] = Idle
    /\ persistClosed
    /\ persistCh = <<>>
    /\ worker' = [worker EXCEPT ![w].stage = "exited"]
    /\ UNCHANGED <<persistCh, persistClosed, userRows, locationRows, tripRows,
                   missedUpdates>>

WorkerStep(w) ==
    /\ HasStore
    /\ \/ WorkerReceives(w)
       \/ \E ok \in StoreOutcomes : WorkerUpsertsUser(w, ok)
       \/ \E ok \in StoreOutcomes : WorkerInsertsLocation(w, ok)
       \/ WorkerExits(w)

\* The pruner's DELETE: whatever is older than the retention period goes.
PruneLocations(old) ==
    /\ HasStore
    /\ old # {}
    /\ old \subseteq locationRows
    /\ locationRows' = locationRows \ old
    /\ UNCHANGED <<persistCh, persistClosed, worker, userRows, tripRows,
                   missedUpdates>>

\* persistDone is closed once every worker has returned.
PersistDone == \A w \in Workers : worker[w].stage = "exited"
=============================================================================
