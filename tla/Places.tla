-------------------------------- MODULE Places --------------------------------
(***************************************************************************)
(* The REST requests that look something up: /api/search                   *)
(* (services/geocoding: cache, waiting for a turn, Nominatim) and          *)
(* /api/route (services/routing: cache, OSRM), behind the rate limiter.    *)
(* Nominatim and OSRM answer or fail, whenever they like.                  *)
(***************************************************************************)
EXTENDS IPRateLimiter, TTLCache

CONSTANTS
    Spacing,        \* the second between two requests to Nominatim, in ticks
    MaxNow          \* when the clock stops (a bound)

ASSUME PlacesAssumption ==
    /\ Spacing \in Nat \ {0}
    /\ MaxNow \in Nat

VARIABLES
    lastReq,        \* g.lastReq; long ago to begin with
    wakeAt,         \* when the timer of a waiting search fires
    asked,          \* the service and key a request is about
    lastSent        \* history: when a slot last sent a search to Nominatim

lookupVars == <<lastReq, wakeAt, asked, lastSent>>
vars == <<now, stage, limiterVars, entries, lookupVars>>

Questions == UNION {{s} \X KeysOf[s] : s \in Services}

TypeOK ==
    /\ RequestsTypeOK
    /\ LimiterTypeOK
    /\ CacheTypeOK
    /\ lastReq \in -Spacing .. now
    /\ wakeAt \in [Requests -> Nat]
    /\ asked \in [Requests -> Questions \cup {<<>>}]
    /\ lastSent \in [Requests -> Int]
    /\ \A r \in Requests :
        /\ stage[r] \in {"turn", "waiting", "asking"} => asked[r] # <<>>
        /\ stage[r] \in {"found", "missing", "holding"} => addrOf[r] # None
        /\ stage[r] \in {"found", "holding"} => entryOf[r] # None

Init ==
    /\ RequestsInit
    /\ LimiterInit
    /\ CacheInit
    /\ lastReq = -Spacing
    /\ wakeAt = [r \in Requests |-> 0]
    /\ asked = [r \in Requests |-> <<>>]
    /\ lastSent = [r \in Requests |-> -Spacing]

-----------------------------------------------------------------------------
\* Request r is answered, or given up.
Ends(r, from) ==
    /\ Goes(r, from, "idle")
    /\ asked' = [asked EXCEPT ![r] = <<>>]
    /\ wakeAt' = [wakeAt EXCEPT ![r] = 0]

\* No token, no query, bad coordinates, or another endpoint: nothing is
\* looked up.
Refuse(r) ==
    /\ Goes(r, "allowed", "idle")
    /\ UNCHANGED <<limiterVars, entries, lookupVars>>

\* The cache has the answer.
FindCached(r) ==
    /\ Goes(r, "allowed", "idle")
    /\ \E q \in Questions : Hit(q[1], q[2])
    /\ UNCHANGED <<limiterVars, entries, lookupVars>>

\* It has not: a route is asked for at once, a search waits for its turn.
Miss(r, q) ==
    /\ Goes(r, "allowed", IF q[1] = "search" THEN "turn" ELSE "asking")
    /\ ~Hit(q[1], q[2])
    /\ asked' = [asked EXCEPT ![r] = q]
    /\ UNCHANGED <<limiterVars, entries, lastReq, wakeAt, lastSent>>

\* (mutant of Sends: the end of the wait is not recorded)
SendsUnrecorded(r) ==
    /\ lastReq' = IF stage[r] = "waiting" THEN lastReq ELSE now
    /\ lastSent' = [lastSent EXCEPT ![r] = now]

\* The end of waitForTurn; the request goes out.
Sends(r) ==
    /\ lastReq' = now
    /\ lastSent' = [lastSent EXCEPT ![r] = now]

\* waitForTurn, the last request being long enough ago ...
GoAhead(r) ==
    /\ Goes(r, "turn", "asking")
    /\ now - lastReq >= Spacing
    /\ Sends(r)
    /\ UNCHANGED <<limiterVars, entries, wakeAt, asked>>

\* ... or not: a timer is set for the rest, and the lock let go.
BeginWait(r) ==
    /\ Goes(r, "turn", "waiting")
    /\ now - lastReq < Spacing
    /\ wakeAt' = [wakeAt EXCEPT ![r] = lastReq + Spacing]
    /\ UNCHANGED <<limiterVars, entries, lastReq, asked, lastSent>>

\* The timer has fired. Nobody looks at lastReq again.
EndWait(r) ==
    /\ Goes(r, "waiting", "asking")
    /\ now >= wakeAt[r]
    /\ Sends(r)
    /\ UNCHANGED <<limiterVars, entries, wakeAt, asked>>

\* The browser has gone while the search was waiting.
Cancel(r) ==
    /\ Ends(r, "waiting")
    /\ UNCHANGED <<limiterVars, entries, lastReq, lastSent>>

\* An answer that decodes is cached.
Answer(r) ==
    /\ Ends(r, "asking")
    /\ Set(asked[r][1], asked[r][2])
    /\ UNCHANGED <<limiterVars, lastReq, lastSent>>

\* An error, a timeout, a bad status or a body that does not decode.
Fail(r) ==
    /\ Ends(r, "asking")
    /\ UNCHANGED <<limiterVars, entries, lastReq, lastSent>>

LookupNext(r) ==
    \/ Refuse(r)
    \/ FindCached(r)
    \/ \E q \in Questions : Miss(r, q)
    \/ GoAhead(r)
    \/ BeginWait(r)
    \/ EndWait(r)
    \/ Cancel(r)
    \/ Answer(r)
    \/ Fail(r)

Tick ==
    /\ now < MaxNow
    /\ now' = now + 1
    /\ BucketsGain
    /\ UNCHANGED <<stage, entries, lookupVars>>

RequestNext(r) ==
    \/ LimiterNext(r) /\ UNCHANGED <<entries, lookupVars>>
    \/ LookupNext(r)

Next ==
    \/ \E r \in Requests : RequestNext(r)
    \/ Sweep /\ UNCHANGED <<entries, lookupVars>>
    \/ Tick

Spec == Init /\ [][Next]_vars

-----------------------------------------------------------------------------
IsSent(r) == stage[r] \in {"turn", "waiting"} /\ stage'[r] = "asking"

\* A browser that waits for its answers never causes two searches within a
\* second: a search that comes after another has been sent is held back.
OwnSearchesAreSpaced ==
    [][\A r \in Requests : IsSent(r) => now - lastSent[r] >= Spacing]_vars

\* "waitForTurn enforces Nominatim's 1 req/s usage policy": whoever sends a
\* search, every search sent before it is at least a second old.
AllSearchesAreSpaced ==
    [][\A r \in Requests : IsSent(r) =>
          \A q \in Requests : now - lastSent[q] >= Spacing]_vars
=============================================================================
