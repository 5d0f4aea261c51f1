---------------------------- MODULE IPRateLimiter ----------------------------
(***************************************************************************)
(* middleware/rate.go: a token bucket per address, looked up under a read  *)
(* lock, created under the write lock and swept when it has not been used  *)
(* for MaxAge. A bucket is golang.org/x/time/rate's: it starts with Burst  *)
(* tokens and gains one per tick, which is how long a tick lasts.          *)
(***************************************************************************)
EXTENDS HttpRequests

CONSTANTS
    Addresses,      \* what clientIP returns
    Entries,        \* identities of *limiterEntry values
    Burst,          \* i.b
    MaxAge          \* sweep's maxAge

\* Refilling a bucket takes less than what the sweep calls old: 2 and 5
\* seconds against 30 minutes.
ASSUME LimiterAssumption ==
    /\ Burst \in Nat \ {0}
    /\ MaxAge \in Nat
    /\ Burst <= MaxAge
    /\ None \notin Entries \cup Addresses

VARIABLES
    ips,            \* i.ips: the entry of an address, or None
    lastSeen,       \* entry.lastSeen
    tokens,         \* what the bucket of an entry holds
    addrOf,         \* the address a request comes from
    entryOf,        \* the entry a request has looked up, or None
    gotAt,          \* history: when a request was given its entry
    budget,         \* history: what one bucket that is never swept would hold,
                    \* had it paid for every token the address took
    late            \* history: tokens taken too late since budget was last full

histories == <<gotAt, budget, late>>
limiterVars == <<ips, lastSeen, tokens, addrOf, entryOf, histories>>

LimiterTypeOK ==
    /\ ips \in [Addresses -> Entries \cup {None}]
    /\ lastSeen \in [Entries -> Nat]
    /\ tokens \in [Entries -> 0 .. Burst]
    /\ addrOf \in [Requests -> Addresses \cup {None}]
    /\ entryOf \in [Requests -> Entries \cup {None}]
    /\ gotAt \in [Requests -> 0 .. now]
    /\ budget \in [Addresses -> Int]
    /\ late \in [Addresses -> Nat]
    /\ \A a \in Addresses : budget[a] <= Burst

LimiterInit ==
    /\ ips = [a \in Addresses |-> None]
    /\ lastSeen = [e \in Entries |-> 0]
    /\ tokens = [e \in Entries |-> Burst]
    /\ addrOf = [r \in Requests |-> None]
    /\ entryOf = [r \in Requests |-> None]
    /\ gotAt = [r \in Requests |-> 0]
    /\ budget = [a \in Addresses |-> Burst]
    /\ late = [a \in Addresses |-> 0]

\* (mutant of LookUp: the entry found stays in a variable of an inner scope)
LookUpShadowed(r, a) ==
    /\ Goes(r, "idle", IF ips[a] = None THEN "missing" ELSE "found")
    /\ addrOf' = [addrOf EXCEPT ![r] = a]
    /\ UNCHANGED <<ips, lastSeen, tokens, entryOf, histories>>

\* The entry is looked up under the read lock.
LookUp(r, a) ==
    /\ Goes(r, "idle", IF ips[a] = None THEN "missing" ELSE "found")
    /\ addrOf' = [addrOf EXCEPT ![r] = a]
    /\ entryOf' = [entryOf EXCEPT ![r] = ips[a]]
    /\ UNCHANGED <<ips, lastSeen, tokens, histories>>

\* GetLimiter returns entry e to request r.
Gets(r, e) ==
    /\ entryOf' = [entryOf EXCEPT ![r] = e]
    /\ gotAt' = [gotAt EXCEPT ![r] = now]
    /\ UNCHANGED <<addrOf, budget, late>>

\* (mutant of Touch: the time of the last use is not renewed)
TouchForgotten(r) ==
    /\ Goes(r, "found", "holding")
    /\ Gets(r, entryOf[r])
    /\ UNCHANGED <<ips, lastSeen, tokens>>

\* An entry that was found is used, even if it has been swept meanwhile.
Touch(r) ==
    /\ Goes(r, "found", "holding")
    /\ lastSeen' = [lastSeen EXCEPT ![entryOf[r]] = now]
    /\ Gets(r, entryOf[r])
    /\ UNCHANGED <<ips, tokens>>

\* The double check: somebody else has made the entry since.
UseExisting(r) ==
    LET e == ips[addrOf[r]] IN
    /\ Goes(r, "missing", "holding")
    /\ e # None
    /\ lastSeen' = [lastSeen EXCEPT ![e] = now]
    /\ Gets(r, e)
    /\ UNCHANGED <<ips, tokens>>

\* Entries that neither the map nor a request refers to.
Unreferenced(e) ==
    /\ \A a \in Addresses : ips[a] # e
    /\ \A r \in Requests : entryOf[r] # e

MakeEntry(r, e) ==
    /\ Goes(r, "missing", "holding")
    /\ Unreferenced(e)
    /\ ips' = [ips EXCEPT ![addrOf[r]] = e]
    /\ lastSeen' = [lastSeen EXCEPT ![e] = now]
    /\ tokens' = [tokens EXCEPT ![e] = Burst]
    /\ Gets(r, e)

\* (mutant of Create: there is no double check)
CreateUnchecked(r) == \E e \in Entries : MakeEntry(r, e)

Create(r) ==
    /\ stage[r] = "missing"
    /\ ips[addrOf[r]] = None
    /\ \E e \in Entries : MakeEntry(r, e)

\* Request r has been too long on its way from GetLimiter to Allow: a sweep
\* has taken its entry, or can before a token taken now is back.
IsLate(r) ==
    \/ ips[addrOf[r]] # entryOf[r]
    \/ now - gotAt[r] > MaxAge - Burst

\* Allow has answered; the request lets go of its entry.
LetsGo(r, to) ==
    /\ Goes(r, "holding", to)
    /\ entryOf' = [entryOf EXCEPT ![r] = None]
    /\ gotAt' = [gotAt EXCEPT ![r] = 0]
    /\ UNCHANGED <<ips, lastSeen, addrOf>>

\* Allow: a token is taken from the bucket in hand, swept or not.
Admit(r) ==
    LET e == entryOf[r]
        a == addrOf[r]
    IN
    /\ LetsGo(r, "allowed")
    /\ tokens[e] > 0
    /\ tokens' = [tokens EXCEPT ![e] = @ - 1]
    /\ budget' = [budget EXCEPT ![a] = @ - 1]
    /\ late' = IF IsLate(r) THEN [late EXCEPT ![a] = @ + 1] ELSE late

\* 429 Too Many Requests
Throttle(r) ==
    /\ LetsGo(r, "idle")
    /\ tokens[entryOf[r]] = 0
    /\ UNCHANGED <<tokens, budget, late>>

Old(a) == ips[a] # None /\ lastSeen[ips[a]] < now - MaxAge

\* The ticker's sweep, under the write lock.
Sweep ==
    /\ \E a \in Addresses : Old(a)
    /\ ips' = [a \in Addresses |-> IF Old(a) THEN None ELSE ips[a]]
    /\ UNCHANGED <<now, stage, lastSeen, tokens, addrOf, entryOf, histories>>

LimiterNext(r) ==
    \/ \E a \in Addresses : LookUp(r, a)
    \/ Touch(r)
    \/ UseExisting(r)
    \/ Create(r)
    \/ Admit(r)
    \/ Throttle(r)

Refilled(n) == IF n < Burst THEN n + 1 ELSE Burst

\* A tick: every bucket gains a token, and so does every budget; one that is
\* full has nothing to make up for.
BucketsGain ==
    /\ tokens' = [e \in Entries |-> Refilled(tokens[e])]
    /\ budget' = [a \in Addresses |-> Refilled(budget[a])]
    /\ late' = [a \in Addresses |-> IF Refilled(budget[a]) = Burst THEN 0 ELSE late[a]]
    /\ UNCHANGED <<ips, lastSeen, addrOf, entryOf, gotAt>>

-----------------------------------------------------------------------------
\* Whatever is made, used, swept and made again, an address takes no more
\* tokens than one bucket that is never swept would give it, and one more for
\* each of its requests that came late to Allow since that bucket was full.
ThrottleSurvives == \A a \in Addresses : budget[a] + late[a] >= 0

\* Two requests that both miss an entry do not both make one: an entry of the
\* map goes only by a sweep.
EntriesAreShared ==
    [][\A a \in Addresses :
          ips[a] # None => ips'[a] \in {ips[a], None}]_ips
=============================================================================
