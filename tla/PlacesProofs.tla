---------------------------- MODULE PlacesProofs ----------------------------
(***************************************************************************)
(* Theorems about the REST side, for any number of requests, addresses and *)
(* keys: types; what sweeps and racing creations can cost the throttle; a  *)
(* cache that is never asked for "" keeps its cap; one browser's searches  *)
(* are spaced.                                                             *)
(***************************************************************************)
EXTENDS Places, FiniteSetTheorems, TLAPS

-----------------------------------------------------------------------------
(* Types                                                                   *)

\* The type of what lookups keep.
LookupTypeOK ==
    /\ lastReq \in -Spacing .. now
    /\ wakeAt \in [Requests -> Nat]
    /\ asked \in [Requests -> Questions \cup {<<>>}]
    /\ lastSent \in [Requests -> Int]

\* What a request carries at a stage.
CarriesOK ==
    \A r \in Requests :
        /\ stage[r] \in {"turn", "waiting", "asking"} => asked[r] # <<>>
        /\ stage[r] \in {"found", "missing", "holding"} => addrOf[r] # None
        /\ stage[r] \in {"found", "holding"} => entryOf[r] # None

\* TypeOK, in the parts that different steps touch.
LEMMA TypeSplit ==
    /\ TypeOK <=> /\ RequestsTypeOK /\ LimiterTypeOK /\ CacheTypeOK
                  /\ LookupTypeOK /\ CarriesOK
    /\ TypeOK' <=> /\ RequestsTypeOK' /\ LimiterTypeOK' /\ CacheTypeOK'
                   /\ LookupTypeOK' /\ CarriesOK'
BY DEF TypeOK, LookupTypeOK, CarriesOK

\* A question names a cache and one of its keys.
LEMMA QuestionParts ==
    ASSUME NEW q \in Questions
    PROVE  q[1] \in Services /\ q[2] \in KeysOf[q[1]] /\ q # <<>>
BY DEF Questions

\* Set stores a key of the cache's own.
LEMMA SetType ==
    ASSUME RequestsTypeOK, CacheTypeOK, NEW s \in Services, NEW k \in KeysOf[s],
           Set(s, k)
    PROVE  CacheTypeOK'
<1> DEFINE Typed(cached) == /\ DOMAIN cached \subseteq KeysOf[s]
                            /\ \A j \in DOMAIN cached : cached[j] \in Nat
<1>1. now + TTL \in Nat
  BY CacheAssumption DEF RequestsTypeOK
<1>2. ASSUME NEW cached, Typed(cached)
      PROVE  Typed(With(cached, k))
  BY <1>1, <1>2 DEF With
<1>3. ASSUME NEW cached, NEW j, Typed(cached)
      PROVE  Typed(Without(cached, j))
  BY <1>3 DEF Without
<1>4. Typed(entries[s])
  BY DEF CacheTypeOK
<1>5. PICK cached : /\ entries' = [entries EXCEPT ![s] = cached]
                    /\ Typed(cached)
  BY <1>2, <1>3, <1>4 DEF Set
<1>6. QED
  BY <1>5 DEF CacheTypeOK

\* Every step of the limiter keeps the types.
LEMMA LimiterType ==
    ASSUME TypeOK, NEW r \in Requests, LimiterNext(r),
           UNCHANGED <<entries, lookupVars>>
    PROVE  TypeOK'
<1> USE LimiterAssumption DEF TypeOK, RequestsTypeOK, LimiterTypeOK, CacheTypeOK, Stages,
        Goes, Gets, LetsGo, histories, lookupVars
<1>1. CASE \E a \in Addresses : LookUp(r, a)
  BY <1>1 DEF LookUp
<1>2. CASE Touch(r)
  BY <1>2 DEF Touch
<1>3. CASE UseExisting(r)
  BY <1>3 DEF UseExisting
<1>4. CASE Create(r)
  BY <1>4 DEF Create, MakeEntry
<1>5. CASE Admit(r)
  BY <1>5 DEF Admit
<1>6. CASE Throttle(r)
  BY <1>6 DEF Throttle
<1>7. QED
  BY <1>1, <1>2, <1>3, <1>4, <1>5, <1>6 DEF LimiterNext

\* A step of a lookup keeps the types.
LEMMA LookupType ==
    ASSUME TypeOK, NEW r \in Requests, LookupNext(r)
    PROVE  TypeOK'
<1>1. CacheTypeOK'
  <2>1. CASE Answer(r)
    <3>1. asked[r] \in Questions
      BY <2>1 DEF Answer, Ends, Goes, TypeOK
    <3>2. asked[r][1] \in Services /\ asked[r][2] \in KeysOf[asked[r][1]]
      BY <3>1, QuestionParts
    <3> QED
      BY <2>1, <3>2, SetType DEF Answer, TypeOK
  <2>2. CASE ~Answer(r)
    <3>1. entries' = entries
      BY <2>2 DEF LookupNext, Refuse, FindCached, Miss, GoAhead, BeginWait, EndWait,
                  Cancel, Fail
    <3> QED
      BY <3>1 DEF TypeOK, CacheTypeOK
  <2> QED
    BY <2>1, <2>2
<1>2. limiterVars' = limiterVars /\ now' = now
  BY DEF LookupNext, Refuse, FindCached, Miss, GoAhead, BeginWait, EndWait,
         Cancel, Answer, Fail, Ends, Goes
<1>3. LimiterTypeOK'
  BY <1>2 DEF TypeOK, LimiterTypeOK, limiterVars, histories
<1> USE <1>2, PlacesAssumption DEF TypeOK, RequestsTypeOK, Stages, Goes, limiterVars, lookupVars
<1>4. /\ RequestsTypeOK' /\ LookupTypeOK' /\ CarriesOK'
  <2> USE DEF LookupTypeOK, CarriesOK
  <2>1. CASE Refuse(r) \/ FindCached(r)
    BY <2>1 DEF Refuse, FindCached
  <2>2. ASSUME NEW q \in Questions, Miss(r, q)
        PROVE  /\ RequestsTypeOK' /\ LookupTypeOK' /\ CarriesOK'
    BY <2>2, QuestionParts DEF Miss
  <2>3. CASE GoAhead(r)
    BY <2>3 DEF GoAhead, Sends
  <2>4. CASE BeginWait(r)
    BY <2>4 DEF BeginWait
  <2>5. CASE EndWait(r)
    BY <2>5 DEF EndWait, Sends
  <2>6. CASE Cancel(r) \/ Answer(r) \/ Fail(r)
    <3>1. PICK from : Ends(r, from) /\ UNCHANGED <<lastReq, lastSent>>
      BY <2>6 DEF Cancel, Answer, Fail
    <3> QED
      BY <3>1 DEF Ends
  <2> QED
    BY <2>1, <2>2, <2>3, <2>4, <2>5, <2>6 DEF LookupNext
<1> QED
  BY <1>1, <1>3, <1>4, TypeSplit

\* A sweep keeps the types.
LEMMA SweepType ==
    ASSUME TypeOK, Sweep, UNCHANGED <<entries, lookupVars>>
    PROVE  TypeOK'
BY DEF Sweep, histories, TypeOK, RequestsTypeOK, LimiterTypeOK, CacheTypeOK, lookupVars

\* So does the clock.
LEMMA TickType ==
    ASSUME TypeOK, Tick
    PROVE  TypeOK'
<1>1. /\ \A n \in 0 .. Burst : Refilled(n) \in 0 .. Burst
      /\ \A n \in Int : n <= Burst => Refilled(n) \in Int /\ Refilled(n) <= Burst
  BY LimiterAssumption DEF Refilled
<1> QED
  BY <1>1, PlacesAssumption
  DEF Tick, BucketsGain, TypeOK, RequestsTypeOK, LimiterTypeOK, CacheTypeOK, lookupVars

\* The kinds of step there are.
LEMMA StepKinds ==
    ASSUME [Next]_vars
    PROVE  \/ \E r \in Requests : LimiterNext(r) /\ UNCHANGED <<entries, lookupVars>>
           \/ \E r \in Requests : LookupNext(r)
           \/ Sweep /\ UNCHANGED <<entries, lookupVars>>
           \/ Tick
           \/ UNCHANGED vars
BY DEF Next, RequestNext

\* Every variable of the REST side keeps its type, and a request that has
\* got to a stage carries what the code there reads.
THEOREM PlacesTyped == Spec => []TypeOK
<1>1. Init => TypeOK
  BY LimiterAssumption, PlacesAssumption
  DEF Init, RequestsInit, LimiterInit, CacheInit, TypeOK, RequestsTypeOK, LimiterTypeOK,
      CacheTypeOK, Stages
<1>2. TypeOK /\ [Next]_vars => TypeOK'
  <2> SUFFICES ASSUME TypeOK, [Next]_vars PROVE TypeOK'
    OBVIOUS
  <2>1. CASE UNCHANGED vars
    BY <2>1 DEF vars, limiterVars, histories, lookupVars, TypeOK, RequestsTypeOK, LimiterTypeOK,
                CacheTypeOK
  <2> QED
    BY <2>1, StepKinds, LimiterType, LookupType, SweepType, TickType
<1> QED
  BY <1>1, <1>2, PTL DEF Spec

-----------------------------------------------------------------------------
(* The throttle. What an address can still take, tokens taken late made    *)
(* good, is at least what the bucket in the map holds; without an entry it *)
(* is a full bucket, which the next entry brings; and an entry is swept    *)
(* only when so long unused that what was taken in time has come back.     *)

Slack(a) == budget[a] + late[a]

BucketCovered ==
    \A a \in Addresses :
        IF ips[a] = None THEN Slack(a) >= Burst ELSE Slack(a) >= tokens[ips[a]]

RefilledSinceUse ==
    \A a \in Addresses :
        ips[a] # None =>
            \/ Slack(a) >= Burst
            \/ Slack(a) >= (now - lastSeen[ips[a]]) - (MaxAge - Burst)

HeldIsFresh ==
    \A r \in Requests : stage[r] = "holding" => lastSeen[entryOf[r]] >= gotAt[r]

UsesArePast == \A e \in Entries : lastSeen[e] <= now

BudgetInv ==
    /\ BucketCovered
    /\ RefilledSinceUse
    /\ HeldIsFresh
    /\ UsesArePast

\* Slack is a number, and at least zero.
LEMMA SlackBounds ==
    ASSUME TypeOK, BudgetInv
    PROVE  \A a \in Addresses : Slack(a) \in Nat
<1> SUFFICES ASSUME NEW a \in Addresses PROVE Slack(a) \in Nat
  OBVIOUS
<1>1. budget[a] \in Int /\ late[a] \in Nat
  BY DEF TypeOK, LimiterTypeOK
<1>2. ips[a] # None => tokens[ips[a]] \in 0 .. Burst
  BY DEF TypeOK, LimiterTypeOK
<1> QED
  BY <1>1, <1>2, LimiterAssumption DEF BudgetInv, BucketCovered, Slack

\* Using an entry disturbs nothing.
LEMMA UseKeepsBudgets ==
    ASSUME TypeOK, BudgetInv, NEW r \in Requests, NEW e \in Entries,
           stage' = [stage EXCEPT ![r] = "holding"],
           lastSeen' = [lastSeen EXCEPT ![e] = now],
           Gets(r, e),
           UNCHANGED <<now, ips, tokens>>
    PROVE  BudgetInv'
<1> USE DEF TypeOK, RequestsTypeOK, LimiterTypeOK, BudgetInv, Gets
<1>1. \A a \in Addresses : Slack(a)' = Slack(a)
  BY DEF Slack
<1>2. BucketCovered'
  BY <1>1 DEF BucketCovered
<1>3. UsesArePast'
  BY DEF UsesArePast
<1>4. RefilledSinceUse'
  <2> SUFFICES ASSUME NEW a \in Addresses, ips[a] # None
               PROVE  \/ Slack(a)' >= Burst
                      \/ Slack(a)' >= (now - lastSeen'[ips[a]]) - (MaxAge - Burst)
    BY DEF RefilledSinceUse
  <2>1. /\ Slack(a) \in Nat /\ Slack(a)' = Slack(a)
        /\ ips[a] \in Entries /\ now \in Nat
        /\ lastSeen \in [Entries -> Nat]
    BY <1>1, SlackBounds
  <2>2. \/ Slack(a) >= Burst
        \/ Slack(a) >= (now - lastSeen[ips[a]]) - (MaxAge - Burst)
    BY DEF RefilledSinceUse
  <2> HIDE DEF TypeOK, RequestsTypeOK, LimiterTypeOK, BudgetInv, Gets
  <2>3. CASE ips[a] = e
    BY <2>1, <2>3, LimiterAssumption
  <2>4. CASE ips[a] # e
    BY <2>1, <2>2, <2>4
  <2> QED
    BY <2>3, <2>4
<1>5. HeldIsFresh'
  BY DEF HeldIsFresh, UsesArePast
<1> QED
  BY <1>2, <1>3, <1>4, <1>5

\* A token taken in time is paid for by what the bucket in the map held; one
\* taken late is made good.
LEMMA AdmitBudget ==
    ASSUME TypeOK, BudgetInv, NEW r \in Requests, Admit(r)
    PROVE  BudgetInv'
<1> DEFINE e == entryOf[r]
           b == addrOf[r]
<1> USE DEF TypeOK, RequestsTypeOK, LimiterTypeOK, BudgetInv, Goes, LetsGo, Admit
<1>1. e \in Entries /\ b \in Addresses /\ tokens[e] \in 1 .. Burst
  BY LimiterAssumption
<1>2. (UsesArePast /\ HeldIsFresh)'
  BY DEF UsesArePast, HeldIsFresh
<1>3. \A a \in Addresses :
          Slack(a)' = IF a = b /\ ~IsLate(r) THEN Slack(a) - 1 ELSE Slack(a)
  BY <1>1 DEF Slack
<1>4. \A d \in Entries :
          /\ tokens'[d] <= tokens[d]
          /\ d = e => tokens'[d] = tokens[d] - 1
  BY <1>1
<1>5. ASSUME NEW a \in Addresses, a # b \/ IsLate(r)
      PROVE  /\ IF ips[a] = None THEN Slack(a)' >= Burst ELSE Slack(a)' >= tokens'[ips[a]]
             /\ ips[a] # None =>
                    \/ Slack(a)' >= Burst
                    \/ Slack(a)' >= (now - lastSeen[ips[a]]) - (MaxAge - Burst)
  <2>1. Slack(a)' = Slack(a) /\ Slack(a) \in Nat
    BY <1>3, <1>5, SlackBounds
  <2>2. ips[a] # None => tokens[ips[a]] >= tokens'[ips[a]] /\ Slack(a) >= tokens[ips[a]]
    BY <1>4 DEF BucketCovered
  <2> QED
    BY <2>1, <2>2, LimiterAssumption DEF BucketCovered, RefilledSinceUse
<1>6. ASSUME ~IsLate(r)
      PROVE  /\ ips[b] = e
             /\ Slack(b)' >= tokens'[e]
             /\ Slack(b)' >= (now - lastSeen[e]) - (MaxAge - Burst)
  <2>1. ips[b] = e /\ now - gotAt[r] <= MaxAge - Burst
    BY <1>6, LimiterAssumption DEF IsLate
  <2>2. lastSeen[e] \in Nat /\ gotAt[r] \in Nat /\ lastSeen[e] >= gotAt[r]
    BY DEF HeldIsFresh
  <2>3. Slack(b)' = Slack(b) - 1 /\ Slack(b) \in Nat /\ Slack(b) >= tokens[e]
    BY <1>1, <1>3, <1>6, <2>1, LimiterAssumption, SlackBounds DEF BucketCovered
  <2> QED
    BY <1>1, <1>4, <2>1, <2>2, <2>3, LimiterAssumption
<1>7. (BucketCovered /\ RefilledSinceUse)'
  BY <1>1, <1>5, <1>6, LimiterAssumption DEF BucketCovered, RefilledSinceUse
<1> QED
  BY <1>2, <1>7

\* Every step of a request in the limiter keeps the budgets.
LEMMA LimiterBudget ==
    ASSUME TypeOK, BudgetInv, NEW r \in Requests, LimiterNext(r)
    PROVE  BudgetInv'
<1> USE DEF TypeOK, RequestsTypeOK, LimiterTypeOK, BudgetInv, Goes
<1>1. ASSUME NEW a \in Addresses, LookUp(r, a)
      PROVE  BudgetInv'
  BY <1>1 DEF LookUp, histories, UsesArePast, RefilledSinceUse, HeldIsFresh,
              BucketCovered, Slack
<1>2. CASE Touch(r)
  <2>1. entryOf[r] \in Entries
    BY <1>2 DEF Touch
  <2> QED
    BY <1>2, <2>1, UseKeepsBudgets DEF Touch
<1>3. CASE UseExisting(r)
  <2>1. ips[addrOf[r]] \in Entries
    BY <1>3 DEF UseExisting
  <2> QED
    BY <1>3, <2>1, UseKeepsBudgets DEF UseExisting
<1>4. CASE Create(r)
  <2>1. PICK e \in Entries : MakeEntry(r, e)
    BY <1>4 DEF Create
  <2>2. addrOf[r] \in Addresses /\ ips[addrOf[r]] = None
    BY <1>4 DEF Create
  <2>3. \A a \in Addresses : Slack(a)' = Slack(a)
    BY <2>1 DEF MakeEntry, Gets, Slack
  <2>4. BucketCovered'
    BY <2>1, <2>2, <2>3, LimiterAssumption DEF MakeEntry, Unreferenced, BucketCovered
  <2>5. (UsesArePast /\ RefilledSinceUse)'
    BY <2>1, <2>2, <2>3, LimiterAssumption
    DEF MakeEntry, Unreferenced, UsesArePast, RefilledSinceUse, BucketCovered
  <2>6. HeldIsFresh'
    BY <2>1 DEF MakeEntry, Gets, Unreferenced, HeldIsFresh
  <2> QED
    BY <2>4, <2>5, <2>6
<1>5. CASE Admit(r)
  BY <1>5, AdmitBudget
<1>6. CASE Throttle(r)
  BY <1>6 DEF Throttle, LetsGo, UsesArePast, RefilledSinceUse, HeldIsFresh,
              BucketCovered, Slack
<1> QED
  BY <1>1, <1>2, <1>3, <1>4, <1>5, <1>6 DEF LimiterNext

\* A sweep takes only entries whose bucket is full.
LEMMA SweepBudget ==
    ASSUME TypeOK, BudgetInv, Sweep
    PROVE  BudgetInv'
<1> USE DEF TypeOK, RequestsTypeOK, LimiterTypeOK, BudgetInv
<1>1. ASSUME NEW a \in Addresses, Old(a)
      PROVE  Slack(a) >= Burst
  BY <1>1, SlackBounds, LimiterAssumption DEF Old, RefilledSinceUse
<1>2. \A a \in Addresses : /\ ips'[a] = IF Old(a) THEN None ELSE ips[a]
                           /\ Slack(a)' = Slack(a)
  BY DEF Sweep, histories, Slack
<1>3. BucketCovered'
  BY <1>1, <1>2 DEF Sweep, BucketCovered
<1>4. RefilledSinceUse'
  BY <1>2 DEF Sweep, RefilledSinceUse
<1>5. (UsesArePast /\ HeldIsFresh)'
  BY DEF Sweep, histories, UsesArePast, HeldIsFresh
<1> QED
  BY <1>3, <1>4, <1>5

\* Buckets and budgets gain alike.
LEMMA TickBudget ==
    ASSUME TypeOK, BudgetInv, Tick
    PROVE  BudgetInv'
<1> USE LimiterAssumption DEF TypeOK, RequestsTypeOK, LimiterTypeOK, BudgetInv, Tick, BucketsGain
<1>1. (UsesArePast /\ HeldIsFresh)'
  BY DEF UsesArePast, HeldIsFresh
<1>2. ASSUME NEW a \in Addresses
      PROVE  Slack(a)' >= Burst \/ Slack(a)' = Slack(a) + 1
  <2>1. /\ budget[a] \in Int /\ budget[a] <= Burst /\ late[a] \in Nat
        /\ budget'[a] = Refilled(budget[a])
        /\ late'[a] = IF Refilled(budget[a]) = Burst THEN 0 ELSE late[a]
    OBVIOUS
  <2> HIDE DEF Tick, BucketsGain, BudgetInv, TypeOK, LimiterTypeOK, RequestsTypeOK
  <2> QED
    BY <2>1 DEF Refilled, Slack
<1>3. ASSUME NEW a \in Addresses
      PROVE  /\ IF ips[a] = None THEN Slack(a)' >= Burst ELSE Slack(a)' >= tokens'[ips[a]]
             /\ ips[a] # None =>
                    \/ Slack(a)' >= Burst
                    \/ Slack(a)' >= (now' - lastSeen[ips[a]]) - (MaxAge - Burst)
  <2>1. Slack(a)' \in Int /\ Slack(a) \in Nat
    BY <1>2, SlackBounds DEF Slack, Refilled
  <2>2. CASE ips[a] = None
    BY <1>2, <2>1, <2>2 DEF BucketCovered
  <2>3. CASE ips[a] # None
    <3>1. /\ tokens[ips[a]] \in 0 .. Burst
          /\ tokens'[ips[a]] = Refilled(tokens[ips[a]])
          /\ lastSeen[ips[a]] \in Nat
          /\ now \in Nat /\ now' = now + 1
          /\ Slack(a) >= tokens[ips[a]]
          /\ \/ Slack(a) >= Burst
             \/ Slack(a) >= (now - lastSeen[ips[a]]) - (MaxAge - Burst)
      BY <2>3 DEF BucketCovered, RefilledSinceUse
    <3> HIDE DEF Tick, BucketsGain, BudgetInv, TypeOK, LimiterTypeOK, RequestsTypeOK
    <3> QED
      BY <1>2, <2>1, <2>3, <3>1 DEF Refilled
  <2> QED
    BY <2>2, <2>3
<1>4. (BucketCovered /\ RefilledSinceUse)'
  BY <1>3 DEF BucketCovered, RefilledSinceUse
<1> QED
  BY <1>1, <1>4

\* However entries are swept and made again while requests hold the old ones,
\* an address takes no more tokens than one bucket that is kept for ever would
\* give it, and one for each request that came late to Allow.
THEOREM ThrottleHolds == Spec => []ThrottleSurvives
<1>1. Init => BudgetInv
  BY LimiterAssumption
  DEF Init, RequestsInit, LimiterInit, BudgetInv, Slack, BucketCovered,
      UsesArePast, RefilledSinceUse, HeldIsFresh
<1>2. TypeOK /\ BudgetInv /\ [Next]_vars => BudgetInv'
  <2> SUFFICES ASSUME TypeOK, BudgetInv, [Next]_vars PROVE BudgetInv'
    OBVIOUS
  <2>1. ASSUME UNCHANGED <<limiterVars, now>>,
               \A r \in Requests : stage'[r] = "holding" => stage[r] = "holding"
        PROVE  BudgetInv'
    BY <2>1 DEF limiterVars, histories, BudgetInv, Slack, BucketCovered,
                UsesArePast, RefilledSinceUse, HeldIsFresh
  <2>2. CASE UNCHANGED vars
    BY <2>1, <2>2 DEF vars, limiterVars
  <2>3. ASSUME NEW r \in Requests, LookupNext(r)
        PROVE  BudgetInv'
    <3>1. UNCHANGED <<limiterVars, now>>
      BY <2>3 DEF LookupNext, Refuse, FindCached, Miss, GoAhead, BeginWait,
                  EndWait, Cancel, Answer, Fail, Ends, Goes
    <3>2. PICK to \in Stages \ {"holding"} : stage' = [stage EXCEPT ![r] = to]
      BY <2>3 DEF LookupNext, Refuse, FindCached, Miss, GoAhead, BeginWait,
                  EndWait, Cancel, Answer, Fail, Ends, Goes, Stages
    <3>3. stage \in [Requests -> Stages]
      BY DEF TypeOK, RequestsTypeOK
    <3> QED
      BY <2>1, <3>1, <3>2, <3>3
  <2> QED
    BY <2>2, <2>3, StepKinds, LimiterBudget, SweepBudget, TickBudget
<1>3. TypeOK /\ BudgetInv => ThrottleSurvives
  BY SlackBounds DEF Slack, ThrottleSurvives
<1> QED
  BY <1>1, <1>2, <1>3, PlacesTyped, PTL DEF Spec

-----------------------------------------------------------------------------
(* Entries are shared                                                      *)

\* The map changes when an entry is made where there is none, and by a sweep.
THEOREM MapIsShared == Spec => EntriesAreShared
<1> DEFINE Shared == \A a \in Addresses : ips[a] # None => ips'[a] \in {ips[a], None}
<1>1. TypeOK /\ [Next]_vars => [Shared]_ips
  <2> SUFFICES ASSUME TypeOK, [Next]_vars PROVE Shared \/ UNCHANGED ips
    OBVIOUS
  <2>1. ASSUME NEW r \in Requests, LimiterNext(r)
        PROVE  Shared \/ UNCHANGED ips
    <3>1. CASE Create(r)
      BY <3>1 DEF Create, MakeEntry, TypeOK, LimiterTypeOK
    <3> QED
      BY <2>1, <3>1 DEF LimiterNext, LookUp, Touch, UseExisting, Admit, Throttle, LetsGo
  <2>2. ASSUME NEW r \in Requests, LookupNext(r)
        PROVE  UNCHANGED ips
    BY <2>2 DEF LookupNext, Refuse, FindCached, Miss, GoAhead, BeginWait,
                EndWait, Cancel, Answer, Fail, limiterVars
  <2>3. CASE Sweep
    BY <2>3 DEF Sweep
  <2>4. CASE Tick \/ UNCHANGED vars
    BY <2>4 DEF Tick, BucketsGain, vars, limiterVars
  <2> QED
    BY <2>1, <2>2, <2>3, <2>4, StepKinds
<1> QED
  BY <1>1, PlacesTyped, PTL DEF Spec, EntriesAreShared

-----------------------------------------------------------------------------
(* The cache                                                               *)

\* Of a cache without the key "", a full one evicts a key that expires first.
LEMMA EvictsOldest ==
    ASSUME NEW cached, EmptyKey \notin DOMAIN cached, DOMAIN cached # {},
           NEW k \in Evictable(cached)
    PROVE  /\ k \in DOMAIN cached
           /\ \A j \in DOMAIN cached : cached[k] <= cached[j]
           /\ k # EmptyKey
BY DEF Evictable, Oldest

\* The caches only change by an answer.
LEMMA CacheSteps ==
    ASSUME TypeOK, [Next]_vars
    PROVE  \/ UNCHANGED entries
           \/ \E s \in Services : \E k \in KeysOf[s] : Set(s, k)
<1>1. ASSUME NEW r \in Requests, Answer(r)
      PROVE  \E s \in Services : \E k \in KeysOf[s] : Set(s, k)
  <2>1. asked[r] \in Questions
    BY <1>1 DEF Answer, Ends, Goes, TypeOK
  <2> QED
    BY <1>1, <2>1, QuestionParts DEF Answer
<1>2. ASSUME NEW r \in Requests, LookupNext(r), ~Answer(r)
      PROVE  UNCHANGED entries
  BY <1>2 DEF LookupNext, Refuse, FindCached, Miss, GoAhead, BeginWait, EndWait,
              Cancel, Fail
<1> QED
  BY <1>1, <1>2, StepKinds DEF Tick, vars

FiniteAndBounded ==
    \A s \in Services :
        EmptyKey \notin KeysOf[s] => IsFiniteSet(DOMAIN entries[s]) /\ Bounded(s)

\* A cache that is never asked for "" never holds more than MaxSize entries.
THEOREM CapHolds == Spec => []CapIsKept
<1>1. Init => FiniteAndBounded
  <2> SUFFICES ASSUME Init, NEW s \in Services
               PROVE  IsFiniteSet(DOMAIN entries[s]) /\ Bounded(s)
    BY DEF FiniteAndBounded
  <2>1. DOMAIN entries[s] = {}
    BY DEF Init, CacheInit
  <2> QED
    BY <2>1, FS_EmptySet, CacheAssumption DEF Bounded
<1>2. TypeOK /\ FiniteAndBounded /\ [Next]_vars => FiniteAndBounded'
  <2> SUFFICES ASSUME TypeOK, FiniteAndBounded, [Next]_vars
               PROVE  FiniteAndBounded'
    OBVIOUS
  <2>1. CASE UNCHANGED entries
    BY <2>1 DEF FiniteAndBounded, Bounded
  <2>2. ASSUME NEW s \in Services, NEW k \in KeysOf[s], Set(s, k)
        PROVE  FiniteAndBounded'
    <3> DEFINE Fits(cached) == /\ IsFiniteSet(DOMAIN cached)
                               /\ Cardinality(DOMAIN cached) < MaxSize
    <3>1. ASSUME NEW cached, Fits(cached)
          PROVE  /\ IsFiniteSet(DOMAIN With(cached, k))
                 /\ Cardinality(DOMAIN With(cached, k)) <= MaxSize
      <4>1. DOMAIN With(cached, k) = DOMAIN cached \cup {k}
        BY DEF With
      <4>2. /\ IsFiniteSet(DOMAIN cached \cup {k})
            /\ Cardinality(DOMAIN cached \cup {k}) <= Cardinality(DOMAIN cached) + 1
            /\ Cardinality(DOMAIN cached) \in Nat
            /\ Cardinality(DOMAIN cached \cup {k}) \in Nat
        <5>1. /\ IsFiniteSet(DOMAIN cached \cup {k})
              /\ Cardinality(DOMAIN cached \cup {k})
                    = IF k \in DOMAIN cached THEN Cardinality(DOMAIN cached)
                                             ELSE Cardinality(DOMAIN cached) + 1
          BY <3>1, FS_AddElement
        <5>2. Cardinality(DOMAIN cached) \in Nat
          BY <3>1, FS_CardinalityType
        <5> QED
          BY <5>1, <5>2
      <4> QED
        BY <3>1, <4>1, <4>2, CacheAssumption
    <3>2. CASE EmptyKey \in KeysOf[s]
      BY <2>2, <3>2 DEF Set, FiniteAndBounded, Bounded, TypeOK, CacheTypeOK
    <3>3. CASE EmptyKey \notin KeysOf[s]
      <4>1. /\ IsFiniteSet(DOMAIN entries[s])
            /\ Cardinality(DOMAIN entries[s]) \in Nat
            /\ Cardinality(DOMAIN entries[s]) <= MaxSize
            /\ EmptyKey \notin DOMAIN entries[s]
        BY <3>3, FS_CardinalityType DEF FiniteAndBounded, Bounded, TypeOK, CacheTypeOK
      <4>2. ASSUME IsFull(entries[s]), NEW e \in Evictable(entries[s])
            PROVE  Fits(Without(entries[s], e))
        <5>1. DOMAIN entries[s] # {}
          BY <4>2, FS_EmptySet, CacheAssumption DEF IsFull
        <5>2. e \in DOMAIN entries[s] /\ e # EmptyKey
          BY <4>1, <5>1, EvictsOldest
        <5>3. DOMAIN Without(entries[s], e) = DOMAIN entries[s] \ {e}
          BY <5>2 DEF Without
        <5>4. /\ IsFiniteSet(DOMAIN entries[s] \ {e})
              /\ Cardinality(DOMAIN entries[s] \ {e}) = Cardinality(DOMAIN entries[s]) - 1
          BY <4>1, <5>2, FS_RemoveElement
        <5> QED
          BY <4>1, <5>3, <5>4, CacheAssumption
      <4>3. ~IsFull(entries[s]) => Fits(entries[s])
        BY <4>1, CacheAssumption DEF IsFull
      <4>4. PICK cached : Fits(cached) /\ entries' = [entries EXCEPT ![s] = With(cached, k)]
        BY <2>2, <4>2, <4>3 DEF Set
      <4>5. /\ IsFiniteSet(DOMAIN With(cached, k))
            /\ Cardinality(DOMAIN With(cached, k)) <= MaxSize
        BY <3>1, <4>4
      <4>6. entries'[s] = With(cached, k) /\ \A t \in Services \ {s} : entries'[t] = entries[t]
        BY <4>4 DEF TypeOK, CacheTypeOK
      <4> QED
        BY <4>5, <4>6 DEF FiniteAndBounded, Bounded
    <3> QED
      BY <3>2, <3>3
  <2> QED
    BY <2>1, <2>2, CacheSteps
<1>3. FiniteAndBounded => CapIsKept
  BY DEF FiniteAndBounded, CapIsKept
<1> QED
  BY <1>1, <1>2, <1>3, PlacesTyped, PTL DEF Spec

\* What a Set evicts expires no later than what it leaves.
THEOREM OldestIsEvicted == Spec => OldestGoesFirst
<1> DEFINE Goner(s) ==
        EmptyKey \notin KeysOf[s] =>
          \A gone \in DOMAIN entries[s] \ DOMAIN entries'[s],
             kept \in DOMAIN entries[s] \cap DOMAIN entries'[s] :
                 entries[s][gone] <= entries[s][kept]
<1>1. TypeOK /\ [Next]_vars => [\A s \in Services : Goner(s)]_entries
  <2> SUFFICES ASSUME TypeOK, [Next]_vars, ~UNCHANGED entries, NEW s \in Services,
                      EmptyKey \notin KeysOf[s],
                      NEW gone \in DOMAIN entries[s] \ DOMAIN entries'[s],
                      NEW kept \in DOMAIN entries[s] \cap DOMAIN entries'[s]
               PROVE  entries[s][gone] <= entries[s][kept]
    OBVIOUS
  <2>1. PICK t \in Services : \E k \in KeysOf[t] : Set(t, k)
    BY CacheSteps
  <2>2. PICK key \in KeysOf[t] : Set(t, key)
    BY <2>1
  <2>3. ASSUME NEW cached, entries' = [entries EXCEPT ![t] = With(cached, key)]
        PROVE  t = s /\ gone \notin DOMAIN cached
    BY <2>3 DEF With, TypeOK, CacheTypeOK
  <2>4. IsFull(entries[t])
    BY <2>2, <2>3 DEF Set
  <2>5. PICK k \in Evictable(entries[t]) :
            entries' = [entries EXCEPT ![t] = With(Without(entries[t], k), key)]
    BY <2>2, <2>4 DEF Set
  <2>6. t = s /\ gone \notin DOMAIN Without(entries[s], k)
    BY <2>3, <2>5
  <2>7. gone = k
    BY <2>6 DEF Without
  <2>8. EmptyKey \notin DOMAIN entries[s]
    BY DEF TypeOK, CacheTypeOK
  <2> QED
    BY <2>5, <2>6, <2>7, <2>8, EvictsOldest
<1> QED
  BY <1>1, PlacesTyped, PTL DEF Spec, OldestGoesFirst

-----------------------------------------------------------------------------
(* The spacing of searches                                                 *)

\* What a slot has sent is no later than the last search of all, and who
\* waits, waits at least for its own.
WaitsForOwn ==
    \A r \in Requests :
        /\ lastSent[r] <= lastReq
        /\ stage[r] = "waiting" => wakeAt[r] >= lastSent[r] + Spacing

\* A browser with one search at a time never sends two within Spacing,
\* whatever others do to lastReq in between.
THEOREM OwnSearchesSpaced == Spec => OwnSearchesAreSpaced
<1> DEFINE Spaced == \A r \in Requests : IsSent(r) => now - lastSent[r] >= Spacing
<1>1. Init => WaitsForOwn
  BY PlacesAssumption DEF Init, RequestsInit, WaitsForOwn
<1>2. TypeOK /\ WaitsForOwn /\ [Next]_vars => WaitsForOwn' /\ [Spaced]_vars
  <2> SUFFICES ASSUME TypeOK, WaitsForOwn, [Next]_vars
               PROVE  WaitsForOwn' /\ [Spaced]_vars
    OBVIOUS
  <2> USE PlacesAssumption DEF TypeOK, RequestsTypeOK, WaitsForOwn, IsSent
  <2>1. ASSUME UNCHANGED <<lastReq, lastSent, wakeAt>>,
               \A r \in Requests :
                  stage'[r] \in {"waiting", "asking"} => stage[r] = stage'[r]
        PROVE  WaitsForOwn' /\ Spaced
    BY <2>1
  <2>2. ASSUME NEW r \in Requests, LookupNext(r)
        PROVE  WaitsForOwn' /\ Spaced
    <3> USE DEF Goes, lookupVars
    <3>1. CASE Refuse(r) \/ FindCached(r)
      BY <2>1, <3>1 DEF Refuse, FindCached
    <3>2. ASSUME NEW q \in Questions, Miss(r, q)
          PROVE  WaitsForOwn' /\ Spaced
      BY <3>2 DEF Miss
    <3>3. CASE GoAhead(r)
      BY <3>3 DEF GoAhead, Sends
    <3>4. CASE BeginWait(r)
      BY <3>4 DEF BeginWait
    <3>5. CASE EndWait(r)
      BY <3>5 DEF EndWait, Sends
    <3>6. CASE Cancel(r) \/ Answer(r) \/ Fail(r)
      BY <3>6 DEF Cancel, Answer, Fail, Ends
    <3> QED
      BY <2>2, <3>1, <3>2, <3>3, <3>4, <3>5, <3>6 DEF LookupNext
  <2>3. ASSUME NEW r \in Requests, LimiterNext(r), UNCHANGED lookupVars
        PROVE  WaitsForOwn' /\ Spaced
    BY <2>1, <2>3 DEF LimiterNext, LookUp, Touch, UseExisting, Create, MakeEntry,
                      Admit, Throttle, LetsGo, Goes, lookupVars
  <2>4. CASE Sweep /\ UNCHANGED lookupVars
    BY <2>1, <2>4 DEF Sweep, lookupVars
  <2>5. CASE Tick
    BY <2>1, <2>5 DEF Tick, lookupVars
  <2>6. CASE UNCHANGED vars
    BY <2>6, <2>1 DEF vars, lookupVars
  <2> QED
    BY <2>2, <2>3, <2>4, <2>5, <2>6, StepKinds
<1> QED
  BY <1>1, <1>2, PlacesTyped, PTL DEF Spec, OwnSearchesAreSpaced
=============================================================================
