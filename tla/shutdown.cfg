\* SIGTERM at any moment, with a store, under Fairness; c1 sends, c2 listens
\* and may hang up. A stopped server stands still.
CONSTANTS
    c1 = c1  c2 = c2  c3 = c3
    u1 = u1  u2 = u2  u3 = u3
    g1 = g1  g2 = g2
    None = None
    Clients = {c1, c2}
    Users = {u1, u2}
    Groups = {g1}
    UserOf <- OwnUsers
    GroupOf <- OneGroup
    Positions = {p1}
    TripIds = {}
    Workers = {w1}
    PersistCap = 1
    HasStore = TRUE
    StoreOutcomes = {TRUE}
    MaxGroupSize = 2
    SendCap = 1
    BroadcastCap = 1
    Kinds <- OneListens
    HangUps = {c2}
    MayRedial = FALSE
    MayStop = TRUE
SPECIFICATION FairSpec
INVARIANTS StopDrains
PROPERTIES QuitEndsRun StopReturnsEventually
CHECK_DEADLOCK FALSE
