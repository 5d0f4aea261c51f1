\* Three connections in a group of two, one of which may fail; c2 listens
\* only; the system may come to rest. No shutdown, under Fairness.
CONSTANTS
    c1 = c1  c2 = c2  c3 = c3
    u1 = u1  u2 = u2  u3 = u3
    g1 = g1  g2 = g2
    None = None
    Clients = {c1, c2, c3}
    Users = {u1, u2}
    Groups = {g1}
    UserOf <- TwoSockets
    GroupOf <- OneGroup
    Positions = {p1}
    TripIds = {}
    Workers = {}
    PersistCap = 1
    HasStore = FALSE
    StoreOutcomes = {TRUE}
    MaxGroupSize = 2
    SendCap = 1
    BroadcastCap = 1
    Kinds <- OneListens
    HangUps = {c3}
    MayRedial = FALSE
    MayStop = FALSE
SPECIFICATION FairSpec
PROPERTIES DialsAreAnswered ClosedClientsAreHungUp DeadConnectionsLeave
CHECK_DEADLOCK FALSE
