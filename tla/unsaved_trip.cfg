\* A trip that is not in the database although no call to it failed.
CONSTANTS
    c1 = c1  c2 = c2  c3 = c3
    u1 = u1  u2 = u2  u3 = u3
    g1 = g1  g2 = g2
    None = None
    Clients = {c1, c3}
    Users = {u1, u2}
    Groups = {g1}
    UserOf <- TwoSockets
    GroupOf <- OneGroup
    Positions = {p1}
    TripIds = {t1}
    Workers = {w1}
    PersistCap = 1
    HasStore = TRUE
    StoreOutcomes = {TRUE}
    MaxGroupSize = 2
    SendCap = 2
    BroadcastCap = 1
    Kinds <- TripTalk
    HangUps = {c1, c3}
    MayRedial = TRUE
    MayStop = FALSE
SPECIFICATION Spec
INVARIANTS LiveTripsHaveRow
