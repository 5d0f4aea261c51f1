\* Locations and trips in two groups, with a store whose calls may fail; rows
\* are never deleted, so the one trip identity is used once, and nobody dials
\* again.
CONSTANTS
    c1 = c1  c2 = c2  c3 = c3
    u1 = u1  u2 = u2  u3 = u3
    g1 = g1  g2 = g2
    None = None
    Clients = {c1, c2, c3}
    Users = {u1, u2, u3}
    Groups = {g1, g2}
    UserOf <- OwnUsers
    GroupOf <- TwoGroups
    Positions = {p1}
    TripIds = {t1}
    Workers = {w1}
    PersistCap = 1
    HasStore = TRUE
    StoreOutcomes = {TRUE, FALSE}
    MaxGroupSize = 2
    SendCap = 1
    BroadcastCap = 1
    Kinds <- StoreTalk
    HangUps = {c2}
    MayRedial = FALSE
    MayStop = FALSE
SPECIFICATION Spec
INVARIANTS TripRowsAgree InsertsHaveUserRow GroupsStayApart
CHECK_DEADLOCK FALSE
