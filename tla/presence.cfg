\* Locations only, no store. Three connections, two of them sockets of one
\* user, in a group of two; c2 never hangs up. Each dials once, so the system
\* may come to rest.
CONSTANTS
    c1 = c1  c2 = c2  c3 = c3
    u1 = u1  u2 = u2  u3 = u3
    g1 = g1  g2 = g2
    None = None
    Clients = {c1, c2, c3}
    Users = {u1, u2}
    Groups = {g1}
    UserOf <- TwoSockets
    GroupOf <- OneGroup
    Positions = {p1}
    TripIds = {}
    Workers = {}
    PersistCap = 1
    HasStore = FALSE
    StoreOutcomes = {TRUE}
    MaxGroupSize = 2
    SendCap = 1
    BroadcastCap = 1
    Kinds <- AndOthers
    HangUps = {c1, c3}
    MayRedial = FALSE
    MayStop = FALSE
SPECIFICATION Spec
INVARIANTS TypeOK MembershipInv PeersAgree
PROPERTIES NoSendAfterClose ImplementsRooms
CHECK_DEADLOCK FALSE
