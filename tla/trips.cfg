\* One user leads trips and replaces them by new ones; the other rides along,
\* comes and goes. The browser that shows a trip for ever may hold all
\* identities, and creations then wait.
CONSTANTS
    c1 = c1  c2 = c2  c3 = c3
    u1 = u1  u2 = u2  u3 = u3
    g1 = g1  g2 = g2
    None = None
    Clients = {c1, c3}
    Users = {u1, u2}
    Groups = {g1}
    UserOf <- TwoSockets
    GroupOf <- OneGroup
    Positions = {p1}
    TripIds = {t1, t2}
    Workers = {}
    PersistCap = 1
    HasStore = FALSE
    StoreOutcomes = {TRUE}
    MaxGroupSize = 2
    SendCap = 1
    BroadcastCap = 1
    Kinds <- LeaderTalk
    HangUps = {c3}
    MayRedial = TRUE
    MayStop = FALSE
SPECIFICATION Spec
INVARIANTS TripViewsAgree
SYMMETRY TripIdSymmetry
CHECK_DEADLOCK FALSE
