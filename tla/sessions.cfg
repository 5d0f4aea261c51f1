CONSTANTS
    Rooms = {g1, g2}
    BusyRooms = {g1}
    Peers = {p1}
    TripIds = {t1, t2}
    Sockets = {s1, s2}
    Fetches = {f1}
    None = None
    MaxLogins = 1
    QueueCap = 1
SPECIFICATION Spec
SYMMETRY Symmetry
INVARIANTS
    TypeOK
    SingleConnection
    NeverStranded
    OnlyStraysCross
    AgreesAtRest
