CONSTANTS
    Riders = {p}
    Dests = {d1, d2}
    Positions = {x, y}
    None = None
    Elsewhere = Elsewhere
    MaxAsked = 1
    loop = loop  rajpath = rajpath
    SimRoutes = {loop, rajpath}
    Waypoints <- TwoRides
    Roads <- SomeRoads
    Pace = 1
SPECIFICATION Spec
SYMMETRY Symmetry
INVARIANTS
    TypeOK
    RoutesFollowTrip
    NoRiderIsStuck
    RoadIsOfThisRoute
    DoneEndsAtMarker
