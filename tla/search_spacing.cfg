\* Two searches that wait are sent at the same moment.
CONSTANTS
    k1 = k1  k2 = k2  k3 = k3  k4 = k4
    None = None
    EmptyKey = EmptyKey
    Requests = {r1, r2}
    Addresses = {a1}
    Entries = {e1, e2}
    Burst = 1
    MaxAge = 1
    Services = {"search", "route"}
    KeysOf <- NamesAndRoutes
    MaxSize = 2
    TTL = 1
    Spacing = 1
    MaxNow = 3
SPECIFICATION Spec
PROPERTIES AllSearchesAreSpaced
