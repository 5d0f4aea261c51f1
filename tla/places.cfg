\* Two requests at a time from one address, for one place and three routes,
\* with caches of two; a token a tick, and entries swept as early as the
\* buckets allow.
CONSTANTS
    k1 = k1  k2 = k2  k3 = k3  k4 = k4
    None = None
    EmptyKey = EmptyKey
    Requests = {r1, r2}
    Addresses = {a1}
    Entries = {e1, e2}
    Burst = 1
    MaxAge = 1
    Services = {"search", "route"}
    KeysOf <- NamesAndRoutes
    MaxSize = 2
    TTL = 1
    Spacing = 1
    MaxNow = 3
SPECIFICATION Spec
INVARIANTS TypeOK ThrottleSurvives CapIsKept
PROPERTIES EntriesAreShared OldestGoesFirst OwnSearchesAreSpaced
SYMMETRY EntrySymmetry
