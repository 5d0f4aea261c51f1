CONSTANTS
    Places = {a, b}
    Requests = {r1, r2}
    None = None
SPECIFICATION FairSpec
INVARIANTS
    TypeOK
    ListMatchesQuery
    PreviewIsTheChoice
PROPERTIES
    SpinnerStops
