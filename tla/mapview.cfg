CONSTANTS
    Styles = {dark, light, voyager}
    Overlays = {arcs, route}
    Data = {d1, d2}
    Arcs = {a1}
    Markers = {pin}
    Popups = {note}
    Spots = {x, y}
    None = None
SPECIFICATION Spec
SYMMETRY Symmetry
INVARIANTS
    TypeOK
    SafeToAdd
    DrawnIsWanted
    StyleWillLoad
    PopupsFollow
