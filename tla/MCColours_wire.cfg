\* Every value of every field after every other, for every list of zones.
SPECIFICATION Spec
CONSTANTS
    ONE = 2
    INFINITY = 5
    NaN = NaN
    MAX_SLOTS_PER_UNIVERSE = 8
    MAX_UNIVERSES = 3
    MAX_UNIVERSE = 5
    U16_MAX = 8
    Curve <- MCCurve
    Values <- MCValues
    ZoneLists <- MCZoneLists
    Universes = {2}
INVARIANTS
    FlashVisible
    ReceiversShowFrame
PROPERTIES
    ZonesResolved
    NeverDarker
