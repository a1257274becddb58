\* Small universes, so that strips cross every limit: 2 pixels a universe,
\* 3 universes, numbers that run out at 6 and saturate at 8.
SPECIFICATION Spec
CONSTANTS
    MAX_SLOTS_PER_UNIVERSE = 8
    MAX_UNIVERSES = 3
    MAX_UNIVERSE = 6
    U16_MAX = 8
    MaxPixels = 20
    Starts = {0, 1, 2, 4, 5, 6, 7, 8}
    Priorities = {0, 200, 201}
INVARIANTS
    StripSpread
    PartitionInPlace
    PacketAtOffsets
CHECK_DEADLOCK FALSE
