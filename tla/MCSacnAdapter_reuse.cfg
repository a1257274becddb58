\* A send that fails after the first universe was sent.
SPECIFICATION Spec
CONSTANTS
    z1 = z1
    z2 = z2
    c1 = c1
    c2 = c2
    MAX_SLOTS_PER_UNIVERSE = 8
    MAX_UNIVERSES = 3
    MAX_UNIVERSE = 5
    U16_MAX = 8
    SEQUENCES = 3
    Configs <- Two
    Zones = {z1}
    Own = {z1}
    Colours = {c1, c2}
    PixelCounts = {3}
    DirectSlots = {}
PROPERTIES
    SequencePerTick
CHECK_DEADLOCK FALSE
