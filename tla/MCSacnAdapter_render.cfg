\* Every order of calls, failures at every send, for accepted and refused
\* configurations; send_slots is called from outside as well, with buffers
\* that do not fit.
SPECIFICATION Spec
CONSTANTS
    z1 = z1
    z2 = z2
    c1 = c1
    c2 = c2
    MAX_SLOTS_PER_UNIVERSE = 8
    MAX_UNIVERSES = 3
    MAX_UNIVERSE = 5
    U16_MAX = 8
    SEQUENCES = 3
    Configs <- AllConfigs
    Zones = {z1}
    Own = {z1}
    Colours = {c1, c2}
    PixelCounts = {0, 3, 7}
    DirectSlots <- BadSlots
INVARIANTS
    TypeOK
    SequenceAccounted
    OneTickUnlessTorn
    RenderFailsOnlyAtTheSocket
PROPERTIES
    ConsecutiveUnlessTorn
CHECK_DEADLOCK FALSE
