\* The code's own limits, around the last universe and the largest strip.
SPECIFICATION Spec
CONSTANTS
    MAX_SLOTS_PER_UNIVERSE = 512
    MAX_UNIVERSES = 64
    MAX_UNIVERSE = 63999
    U16_MAX = 65535
    MaxPixels = 11060
    Starts = {1, 63936, 63937, 65500}
    Priorities = {100}
INVARIANTS
    EncodeNeverRejects
    HeadersAgree
CHECK_DEADLOCK FALSE
