\* Both commands from start to end: every interleaving of the main task, the
\* render task, datagrams, refused datagrams, the network and the interrupt.
SPECIFICATION Spec
CONSTANTS
    MAX_SLOTS_PER_UNIVERSE = 8
    MAX_UNIVERSES = 3
    MAX_UNIVERSE = 5
    U16_MAX = 8
    Commands = {"run", "monitor"}
    Pixels = {0, 3, 5, 7}
    StartUniverses = {1, 5}
    Period = 1
    Slack = 0
    SEQUENCES = 2
    TICKS = 2
    MaxFrames = 2
    MaxQueue = 2
INVARIANTS
    TypeOK
    OnlyIoErrors
    TickStamps
PROPERTIES
    ImplementsStripShow
    InterruptEnds
    StripCatchesUp
    KeepsSending
CHECK_DEADLOCK FALSE
