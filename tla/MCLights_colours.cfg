\* Every three datagrams in a row, refused ones in between, for two strips.
SPECIFICATION LightsSpec
CONSTANTS
    ONE = 2
    INFINITY = 441
    FINE = 4
    NaN = NaN
    NoFloat = NoFloat
    Packets <- MCPackets
    Size <- MCSize
    SetterValues = {}
    MaxCalls = 3
    Pixels = {0, 2}
    TICKS = 3
INVARIANTS
    ColoursInRange
PROPERTIES
    BeatLightsStrip
    OnlySaidChannelsChange
