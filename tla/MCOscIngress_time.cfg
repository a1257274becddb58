\* Datagrams alone, as the run command feeds the builder: no setter by hand.
SPECIFICATION Spec
CONSTANTS
    ONE = 10
    INFINITY = 2201
    FINE = 4
    NaN = NaN
    NoFloat = NoFloat
    Packets <- MCPackets
    Size <- MCSize
    SetterValues = {}
    MaxCalls = 1
INVARIANTS
    FramesAreTimed
