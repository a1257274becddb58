\* Every datagram in every order, with refused datagrams and the setters
\* that no message reaches in between.
SPECIFICATION Spec
CONSTANTS
    ONE = 10
    INFINITY = 2201
    FINE = 4
    NaN = NaN
    NoFloat = NoFloat
    Packets <- MCPackets
    Size <- MCSize
    SetterValues <- MCSetterValues
    MaxCalls = 2
INVARIANTS
    FieldsInRange
PROPERTIES
    LastWriterWins
    RawDumpAsApplied
