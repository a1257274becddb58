\* Every interleaving of a producer and two render loops, errors and aborts:
\* a1 is healthy, a2 may hang in its connect or in a render for ever.
SPECIFICATION Spec
CONSTANTS
    a1 = a1
    a2 = a2
    Adapters <- MCAdapters
    Healthy = {a1}
    Policy <- MCPolicy
    Period <- MCPeriod
    Slack = 1
    MaxFrames = 3
INVARIANTS
    TypeOK
    DeadlineWindow
    DeviceProtocol
    FramePinnedOnlyWhileRendering
PROPERTIES
    TickSpacing
    Freshness
    KeepsRendering
    ImplementsLatestFrame
