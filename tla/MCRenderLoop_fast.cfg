\* A period shorter than the lateness the interval forgives.
SPECIFICATION SafetySpec
CONSTANTS
    a1 = a1
    a2 = a2
    Adapters <- MCAdapters
    Healthy <- MCAdapters
    Policy <- MCPolicy
    Period <- FastPeriod
    Slack = 2
    MaxFrames = 1
PROPERTIES
    NoStampede
