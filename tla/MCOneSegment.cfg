SPECIFICATION Spec
CONSTANTS
    b = b
    d = d
    c = c
    Queue <- MCQueue
    Source <- MCSource
    Loads <- MCShort
    MaxAttempts = 2
    PostMax = 2
    NoSet = NoSet
INVARIANT
    ServedCurrent
