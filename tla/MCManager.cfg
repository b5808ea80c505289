SPECIFICATION Spec
CONSTANTS
    b = b
    d = d
    c = c
    Queue <- MCQueue
    Source <- MCSource
    Loads <- MCLoads
    MaxAttempts = 2
    PostMax = 2
    NoSet = NoSet
INVARIANTS
    TypeOK
    ServedCurrent
    SegmentsOnce
    ReadyIsHeld
    MemoryRefusalStands
PROPERTY
    Lands
