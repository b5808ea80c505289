SPECIFICATION Spec
CONSTANTS
    ByteBits = 1
    NoCell = NoCell
    NoLane = NoLane
    DirectMax = 1
    SelectShare = 2
    Replicas = 2
    MinCap = 2
    MaxCap = 16
    SegmentRows = 2
    SumSmallN = 2
    JoinSmallTotal = 4
    JoinMinProbe = 2
    Unread = Unread
    c1 = c1
    c2 = c2
    Callers = {c1, c2}
    Names = {"s", "b", "j"}
    Scenarios <- MCScenarios
    Chunk = 2
    NoCaller = NoCaller
    NoSet = NoSet
    Nothing = NoSet
    Narrow <- MCNarrow
    BindFn <- BindOk
    InitFn <- Checked
    StoreFn <- Stores
    RejectFn <- TwoSided
    DecideFn <- DecisionOf
    RunFn <- Answers
INVARIANTS
    TypeOK
    GroupsAreNative
    PayloadsAligned
    JoinedAreNative
    GlobalIsNative
    JoinsAreNative
    ListJoinIsNative
    WidthIsStorage
    TopKIsARanking
    DecisionTrue
    RowsOnce
    ExactOneSide
    LanesInRowOrder
