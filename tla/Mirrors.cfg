SPECIFICATION AllSpec
CONSTANTS
    w1 = w1
    w2 = w2
    s1 = s1
    s2 = s2
    s3 = s3
    o1 = o1
    o2 = o2
    n1 = n1
    Nil = Nil
    Window = {w1, w2}
    Workspace = {s1, s2, s3}
    Output = {o1, o2}
    WsName = {n1}
    Arrangements <- MCArrangements
    MaxChanges = 2
    MaxActions = 1
    MaxClients = 1
    BufferSize = 8
    CommitGone = FALSE
    Size = {"small", "large"}
    Buffer = {b1, b2}
    MaxOffers = 3
    MaxFrames = 3
    Session = {s1}
    CastOutput = {o1}
    CastWindow = {w1}
    NoTarget = NoTarget
    DynamicId = DynamicId
    NoSession = NoSession
    MaxStreams = 2
    MaxChannel = 3
    StartInBetween = FALSE
    Manager = {m1}
    Frame = {f1, f2}
    CopyOutput = {o1, o2}
    NoQueue = NoQueue
    NoManager = NoManager
INVARIANTS StreamsAgree ClientsSeeTruth StreamFlows CastsAreLive CopiesServed
CHECK_DEADLOCK FALSE
