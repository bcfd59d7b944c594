\* One streaming request, three chunks, room for two envelopes.
SPECIFICATION ReadingSpec
CONSTANTS
    j1 = j1  j2 = j2  j3 = j3
    m1 = m1  w1 = w1  p1 = p1  p2 = p2
    NoWorker = NoWorker
    NoJob = NoJob
    Jobs = {j1}
    Models = {m1}
    Workers = {w1}
    Polls = {p1}
    ModelOf <- OneModel
    PollWorker <- SameWorker
    PollModel <- SameModel
    Streaming = {j1}
    ToolMode = {}
    Leaving = {j1}
    MaxQueueDepth = 1
    MaxConcurrent = 1
    OutCap = 2
    MaxChunks = 3
INVARIANTS
    AnsweredIsReleased
    AnswerHasCause
    InOrder
    DoneIsComplete
    SilentOnlyIf
PROPERTIES
    EveryRequestAnswered
    PermitComesBack
