\* Three requests for a queue of one: the requeue may find it full.
SPECIFICATION Spec
CONSTANTS
    j1 = j1  j2 = j2  j3 = j3
    m1 = m1  w1 = w1  p1 = p1  p2 = p2
    NoWorker = NoWorker
    NoJob = NoJob
    Jobs = {j1, j2, j3}
    Models = {m1}
    Workers = {w1}
    Polls = {p1}
    ModelOf <- OneModel
    PollWorker <- SameWorker
    PollModel <- SameModel
    Streaming = {}
    ToolMode = {}
    Leaving = {}
    MaxQueueDepth = 1
    MaxConcurrent = 1
    OutCap = 1
    MaxChunks = 0
SYMMETRY JobSymmetry
INVARIANTS
    OneCustodian
    SilentOnlyIf
