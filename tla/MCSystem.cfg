\* Two slugs with a job each share the one slot of the worker.
SPECIFICATION SystemSpec
CONSTANTS
    j1 = j1  j2 = j2  a = a  b = b  w1 = w1  pa = pa  pb = pb
    NoWorker = NoWorker
    NoJob = NoJob
    NoPoll = NoPoll
    Jobs = {j1, j2}
    Models = {a, b}
    Workers = {w1}
    Polls = {pa, pb}
    ModelOf <- OfSlug
    PollWorker <- SameWorker
    PollModel <- PollOfSlug
    Streaming = {j1}
    ToolMode = {j1}
    Leaving = {j1, j2}
    MaxQueueDepth = 1
    MaxConcurrent = 1
    Slots = 1
    OutCap = 1
    MaxChunks = 1
    MaxMishaps = 1
INVARIANTS
    AssumptionsMet
    EndToEnd
    WaitsOnlyForGhosts

