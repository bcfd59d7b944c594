\* Conversations of two turns with three chunks of text between them.
SPECIFICATION Spec
CONSTANTS
    f = f  g = g
    Names = {f, g}
    NoName = NoName
    Requests <- SomeRequests
    Fragments <- AllFragments
    MaxChunks = 3
    MaxTurns = 2
CHECK_DEADLOCK FALSE
INVARIANTS
    SameAnswer
    WellFormedIsRead
    CalledOrShown
    HistoryRoundTrip
    ModeIsPrompted
    ExampleFits
