SPECIFICATION FairSpec
CONSTANTS
    Boxes = 3
    MaxAttempts = 2
    MaxTeleports = 2
INVARIANTS
    RunsAreOrderly
PROPERTIES
    ToldIsKept
    NoMotionAfterStop
    RunsEnd
