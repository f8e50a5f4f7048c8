SPECIFICATION SensorFairSpec
CONSTANTS
    Starts = {s1}
    NoRun = NoRun
    MaxErrors = 2
    Window = 2
    MaxLoops = 3
    MaxRecords = 3
    Pollers = {p1, p2, p3}
    Capturing = {p1, p2}
INVARIANTS
    CapturesAreComplete
PROPERTIES
    RecordsAreEmitted
