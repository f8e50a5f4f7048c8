SPECIFICATION FairSpec
CONSTANTS
    Starts = {s1, s2}
    NoRun = NoRun
    MaxErrors = 2
    Window = 2
    MaxLoops = 2
    MaxRecords = 3
PROPERTIES
    SecondStartIsNoOp
