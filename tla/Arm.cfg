SPECIFICATION FairSpec
CONSTANTS
    m1 = m1
    m2 = m2
    s1 = s1
    Moves = {m1, m2}
    Single = {m2}
    Stops = {s1}
    NoMove = NoMove
    Paths <- SomePaths
    Reach = 3
    MaxStep = 1
    Loose = 1
    Window = 2
    StillSteps = 2
    ProgressSteps = 1
    MaxStalls = 2
    MaxTogether = 2
    MaxIntrusions = 1
INVARIANTS
    EndedMovesLeaveNothing
    ReportsAreEarned
PROPERTIES
    MovesEnd
