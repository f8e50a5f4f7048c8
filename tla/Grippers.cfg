SPECIFICATION GripperSpec
CONSTANTS
    Callers = {c1, c2}
    None = None
    Closed = 3
    Halfway = 2
    Contacts <- OnTheWay
    Travel = 1
    Eps = 0
    Tol = 0
    HoldingSteps = 2
    b1 = b1
    b2 = b2
    Boxes = {b1, b2}
    NoBox = NoBox
    Loads = {0, 3}
    Limit = 1
    Steps = 2
    MaxCalls = 2
    MaxShocks = 1
INVARIANTS
    HoldsAreKept
    GrabsAreWatched
    HoldIsAccountedFor
PROPERTIES
    AnswersAreEarned
    CallsEnd
    ReleasedForItsOwnLoad
    OverloadIsReleased
