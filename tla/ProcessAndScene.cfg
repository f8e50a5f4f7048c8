SPECIFICATION SideSpec
CONSTANTS
    f1 = f1
    frame1 = frame1
    scenery1 = scenery1
    c2 = c2
    Finalizers = {f1}
    Calls = {frame1, scenery1, c1, c2}
    Closer = c1
    FrameCall <- OneFrameCall
    SceneryCall <- OneSceneryCall
    Sources = {s1, s2}
    NoCall = NoCall
    Mock = FALSE
    WaitForFinalizer = TRUE
    Warmup = 1
    MaxBootAttempts = 1
INVARIANTS
    SceneryPrecedesSteps
PROPERTIES
    FinalizerFinalizes
    ProcessEnds
