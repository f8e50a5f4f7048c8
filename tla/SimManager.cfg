SPECIFICATION FairSpec
CONSTANTS
    Calls = {c1, c2}
    NoCall = NoCall
    Mock = FALSE
    WaitForFinalizer = TRUE
    Warmup = 2
    MaxBootAttempts = 2
INVARIANTS
    AnswerMatchesEffect
    SceneGateHolds
PROPERTIES
    ImplementsMarshalledCalls
    CallsReturn
    StopEndsMainLoop
    SceneBecomesReady
