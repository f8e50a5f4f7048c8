SPECIFICATION Spec
CONSTANTS
    arm = arm
    jaw = jaw
    cup = cup
    Arms = {arm}
    Jaws = {jaw}
    Cups = {cup}
    Bases = {base}
    Cameras = {camera}
    ArmOf <- MCArmOf
    Homed = {arm}
    Poses = {p1}
    NoPose = NoPose
    MaxBuilds = 4
    MaxResets = 1
    MaxFaults = 2
CHECK_DEADLOCK FALSE
INVARIANTS
    SettingsSurviveResets
    HandlesAgree
    RebuildsFindTheirNames
