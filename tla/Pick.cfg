SPECIFICATION PickFairSpec
CONSTANTS
    b1 = b1
    b2 = b2
    b3 = b3
    red = red
    blue = blue
    Blocks = {b1, b2, b3}
    Colors = {red, blue}
    Color <- TwoColors
    Fires <- BothOnBlue
    Looks = {look1, look2}
    Indices = {0, 1}
    NoBlock = NoBlock
    Slots = 2
    MaxPasses = 3
    MaxAttempts = 2
INVARIANTS
    SlotsSuffice
    SeenBlocksAreReported
    IgnoreFitsTheMotion
    JawIsAccountedFor
PROPERTIES
    HandledIsFinal
    LoopEnds
