SPECIFICATION Spec
SYMMETRY Symmetry
CONSTANTS
    b1 = b1
    b2 = b2
    x = x
    s1 = s1
    s2 = s2
    c1 = c1
    c2 = c2
    Pool = {b1, b2}
    Extra = x
    Spots = {s1, s2}
    Sizes = {1, 3}
    SpawnSize = 2
    Calls = {c1, c2}
    NoCall = NoCall
    MaxFaults = 2
PROPERTIES
    AnswersAreTheCell
