SPECIFICATION Spec
CONSTANTS
    a = a
    b = b
    Bodies <- MCBodies
    Callers = {p1, p2}
    Keys = {k1}
    Contents = {a, b}
    Limit = 2
    MaxEntries = 2
    MaxRequests = 3
    MaxUpsets = 1
    MaxSlides = 1
    NoKey = NoKey
SYMMETRY MCSymmetry
INVARIANTS  OneMessagePerKey RateBounded
CHECK_DEADLOCK FALSE
