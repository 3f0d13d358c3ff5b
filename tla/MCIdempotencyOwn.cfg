SPECIFICATION Spec
CONSTANTS
    Requests = {r1, r2}
    Keys = {k1}
    NoKey = NoKey
    BadKey = BadKey
    Bodies = {b1, b2, bx}
    ValidBodies = {b1, b2}
    None = None
    Faults = {}
    MaxLosses = 1
    MaxUnacked = 0
SYMMETRY RequestSymmetry
PROPERTY CompleteOnlyOverwritesOwn
