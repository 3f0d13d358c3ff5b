SPECIFICATION Spec
CONSTANTS
    Requests = {r1, r2, r3}
    Keys = {k1}
    NoKey = NoKey
    BadKey = BadKey
    Bodies = {b1, bx}
    ValidBodies = {b1}
    None = None
    Faults = {"cancel", "crash", "redis", "queue", "panic"}
    MaxLosses = 2
    MaxUnacked = 1
SYMMETRY RequestSymmetry
INVARIANTS TypeOK DuplicateBound OneHandlerPerKey InFlightHasOwner AcceptedMeansPublished
PROPERTIES CompletedIsFinal KeepsPromise
