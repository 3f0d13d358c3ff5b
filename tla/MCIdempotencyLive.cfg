SPECIFICATION FairSpec
CONSTANTS
    Requests = {r1, r2}
    Keys = {k1}
    NoKey = NoKey
    BadKey = BadKey
    Bodies = {b1, b2, bx}
    ValidBodies = {b1, b2}
    None = None
    Faults = {"cancel", "crash", "redis", "queue", "panic"}
    MaxLosses = 2
    MaxUnacked = 1
PROPERTIES EveryRequestEnds ReservationEnds
