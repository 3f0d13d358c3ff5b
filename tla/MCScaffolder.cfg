SPECIFICATION FairSpec
CONSTANTS
    Workers = {w1}
    Tasks = {t1, t2}
    Names = {n1}
    Requests = {q1, q2}
    None = None
    Ttl = 1
    Horizon = 1
    MaxReceives = 2
    BatchSize = 2
    MaxDisruptions = 1
    Faults = {"aws"}
INVARIANTS
    TypeOK
    HeldAsReported
PROPERTIES KeepsLeases EveryMessageSettles
