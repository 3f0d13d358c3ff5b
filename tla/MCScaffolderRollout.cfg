SPECIFICATION Spec
CONSTANTS
    Workers = {w1, w2}
    Tasks = {t1, t2}
    Names = {n1}
    Requests = {q1, q2}
    None = None
    Ttl = 1
    Horizon = 1
    MaxReceives = 2
    BatchSize = 1
    MaxDisruptions = 0
    Faults = {"aws"}
SYMMETRY ScaffolderSymmetry
INVARIANTS DeletedMeansReported OneHolderPerName NoSelfConflict
