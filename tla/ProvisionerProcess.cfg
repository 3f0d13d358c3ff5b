SPECIFICATION ProcessFairSpec
CONSTANTS
    Consumers = {c1, c2}
    Messages = {m1, m2}
    None = None
    BatchSize = 2
    MaxLapses = 1
    MaxDisruptions = 2
    Faults = {"aws"}
    Collector = TRUE
INVARIANTS
    RepeatsNeedRedelivery
    CountersBalance
    ProcessTypeOK
    StoppedIsFlushed
PROPERTIES KeepsDelivery EveryMessageDeleted
