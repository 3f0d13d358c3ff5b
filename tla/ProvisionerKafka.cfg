SPECIFICATION FairSpec
CONSTANTS
    Consumers = {c1, c2, c3}
    None = None
    Length = 3
    MaxDisruptions = 3
INVARIANTS
    CommittedMeansHandled
PROPERTIES KeepsDelivery EveryMessageHandled
