SPECIFICATION ProcessFairSpec
CONSTANTS
    Requests = {r1, r2}
    None = None
    MainLog = MainLog
    Environments <- MCEnvironments
INVARIANTS
    GaugeIsInFlight
    RecordsTellTheAnswer
    CleanExitDrained
    StoreOutlivesRequests
    ProcessTypeOK
    WiredWhenServing
    ReleasedOnExit
    NothingLost
    ShutdownIsLogged
PROPERTIES
    SignalledProcessExits
    ImplementsServer
