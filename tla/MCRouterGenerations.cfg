SPECIFICATION FairSpec
CONSTANTS
    Requests = {r1, r2}
    Admins = {a1}
    Shutdown = Shutdown
    NoTask = NoTask
    MaxGen = 2
INVARIANTS
    ClosedExactlyOnce
    ReloadReplacesOnlyStale
PROPERTIES
    ImplementsLifecycle
    ShutdownEnds
    RequestAnswered
    RetiredIsClosed
