SPECIFICATION FairSpec
CONSTANTS
    GVR = {g}
    Name = {a}
    Worker = {v, w}
    Caller = {c}
    Handler = {h}
    NoHandler = NoHandler
    NoKey = NoKey
    QueueMaxRetries = 1
    Cancellable = TRUE
    Relists = TRUE
    MaxCalls = 2
    MaxGeneration = 2
    MaxChanges = 2
INVARIANTS TypeOK OneReconcilePerKey HandlerBeforeEvents RegistryConsistent
PROPERTIES EventsReconciled CallsReturn WorkersDrain
CHECK_DEADLOCK FALSE
