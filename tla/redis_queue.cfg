\* Two workers with a token each; claims may outlive their reservation; the
\* failed list keeps one entry.
SPECIFICATION Spec
CONSTANTS
    None = None
    w1 = w1
    w2 = w2
    s1 = s1
    s2 = s2
    mail = mail
    report = report
    default = default
    Workers = {w1, w2}
    Slots = {s1, s2}
    WorkerOf <- OneEach
    Names = {mail}
    Registry <- AllKnown
    QueueNames = {default}
    QueueOf <- OneQueue
    Drains <- DrainDefault
    MaxAttemptsOf <- AttemptLimit
    DefaultMaxAttempts = 1
    BackoffUnit = 1
    BackoffCap = 1
    OwnBackoff <- NoBackoff
    Timeout = 2
    Operators = {o1}
    MaxId = 2
    MaxDelay = 0
    MaxTime = 2
    MaxFaults = 1
    FailedCap = 1
    Overrun = TRUE
INVARIANTS NoOrphanRecord OneHome
PROPERTY LedgerButForLateRelease
