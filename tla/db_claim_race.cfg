\* Two workers race through Claim.
SPECIFICATION Spec
CONSTANTS
    None = None
    w1 = w1
    w2 = w2
    s1 = s1
    s2 = s2
    mail = mail
    report = report
    default = default
    Workers = {w1, w2}
    Slots = {s1, s2}
    WorkerOf <- OneEach
    Names = {mail}
    Registry <- AllKnown
    QueueNames = {default}
    QueueOf <- OneQueue
    Drains <- DrainDefault
    MaxAttemptsOf <- TwoAttempts
    DefaultMaxAttempts = 1
    BackoffUnit = 1
    BackoffCap = 1
    OwnBackoff <- MailBackoff
    Timeout = 1
    Operators = {}
    MaxId = 1
    MaxDelay = 0
    MaxTime = 3
    MaxFaults = 0
    MaxFails = 2
    Overrun = FALSE
PROPERTY EveryClaimCounts
