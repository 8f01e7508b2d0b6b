\* Two jobs for one token, no operator; the clock is bounded high enough never
\* to stop a reservation or a backoff from running out.
SPECIFICATION FairSpec
CONSTANTS
    None = None
    w1 = w1
    w2 = w2
    s1 = s1
    s2 = s2
    mail = mail
    report = report
    default = default
    Workers = {w1}
    Slots = {s1}
    WorkerOf <- OneSlot
    Names = {mail}
    Registry <- AllKnown
    QueueNames = {default}
    QueueOf <- OneQueue
    Drains <- DrainDefault
    MaxAttemptsOf <- TwoAttempts
    DefaultMaxAttempts = 1
    BackoffUnit = 1
    BackoffCap = 1
    OwnBackoff <- MailBackoff
    Timeout = 1
    Operators = {}
    MaxId = 2
    MaxDelay = 0
    MaxTime = 16
    MaxFaults = 2
    MaxFails = 4
    Overrun = FALSE
PROPERTIES EventuallySettled ShutdownCompletes
