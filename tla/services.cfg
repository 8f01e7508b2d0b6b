\* The scheduler over two days with an overlapping interval task and a daily one;
\* a bucket with a burst of three at two tokens per window of three, over three
\* windows; three calls of Remember in two processes; two operators and three migrations;
\* two tabs, two tokens and two messages; two requests and two sessions in Redis over
\* three units; two sessions at the second factor; a message with up to three recipients.
SPECIFICATION Spec
CONSTANTS
    NTasks = 2
    Every <- TwoEvery
    At <- OnePinned
    AllowOverlap = {1}
    DayLength = 3
    ScheduleEnd = 7
    MaxSpawned = 2
    Keys = {k1, k2}
    Limit = 2
    Window = 3
    Burst = 3
    LimiterEnd = 9
    NoBucket = NoBucket
    a1 = a1
    a2 = a2
    a3 = a3
    p1 = p1
    p2 = p2
    Procs = {p1, p2}
    Calls = {a1, a2, a3}
    ProcOf <- TwoProcs
    TTL = 1
    MaxCompute = 1
    CacheEnd = 3
    MaxVersion = 1
    Nothing = Nothing
    NMigrations = 3
    Irreversible = {3}
    Operators = {a1, a2}
    MaxBatch = 2
    Tabs = {a1, a2}
    Handlers <- FourHandlers
    MaxTokens = 2
    MaxFlashes = 2
    MaxKeys = 2
    NoCookie = NoCookie
    Visits = {a1, a2}
    Lifetime = 2
    Minute = 0
    Hour = 1
    MaxIds = 2
    MaxVisit = 1
    RedisEnd = 3
    NoKey = NoKey
    Sessions = {a1, a2}
    Throttle = k1
    CodesEach = 1
    MaxSecrets = 2
    MaxEnrolments = 2
    MaxVaultKeys = 2
    Addresses = {r1, r2, r3, r4}
    Malformed = {r4}
    MailAttempts = 3
    MaxUnsure = 4
SYMMETRY Alike
VIEW Relevant
INVARIANTS TypeOK NoSecondCopy NeverMoreThanRefilled StaleForOneLifetime SchemaIsRecorded FormsHold FlashOnce EverySessionListed CodeSpentOnce MailWhole
PROPERTIES OnSchedule ComputedOnce RollbackIsExact
CHECK_DEADLOCK FALSE
