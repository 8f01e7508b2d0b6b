SPECIFICATION Spec
CONSTANTS
    Files <- ProjectFiles
    Views <- ProjectViews
    Generated <- TemplOutput
    OldDirs <- ProjectDirs
    NewDirs <- AddedDirs
    Ignores <- ProjectIgnores
    HiddenNames = {".env", ".git"}
    TemplNames = {"page_templ.go"}
    BackupNames = {}
    WatchedNames = {"page.templ", "api.go", "page_templ.go", ".env"}
    Pages = {p1}
    Boots = {b1, b2, b3, b4}
    MaxSaves = 1
    QueueLimit = 2
    None = None
    k1 = k1
    k2 = k2
    Commands = {k1, k2}
    KindsRun <- FivePairs
    Scenes <- FourScenes
    Hosts = {"localhost", "db.example.com"}
    Loopback = {"localhost"}
    AppPort = 1
    VitePort = 3
    ScanLimit = 2
    MaxPort = 4
    MaxVersion = 1
    NoHost = NoHost
    NoPort = NoPort
    Gone = Gone
    Torn = Torn
    g1 = g1
    g2 = g2
    Gens = {g1, g2}
    Orders <- OrderPairs
    Grounds <- ThreeGrounds
    Tree <- OverlayTree
    Rank <- PathRank
    MaxSecond = 1
    MaxEdits = 1
    Absent = Absent
    Unset = Unset
    a1 = a1
    a2 = a2
    Askers = {a1, a2}
    Installs <- FourInstalls
    CheckInterval = 1
    MaxRelease = 2
    MaxHour = 3
    NoEntry = NoEntry
PROPERTIES EverySaveRuns
CHECK_DEADLOCK FALSE
