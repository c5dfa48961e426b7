SPECIFICATION Spec
CONSTANTS
    Configurations = {{"reports"}}
    RingSize = 2
    DiskRows = 2
    HasDisk = TRUE
    BatchSize = 2
    BackoffMin = 1
    BackoffMax = 4
    BackoffMult = 3
    Undecodable = {4}
    Unreadable = {3}
    MaxEvents = 5
    MaxFaults = 2
    AlertNodes = {n1}
    AlertIDs = {a1, a2}
    NoAlert = NoAlert
    Standing = {a1}
    Cooldown = 1
    MaxFires = 1
    MaxAlertEvents = 2
    ReportNodes = {n1}
    ReportIDs = {r1}
    NoReport = NoReport
    Parsable = {r1}
    QueueCap = 1
    Attempts = 1
    MaxReportEdits = 1
    MaxSendNows = 0
    MaxReportFaults = 0
    NoBuild = NoBuild
    NoSite = NoSite
    MaxCommits = 2
    MaxBuildEvents = 2
    Members <- MCMembers
    Steady = {"m3"}
    Nobody = Nobody
    MaxOutages = 2
    Codes = {c1, c2}
    Devices = {d1, d2, d3}
    NoCode = NoCode
    PairRetries = 2
    ReplicasLag = TRUE
    Watchers = {w1, w2}
    Publishers = {p1, p2}
    WatchCap = 1
PROPERTY SavedIsScheduled
CHECK_DEADLOCK FALSE
