SPECIFICATION ReplicationSpec
CONSTANTS
    Configurations = {{"raft"}, {"gossip"}}
    Nodes = {n1, n2}
    Keys = {k1}
    Vals = {v1, v2}
    Absent = NoRow
    Empty = Empty
    NoSnap = NoSnap
    Ops = {"PUT", "DELETE", "BATCH"}
    MaxLog = 3
    MaxSnapshots = 1
    MaxRestarts = 1
    Peers = {1, 2}
    LwwKeys = {1, 2}
    FlagKeys = {3, 4}
    Writers = {1, 2}
    Payloads = {1}
    MaxDeltas = 1
    Retention = 1
    Unreached = {}
    Syncers = {1}
    MaxWrites = 2
    MaxPending = 1
    MaxWall = 2
    MaxCtr = 0
    MaxReboots = 1
    MaxSweeps = 1
INVARIANTS CaughtUpAgree SnapshotsRecoverable HighWaterCovers ClockAhead SameStampSameWriteUntilRestart
CHECK_DEADLOCK FALSE
