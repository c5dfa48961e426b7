SPECIFICATION GossipSpec
CONSTANTS
    Peers = {1, 2}
    LwwKeys = {1, 2}
    FlagKeys = {}
    Writers = {1}
    Payloads = {1}
    MaxDeltas = 1
    Retention = 0
    Unreached = {2}
    Syncers = {1, 2}
    MaxWrites = 2
    MaxPending = 1
    MaxWall = 1
    MaxCtr = 0
    MaxReboots = 0
    MaxSweeps = 0
PROPERTIES MissedPushesHeal
CHECK_DEADLOCK FALSE
