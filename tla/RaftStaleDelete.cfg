SPECIFICATION StorageSafety
CONSTANTS
    Nodes = {n1, n2}
    Keys = {k1}
    Vals = {1, 2, 3}
    Absent = 0
    Empty = Empty
    NoSnap = NoSnap
    Ops = {"PUT", "CAS", "CAS_CREATE"}
    MaxLog = 4
    MaxSnapshots = 0
    MaxRestarts = 0
    Calls = {c1, c2}
    Key = k1
    Created = 2
    NoCmd = NoCmd
    MaxMutateRetries = 1
    MaxElections = 0
INVARIANT MissesAreCurrent
CHECK_DEADLOCK FALSE
