SPECIFICATION Spec
CONSTANTS
    Nodes = {n1, n2}
    Keys = {k1}
    Vals = {v1,v2}
    Absent = Absent
    Empty = Empty
    NoSnap = NoSnap
    Ops = {"CAS"}
    MaxLog = 3
    MaxSnapshots = 0
    MaxRestarts = 1
INVARIANTS CaughtUpAgree
CHECK_DEADLOCK FALSE
