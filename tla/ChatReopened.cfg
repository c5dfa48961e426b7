SPECIFICATION SessionSpec
CONSTANTS
    Tasks = {t1, t2}
    Requests = {"connect", "visitor_msg", "close"}
    NoRow = NoRow
    IdleTimeout = 0
    MaxStarts = 3
    MaxWork = 1
    MaxFaults = 0
PROPERTY ClosedIsTerminal
CHECK_DEADLOCK FALSE
