SPECIFICATION SessionSpec
CONSTANTS
    Tasks = {t1, t2}
    Requests = {"connect", "visitor_msg", "agent_join", "agent_msg", "post", "close", "visitor_close", "sweep", "assign", "take", "release"}
    NoRow = NoRow
    IdleTimeout = 0
    MaxStarts = 3
    MaxWork = 1
    MaxFaults = 1
INVARIANTS CountNotAhead
PROPERTIES LateSendsRejected UpdateTakesEffect AbandonedIsClosed
CHECK_DEADLOCK FALSE
