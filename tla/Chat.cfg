SPECIFICATION Spec
CONSTANTS
    Configurations = {{"room"}, {"router"}}
    Conns = {c1, c2}
    Msgs = {m1}
    NoConn = NoConn
    Takeover = Takeover
    Answer = Answer
    Buffer = 2
    HistoryLimit = 2
    MaxFrames = 1
    Servers = {v1}
    Agents = {a1, a2}
    Sessions = {s1, s2}
    NoOne = NoOne
    Leaving = {a1}
    Responsive = {a2}
    MaxSockets = 1
    MaxRestarts = 1
INVARIANTS ReplayComplete InOnePlace PendingHasAgent
PROPERTIES DisplacedIsTold DisplacedEnds TakenUp
CHECK_DEADLOCK FALSE
