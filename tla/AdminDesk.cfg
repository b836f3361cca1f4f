SPECIFICATION FairSpec
CONSTANTS
    Operators = {o}
    Env = Env
    Matches = {m1, m2}
    Requests = {r1, r2}
    Asked = {"requeueAll", "requeue", "discard", "moderate", "review", "operators",
             "select", "config", "transition"}
    MaxAsks = 2
    MaxDeaths = 3
    MaxNow = 2
    NoRole = NoRole
INVARIANTS
    NothingLostAlone
PROPERTIES
    OnlyNamedColumnsChange
    RequeueRuns
CHECK_DEADLOCK FALSE
