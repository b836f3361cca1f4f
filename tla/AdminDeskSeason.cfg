SPECIFICATION Spec
CONSTANTS
    Operators = {o}
    Env = Env
    Matches = {m1, m2}
    Requests = {r1, r2, r3}
    Asked = {"transition"}
    MaxAsks = 3
    MaxDeaths = 0
    MaxNow = 2
    NoRole = NoRole
PROPERTIES
    SeasonOnlyMovesOn
CHECK_DEADLOCK FALSE
