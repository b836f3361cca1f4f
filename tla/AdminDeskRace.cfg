SPECIFICATION Spec
CONSTANTS
    Operators = {o}
    Env = Env
    Matches = {m1, m2}
    Requests = {r1, r2}
    Asked = {"requeueAll", "requeue", "discard"}
    MaxAsks = 2
    MaxDeaths = 3
    MaxNow = 2
    NoRole = NoRole
INVARIANTS
    NothingIsRacedAway
CHECK_DEADLOCK FALSE
