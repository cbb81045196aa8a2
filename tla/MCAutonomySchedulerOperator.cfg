CONSTANTS
    Schedules = {health}
    Registrable = {health}
    Processes = {p1}
    Survivors = {}
    Tokens = {t1}
    NoToken = NoToken
    RunLease = 2
    Interval = 2
    BaseBackoff = 1
    MaxBackoff = 2
    MaxPerTick = 2
    Horizon = 3
    MaxWait = 0
SPECIFICATION SchedulerSpec
INVARIANTS
    OperatorDisableHolds
