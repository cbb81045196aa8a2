CONSTANTS
    Schedules = {health}
    Registrable = {health}
    Processes = {p1, p2}
    Survivors = {p1}
    Tokens = {t1, t2}
    NoToken = NoToken
    RunLease = 2
    Interval = 2
    BaseBackoff = 1
    MaxBackoff = 2
    MaxPerTick = 2
    Horizon = 4
    MaxWait = 1
SPECIFICATION SchedulerFairSpec
INVARIANTS
    OpenAttemptIsLeased
PROPERTIES
    LeaseNotStolen
    LateCannotAdvance
    CadenceHeld
    FailureCountedOnce
    AttemptResolved
