CONSTANTS
    j1 = j1  j2 = j2  o1 = o1  o2 = o2
    Jobs = {j1}
    NoJob = NoJob
    Workers = {w1}
    NoWorker = NoWorker
    Effectful = {j1}
    WorkOrders = {}
    Deadlined = {j1}
    OldRows = {}
    Legacy <- NoLegacy
    DependsOn <- NoDependencies
    MaxRetries = 1
    MaxConcurrent = 1
    MaxAttempts = 2
    OpIds = {o1, o2}
    Steerable = {w1}
    Stoppable = {w1}
    Passing = {"lease", "deadline"}
    GovernorHolds = {}
    OwnerDecisions = {"approved"}
    Modes = {FALSE}
SYMMETRY OpSymmetry
SPECIFICATION Spec
INVARIANTS NoBlindRetry PendingOnActive StopHolds OutcomeOnce AttestedIsDone NothingOpenIsPruned
PROPERTIES EndedStaysEnded
CHECK_DEADLOCK FALSE
