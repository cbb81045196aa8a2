CONSTANTS
    j1 = j1  j2 = j2  o1 = o1  o2 = o2
    Jobs = {j1}
    NoJob = NoJob
    Workers = {w1}
    NoWorker = NoWorker
    Effectful = {j1}
    WorkOrders = {}
    Deadlined = {}
    OldRows = {j1}
    Legacy <- NoLegacy
    DependsOn <- NoDependencies
    MaxRetries = 1
    MaxConcurrent = 1
    MaxAttempts = 2
    OpIds = {o1}
    Steerable = {w1}
    Stoppable = {w1}
    Passing = {"lease", "silence", "timeout", "approval"}
    GovernorHolds = {"trust"}
    OwnerDecisions = {"approved", "rejected"}
    Modes = {FALSE}
SPECIFICATION LiveSpec
PROPERTIES AttemptEnds ControlEnds DecisionLands
CHECK_DEADLOCK FALSE
