CONSTANTS
    j1 = j1  j2 = j2  o1 = o1  o2 = o2
    Jobs = {j1}
    NoJob = NoJob
    Workers = {w1}
    NoWorker = NoWorker
    Effectful = {j1}
    WorkOrders = {}
    Deadlined = {}
    OldRows = {}
    Legacy <- NoLegacy
    DependsOn <- NoDependencies
    MaxRetries = 2
    MaxConcurrent = 1
    MaxAttempts = 2
    OpIds = {o1}
    Steerable = {}
    Stoppable = {}
    Passing = {}
    GovernorHolds = {}
    OwnerDecisions = {}
    Modes = {}
SPECIFICATION Spec
PROPERTIES NegativeProofKept
CHECK_DEADLOCK FALSE
