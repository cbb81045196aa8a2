CONSTANTS
    j1 = j1  j2 = j2  o1 = o1  o2 = o2
    Jobs = {j1, j2}
    NoJob = NoJob
    Workers = {w1}
    NoWorker = NoWorker
    Effectful = {j1, j2}
    WorkOrders = {j1}
    Deadlined = {}
    OldRows = {j1}
    Legacy <- OneLegacy
    DependsOn <- SecondAfterFirst
    MaxRetries = 1
    MaxConcurrent = 1
    MaxAttempts = 3
    OpIds = {o1}
    Steerable = {}
    Stoppable = {}
    Passing = {"approval", "lease"}
    GovernorHolds = {"trust"}
    OwnerDecisions = {"approved", "rejected"}
    Modes = {}
SPECIFICATION Spec
INVARIANTS DependenciesFirst 
PROPERTIES ImplementsEffectOnce
CHECK_DEADLOCK FALSE
