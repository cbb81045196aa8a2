SPECIFICATION FairSpec
CONSTANTS
    t1 = t1  t2 = t2  t3 = t3  e1 = e1  e2 = e2  e3 = e3  e4 = e4  A = A  B = B
    Turns = {t1, t2}
    Contacts = {A, B}
    Envelopes = {e1, e2}
    Env <- Import
    NoSource = NoSource
    NotDrafted = NotDrafted
    OpIds = {o1}
    NotUsed = NotUsed
    Selections <- OneOrTwo
    Claimers = {}
    Embedders = {v1, v2}
    Survivors = {v1}
    Idle = Idle
    NoClaim = NoClaim
    Modes = {"correct", "inherit", "restate"}
INVARIANTS
    ProjectedInFull
PROPERTIES
    VectorsSettle
CHECK_DEADLOCK FALSE
