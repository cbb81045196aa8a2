SPECIFICATION Spec
CONSTANTS
    t1 = t1  t2 = t2  t3 = t3  e1 = e1  e2 = e2  e3 = e3  e4 = e4  A = A  B = B
    Turns = {t1, t2, t3}
    Contacts = {A, B}
    Envelopes = {e1, e2, e3, e4}
    Env <- Copies
    NoSource = NoSource
    NotDrafted = NotDrafted
    OpIds = {o1}
    NotUsed = NotUsed
    Selections <- OneOrTwo
    Claimers = {c1}
    Embedders = {}
    Survivors = {}
    Idle = Idle
    NoClaim = NoClaim
    Modes = {"correct", "inherit", "restate"}
INVARIANTS
    ErasedStaysErased
    AnswersCiteLiving
    EffectsMatchRecord
    ClaimsGrounded

    
CHECK_DEADLOCK FALSE
