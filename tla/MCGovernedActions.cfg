SPECIFICATION Spec
SYMMETRY WorkerSymmetry
CONSTANTS
    a1 = a1  w1 = w1  w2 = w2
    Actions = {a1}
    Grantable = {a1}
    GateKeys <- MCGateKeys
    ClockSkew = 1
    Owners = {w1, w2}
    NoOwner = NoOwner
    GateMenu <- MCGateMenu
    ReceiptKeys = {"acceptance", "verification"}
    Evidence <- MCEvidence
    NoReceipt = NoReceipt
    LeaseSeconds = 1
    RetrySeconds = 1
    ObservationWindow = 2
    MaxObservations = 1
    Horizon = 3
    MaxWait = 1
    Requests <- MCRequests
    NoRequest = NoRequest
    LedgerSkew = 1
    MaxCrashes = 1
    EnabledTools <- MCEnabled
    Survivors = {}
    NoAction = NoAction
    NoGate = NoGate
INVARIANTS
    OnePut
    AcceptedIsTrue
    JournalStaysValid
    PerformedAtMostOnce
    ProjectionTruthful
PROPERTIES
    ImplementsOneMutation
