SPECIFICATION FairSpec
CONSTANTS
    a1 = a1  w1 = w1  w2 = w2
    Actions = {a1}
    Grantable = {a1}
    GateKeys <- MCGateKeys
    ClockSkew = 0
    Owners = {w1, w2}
    NoOwner = NoOwner
    GateMenu <- MCShortGate
    ReceiptKeys = {"acceptance", "verification"}
    Evidence <- MCEvidence
    NoReceipt = NoReceipt
    LeaseSeconds = 1
    RetrySeconds = 1
    ObservationWindow = 2
    MaxObservations = 2
    Horizon = 4
    MaxWait = 0
    Requests <- MCRequests
    NoRequest = NoRequest
    LedgerSkew = 0
    MaxCrashes = 0
    EnabledTools <- MCEnabled
    Survivors = {w1}
    NoAction = NoAction
    NoGate = NoGate
PROPERTIES
    DispatchResolved
