SPECIFICATION StoreSpec
CONSTANTS
    a1 = a1  a2 = a2  o1 = o1  o2 = o2
    Actions = {a1}
    Grantable = {a1}
    GateKeys <- MCGateKeys
    ClockSkew = 1
    Owners = {o1, o2}
    NoOwner = NoOwner
    GateMenu <- MCGateMenu
    ReceiptKeys = {"acceptance", "verification"}
    Evidence = {"completed"}
    NoReceipt = NoReceipt
    LeaseSeconds = 2
    RetrySeconds = 1
    ObservationWindow = 3
    MaxObservations = 2
    Horizon = 6
    MaxWait = 1
INVARIANTS
    AuthoritySpentOnce
    ContractBindsConsumedGate
    FailureEvident
    ObservationBounded
PROPERTIES
    TerminalFrozen
    LiveLeaseNotStolen
    DispatchNearLiveGate
