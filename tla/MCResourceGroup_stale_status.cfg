SPECIFICATION SafetySpec
CONSTANTS
    Caller = {rg1}
    Kind = {"kind"}
    KindOf <- OneKind
    GVR <- GVRs
    Contents = {"v1", "v2", "bad"}
    Verified = {"v1", "v2"}
    Handler = {"v1", "v2"}
    NoHandler = "none"
    MaxCalls = 1
    AllowCRDDeletion = FALSE
    Faults = {}
    MaxFaults = 0
    MaxCreations = 1
    MaxEdits = 2
INVARIANT ActiveMeansServing
CHECK_DEADLOCK FALSE
