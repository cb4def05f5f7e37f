SPECIFICATION FairSpec
CONSTANTS
    Caller = {rg1}
    Kind = {"kind"}
    KindOf <- OneKind
    GVR <- GVRs
    Contents = {"v1", "v2", "bad"}
    Verified = {"v1", "v2"}
    Handler = {"v1", "v2"}
    NoHandler = "none"
    MaxCalls = 1
    AllowCRDDeletion = TRUE
    Faults = {"setManaged", "getCRD", "writeCRD", "waitForReady", "deleteCRD", "setUnmanaged", "patchStatus", "crash"}
    MaxFaults = 1
    MaxCreations = 2
    MaxEdits = 1
INVARIANTS TypeOK CRDHasOwner
PROPERTIES ActiveIsEarned DeletionCompletes StatusReported
CHECK_DEADLOCK FALSE
