SPECIFICATION SafetySpec

CONSTANTS
    vpc = vpc
    subnet = subnet
    pool = pool
    name = name
    vpcID = vpcID
    subnetID = subnetID
    vpcReady = vpcReady
    subnetReady = subnetReady
    full = full
    small = small
    Resource = {vpc, subnet}
    Expr = {name, vpcID, vpcReady, subnetReady}
    Refs <- TwoRefs
    Fields <- TwoFields
    ReadyWhen <- TwoReadyWhen
    StatusExpr = {}
    N = 2
    Order <- TwoOrder
    SpecValue = {full, small}
    IncludeWhen <- TwoInclude
    QueueMaxRetries = 1
    Faults = {"getInstance", "getExecutionClient", "setManaged", "getResource", "createResource", "createNotFound", "deleteResource", "setUnmanaged", "patchStatus", "touch", "crash"}
    MaxFaults = 2
    MaxEdits = 1
    Flapping = TRUE
    ExternalDeletion = FALSE

INVARIANT TypeOK
INVARIANT DependenciesOutlive
INVARIANT NoOrphans
PROPERTY ImplementsLifecycle
PROPERTY CreatedInOrder
PROPERTY ActiveMeansComplete

CHECK_DEADLOCK FALSE
