SPECIFICATION FairSpec

CONSTANTS
    vpc = vpc
    subnet = subnet
    pool = pool
    name = name
    vpcID = vpcID
    subnetID = subnetID
    vpcReady = vpcReady
    subnetReady = subnetReady
    full = full
    small = small
    Resource = {vpc, subnet}
    Expr = {name, vpcID, vpcReady, subnetReady}
    Refs <- TwoRefs
    Fields <- TwoFields
    ReadyWhen <- TwoReadyWhen
    StatusExpr = {vpcID}
    N = 2
    Order <- TwoOrder
    SpecValue = {full}
    IncludeWhen <- OneInclude
    QueueMaxRetries = 1
    Faults = {"getInstance", "getExecutionClient", "setManaged", "getResource", "createResource", "createNotFound", "deleteResource", "setUnmanaged", "patchStatus", "touch", "crash"}
    MaxFaults = 1
    MaxEdits = 0
    Flapping = FALSE
    ExternalDeletion = FALSE

PROPERTY DeletionTerminates
PROPERTY BecomesActive
PROPERTY ImplementsProgress

CHECK_DEADLOCK FALSE
