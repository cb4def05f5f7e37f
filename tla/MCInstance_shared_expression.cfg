SPECIFICATION SafetySpec

CONSTANTS
    vpc = vpc
    subnet = subnet
    pool = pool
    name = name
    vpcID = vpcID
    subnetID = subnetID
    vpcReady = vpcReady
    subnetReady = subnetReady
    full = full
    small = small
    Resource = {vpc, subnet}
    Expr = {name, vpcID, vpcReady, subnetReady}
    Refs <- TwoRefs
    Fields <- SharedFields
    ReadyWhen <- TwoReadyWhen
    StatusExpr = {}
    N = 2
    Order <- TwoOrder
    SpecValue = {full}
    IncludeWhen <- OneInclude
    QueueMaxRetries = 1
    Faults = {}
    MaxFaults = 0
    MaxEdits = 0
    Flapping = FALSE
    ExternalDeletion = FALSE

INVARIANT NoOrphans

CHECK_DEADLOCK FALSE
