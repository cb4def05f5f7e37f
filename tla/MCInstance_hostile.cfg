SPECIFICATION SafetySpec

CONSTANTS
    vpc = vpc
    subnet = subnet
    pool = pool
    name = name
    vpcID = vpcID
    subnetID = subnetID
    vpcReady = vpcReady
    subnetReady = subnetReady
    full = full
    small = small
    Resource = {vpc, subnet, pool}
    Expr = {name, vpcID, subnetID, vpcReady}
    Refs <- ThreeRefs
    Fields <- HostileFields
    ReadyWhen <- ThreeReadyWhen
    StatusExpr = {subnetID}
    N = 3
    Order <- ThreeOrder
    SpecValue = {full, small}
    IncludeWhen <- ThreeInclude
    QueueMaxRetries = 0
    Faults = {}
    MaxFaults = 0
    MaxEdits = 0
    Flapping = TRUE
    ExternalDeletion = TRUE

PROPERTY CreatesFromObservation

CHECK_DEADLOCK FALSE
