----------------------------- MODULE MCInstance -----------------------------
(***************************************************************************)
(* Instances of InstanceReconciler for TLC: a small network, where a       *)
(* subnet reads a field of a vpc and a node pool reads fields of both.     *)
(***************************************************************************)
EXTENDS InstanceInvariant, InstanceRefinement, TLC

CONSTANTS vpc, subnet, pool,       \* resources
          name, vpcID, subnetID,      \* expressions in fields
          vpcReady, subnetReady,      \* readyWhen expressions
          full, small                 \* specs

\* Three resources.
ThreeRefs ==
    (name :> {}) @@ (vpcID :> {vpc}) @@ (subnetID :> {subnet})
      @@ (vpcReady :> {vpc})
ThreeReadyWhen == (vpc :> {vpcReady}) @@ (subnet :> {}) @@ (pool :> {})
ThreeOrder == <<vpc, subnet, pool>>
ThreeInclude ==
    (full :> {vpc, subnet, pool}) @@ (small :> {vpc, pool})

\* Two resources, each expression in a field of its own.
TwoFields == (vpc :> <<{name}>>) @@ (subnet :> <<{name}, {vpcID}>>)
TwoRefs ==
    (name :> {}) @@ (vpcID :> {vpc}) @@ (vpcReady :> {vpc})
      @@ (subnetReady :> {subnet})
TwoReadyWhen == (vpc :> {vpcReady}) @@ (subnet :> {subnetReady})
TwoOrder == <<vpc, subnet>>
TwoInclude == (full :> {vpc, subnet}) @@ (small :> {vpc})
OneInclude == full :> {vpc, subnet}

\* The name of the subnet is built from the name in the spec and the id of
\* the vpc: two expressions in one field.
SharedFields == (vpc :> <<{name}>>) @@ (subnet :> <<{name, vpcID}>>)

\* The same with a node pool, one of whose fields is the readiness of the vpc,
\* a text that is a readyWhen expression too.
HostileFields ==
    (vpc :> <<{name}>>) @@ (subnet :> <<{name, vpcID}>>)
      @@ (pool :> <<{vpcReady}, {subnetID}>>)
=============================================================================
