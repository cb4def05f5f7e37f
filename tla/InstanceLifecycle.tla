------------------------- MODULE InstanceLifecycle -------------------------
(***************************************************************************)
(* What the instance controller promises about an instance and its         *)
(* sub-resources, without passes, queues, retries or stale reads: objects  *)
(* appear after the objects they depend on and under the protection of the *)
(* finalizer, they go away one at a time in the opposite order, and the    *)
(* finalizer goes last.  InstanceReconciler is shown to implement it in    *)
(* InstanceRefinement.                                                     *)
(***************************************************************************)

CONSTANTS
    Resource,     \* the resources of the ResourceGroup
    Dependencies  \* Dependencies[r]: the resources r depends on

VARIABLES
    instance,  \* "absent", "live" or "deleting"
    managed,   \* does kro protect the instance from removal?
    phase,     \* resource -> "absent", "live" or "terminating"
    abandoned  \* nothing is done for the instance until it changes again

vars == <<instance, managed, phase, abandoned>>

Init ==
    /\ instance = "absent"
    /\ managed = FALSE
    /\ phase = [r \in Resource |-> "absent"]
    /\ abandoned = FALSE

NoneTerminating == \A r \in Resource : phase[r] # "terminating"

CreateInstance ==
    /\ instance = "absent"
    /\ instance' = "live"
    /\ UNCHANGED <<managed, phase, abandoned>>

\* An instance that nobody protects can go away at once.
DeleteInstance ==
    /\ instance = "live"
    /\ instance' \in IF managed THEN {"deleting"} ELSE {"deleting", "absent"}
    /\ UNCHANGED <<managed, phase, abandoned>>

Manage ==
    /\ instance = "live"
    /\ ~managed
    /\ managed' = TRUE
    /\ UNCHANGED <<instance, phase, abandoned>>

CreateObject(r) ==
    /\ managed
    /\ phase[r] = "absent"
    /\ \A d \in Dependencies[r] : phase[d] = "live"
    /\ NoneTerminating
    /\ phase' = [phase EXCEPT ![r] = "live"]
    /\ UNCHANGED <<instance, managed, abandoned>>

RemoveObject(r) ==
    /\ instance = "deleting"
    /\ managed
    /\ phase[r] = "live"
    /\ \A q \in Resource : r \in Dependencies[q] => phase[q] = "absent"
    /\ NoneTerminating
    /\ \E p \in {"terminating", "absent"} : phase' = [phase EXCEPT ![r] = p]
    /\ UNCHANGED <<instance, managed, abandoned>>

Vanish(r) ==
    /\ phase[r] = "terminating"
    /\ phase' = [phase EXCEPT ![r] = "absent"]
    /\ UNCHANGED <<instance, managed, abandoned>>

\* The finalizer goes, and the instance with it unless someone else has one.
Release ==
    /\ instance = "deleting"
    /\ managed
    /\ \A r \in Resource : phase[r] = "absent"
    /\ managed' = FALSE
    /\ instance' \in {"deleting", "absent"}
    /\ UNCHANGED <<phase, abandoned>>

Disappear ==
    /\ instance = "deleting"
    /\ ~managed
    /\ instance' = "absent"
    /\ UNCHANGED <<managed, phase, abandoned>>

GiveUpOrResume ==
    /\ abandoned' = ~abandoned
    /\ UNCHANGED <<instance, managed, phase>>

\* The steps of a deletion.
Dismantle ==
    \/ Release
    \/ Disappear
    \/ \E r \in Resource : RemoveObject(r) \/ Vanish(r)

Next ==
    \/ CreateInstance
    \/ DeleteInstance
    \/ Manage
    \/ \E r \in Resource : CreateObject(r)
    \/ Dismantle
    \/ GiveUpOrResume

SafetySpec == Init /\ [][Next]_vars

\* Unless it is abandoned, a live instance comes under protection and a
\* deletion goes on until the instance is gone.
Fairness ==
    /\ WF_vars(~abandoned /\ Manage)
    /\ WF_vars(~abandoned /\ Dismantle)

FairSpec == SafetySpec /\ Fairness
=============================================================================
