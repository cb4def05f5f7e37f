------------------------- MODULE InstanceRefinement -------------------------
(***************************************************************************)
(* InstanceReconciler implements InstanceLifecycle: the protection is the  *)
(* finalizer of kro, and an instance is abandoned when a pass failed and   *)
(* nothing queues its key again.                                           *)
(***************************************************************************)
EXTENDS InstanceReconciler

Lifecycle == INSTANCE InstanceLifecycle WITH
                 managed <- finalizer,
                 abandoned <- gaveUp,
                 Dependencies <- GetDependencies

\* Whatever interleaving of passes, failing calls, restarts and edits leads to
\* it, each step of the controller and of its environment changes the instance
\* and the sub-resources as InstanceLifecycle allows, or not at all:
\* creation and deletion never mix, objects are deleted one at a time from the
\* end of the dependencies, the finalizer is dropped last (reconcileInstance,
\* handleInstanceDeletion).
ImplementsLifecycle == Lifecycle!SafetySpec

\* Under fair scheduling it makes the progress InstanceLifecycle promises: a
\* live instance gets the finalizer, a deletion takes its next step, unless
\* the controller gave it up, after the last retry or by swallowing a failure
\* (handleReconciliation, controller.go:127, processNextWorkItem).
ImplementsProgress == Lifecycle!FairSpec
=============================================================================
