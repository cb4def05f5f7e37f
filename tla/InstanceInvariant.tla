-------------------------- MODULE InstanceInvariant --------------------------
(***************************************************************************)
(* The inductive invariants behind the safety properties of                *)
(* InstanceReconciler: Core, for ResourceGroups whose expressions are      *)
(* Unaliased and clusters where only kro deletes the sub-resources; Pass,  *)
(* what a pass knows of its own work, which needs neither; and Standing,   *)
(* what of that is still true of the cluster, which rests on Core.         *)
(***************************************************************************)
EXTENDS InstanceReconciler

\* The steps of a pass that creates, and of one that deletes.
Creating == {"setManaged", "reconcileResource", "getResource", "createResource"}
Deleting == {"initializeDeletion", "getForDeletion", "deleteResource",
             "finalizeDeletion"}

\* The finalizers that the instance can have in each stage of its life.
Finalizers ==
    /\ instance = "absent" => ~finalizer
    /\ instance # "deleting" => ~otherFinalizer

\* A snapshot that is still fresh is true.
FreshView ==
    fresh => /\ instance # "absent"
             /\ snap.finalizer = finalizer

\* A pass that creates has set the finalizer before it treats a resource,
\* and nobody else removes it.
CreatingIsManaged ==
    /\ pc \in Creating /\ snap.finalizer => finalizer
    /\ pc \in Creating \ {"setManaged"} => snap.finalizer

\* Objects are deleted only by passes of an instance that is being deleted.
\* If the instance of such a pass is replaced by a new one, it was never
\* managed and had no objects.
DeletingIsFinal ==
    /\ instance = "live" => \A r \in Resource : phase[r] # "terminating"
    /\ pc \in Creating => \A r \in Resource : phase[r] # "terminating"
    /\ pc \in Deleting /\ finalizer => instance # "live"

\* Nothing has been observed before the instance has been read.
NothingSeenYet ==
    pc \in {"idle", "getInstance", "setManaged"} => \A r \in Resource : seen[r] = "none"

\* In a pass that creates, what was observed is still there.
SeenIsLive ==
    pc \in Creating => \A r \in Resource : seen[r] # "none" => phase[r] = "live"

\* An expression has a value only after its dependencies were observed, and a
\* resource that can be processed has a value for its expressions.
RuntimeInv ==
    pc \in Creating \cup Deleting =>
        ReadsObserved(resolved, seen) /\ PropagateResourceVariables(rank, resolved)

\* The dependencies of a resource about to be created are live.
DependenciesLive ==
    pc \in {"getResource", "createResource"} =>
        /\ idx \in 1..N
        /\ \A d \in GetDependencies[Order[idx]] : phase[d] = "live"

\* The deletion pass knows the resources before idx: the ones it will delete
\* were observed, and the others are gone.
Examined(r) ==
    \/ rstate[r] \in {"DELETED", "SKIPPED"} /\ phase[r] = "absent"
    \/ rstate[r] = "PENDING_DELETION" /\ seen[r] # "none"

DeletionProgress ==
    /\ pc \in {"initializeDeletion", "getForDeletion"} =>
          \A j \in 1..N : j < idx => Examined(Order[j])
    /\ pc = "getForDeletion" => idx \in 1..N
    /\ pc = "deleteResource" =>
          /\ \A j \in 1..N : j <= idx => Examined(Order[j])
          /\ \A j \in 1..N : j > idx => phase[Order[j]] = "absent"
    /\ pc = "finalizeDeletion" => \A r \in Resource : phase[r] = "absent"

Core ==
    /\ DependenciesOutlive
    /\ NoOrphans
    /\ Finalizers
    /\ FreshView
    /\ CreatingIsManaged
    /\ DeletingIsFinal
    /\ NothingSeenYet
    /\ SeenIsLive
    /\ RuntimeInv
    /\ DependenciesLive
    /\ DeletionProgress

IndInv == TypeOK /\ Core

-----------------------------------------------------------------------------
\* A pass creates for an instance that it read as live, and deletes for one
\* that it read as deleting.
PassKind ==
    /\ pc \in Creating => ~snap.deleting /\ state = "IN_PROGRESS"
    /\ pc \in Deleting => snap.deleting /\ state = "DELETING"
    /\ pc \in Creating \ {"setManaged"} => snap.finalizer

\* A snapshot that is still fresh has the present spec and stage of life.
FreshSnapshot ==
    fresh => /\ instance = IF snap.deleting THEN "deleting" ELSE "live"
             /\ spec = snap.spec

\* Left out by its own conditions, or because a dependency is left out.
LeftOut(r) ==
    \/ r \notin IncludeWhen[snap.spec]
    \/ \E d \in GetDependencies[r] : rstate[d] = "SKIPPED"

Treated(r) ==
    \/ rstate[r] = "SYNCED" /\ r \notin ignored
    \/ rstate[r] = "SKIPPED" /\ r \in ignored /\ LeftOut(r)

\* A pass that creates treats the resources in order, each one once, and gets
\* to the end of the order, and to ACTIVE, only if it has treated them all.
CreationProgress ==
    /\ pc \in Creating \ {"setManaged"} =>
          \A j \in 1..N :
              /\ j < idx => Treated(Order[j])
              /\ j >= idx => /\ seen[Order[j]] = "none"
                             /\ rstate[Order[j]] \in {"PENDING", "IN_PROGRESS"}
                             /\ Order[j] \notin ignored
    /\ pc \in {"idle", "getInstance", "setManaged"} =>
          \A r \in Resource : seen[r] = "none" /\ r \notin ignored
    /\ state = "ACTIVE" => /\ pc = "patchStatus"
                           /\ ~snap.deleting
                           /\ \A r \in Resource : Treated(r)

\* In a pass that creates, an expression has a value only after the objects it
\* reads were observed with the fields it reads.
RuntimeReads ==
    pc \in Creating =>
        /\ \A e \in resolved : \A d \in Refs[e] : seen[d] = "full"
        /\ PropagateResourceVariables(rank, resolved)

\* The dependencies of a resource about to be created were found ready and with
\* the fields that are read from them.
DependenciesSynced ==
    pc \in {"getResource", "createResource"} =>
        \A d \in GetDependencies[Order[idx]] : rstate[d] = "SYNCED" /\ seen[d] = "full"

Pass ==
    /\ PassKind
    /\ FreshSnapshot
    /\ CreationProgress
    /\ RuntimeReads
    /\ DependenciesSynced

-----------------------------------------------------------------------------
\* What a pass has observed to be there, and complete, and ready, still is when
\* it creates the next resource and when it reports ACTIVE.
ObservationStands ==
    pc \in Creating \ {"setManaged"} \/ state = "ACTIVE" =>
        \A r \in Resource :
            /\ rstate[r] = "SYNCED" => /\ phase[r] = "live"
                                       /\ Flapping \/ IsResourceReady(r)
            /\ seen[r] = "full" => phase[r] = "live" /\ populated[r]

\* Objects are deleted from the end of the order, each one after the one before
\* is gone: nothing comes after an object that terminates.
TerminatingIsLast ==
    \A i, j \in 1..N :
        i < j /\ phase[Order[i]] = "terminating" => phase[Order[j]] = "absent"

Standing == ObservationStands /\ TerminatingIsLast

FullInv == IndInv /\ Pass /\ Standing
=============================================================================
