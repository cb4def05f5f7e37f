------------------------- MODULE InstanceActionProofs ------------------------
(***************************************************************************)
(* Proof of what the steps of a reconciliation may do: a resource is       *)
(* created only from what the pass itself observed, and only when the      *)
(* resources it depends on are there, complete and ready; the status turns *)
(* ACTIVE only when the cluster has what the spec asks for.  The argument  *)
(* is the invariants Pass and Standing of InstanceInvariant.  From these   *)
(* properties follows, in the last section, that every step is one of      *)
(* InstanceLifecycle or changes nothing there.                             *)
(***************************************************************************)
EXTENDS InstanceProofs, InstanceRefinement

-----------------------------------------------------------------------------
(***************************************************************************)
(* What a pass knows of its own work.                                      *)
(***************************************************************************)

\* A step that ends the pass with an error or a request to come back.
LEMMA FinishPass ==
    ASSUME Pass, NEW e, e # "nil", Finish(e), pc \in Creating \cup Deleting,
           UNCHANGED <<instance, spec, snap>>, fresh' => fresh
    PROVE  Pass'
<1>1. pc' = "patchStatus" /\ state' # "ACTIVE"
  BY DEF Finish, Pass, PassKind
<1>2. FreshSnapshot'
  BY DEF Pass, FreshSnapshot
<1> QED
  BY <1>1, <1>2 DEF Pass, PassKind, CreationProgress, RuntimeReads,
     DependenciesSynced, Creating, Deleting

\* A Synchronize either ends the pass or leaves a runtime whose values come
\* from complete observations.
LEMMA SynchronizePass ==
    ASSUME NEW s, NEW next, SynchronizeThen(s, next),
           \A e \in resolved : \A d \in Refs[e] : s[d] = "full"
    PROVE  \/ Finish("err")
           \/ /\ pc' = next
              /\ UNCHANGED result
              /\ \A e \in resolved' : \A d \in Refs[e] : s[d] = "full"
              /\ PropagateResourceVariables(rank, resolved')
<1>1. CASE SynchronizeSucceeds(rank, resolved, s)
  <2>1. /\ pc' = next
        /\ UNCHANGED result
        /\ resolved' = SynchronizedExprs(rank, resolved, s)
    BY <1>1 DEF SynchronizeThen
  <2>2. \A e \in Evaluable(rank, resolved, s) : \A d \in Refs[e] : s[d] = "full"
    BY <1>1 DEF SynchronizeSucceeds, EvaluationFails
  <2>3. \A e \in resolved' : \A d \in Refs[e] : s[d] = "full"
    BY <2>1, <2>2 DEF SynchronizedExprs
  <2>4. PropagateResourceVariables(rank, resolved')
    BY <1>1, <2>1 DEF SynchronizeSucceeds
  <2> QED
    BY <2>1, <2>3, <2>4
<1>2. CASE ~SynchronizeSucceeds(rank, resolved, s)
  BY <1>2 DEF SynchronizeThen
<1> QED
  BY <1>1, <1>2

\* Controller.Reconcile: the pass starts with a true snapshot.
LEMMA GetInstanceFoundPass ==
    ASSUME TypeOK, Pass, GetInstanceFound
    PROVE  Pass'
<1>1. /\ UNCHANGED <<instance, spec, seen, ignored>>
      /\ pc = "getInstance"
      /\ instance \in {"live", "deleting"}
      /\ snap'.spec = spec
      /\ snap'.deleting <=> instance = "deleting"
      /\ IF instance = "deleting"
           THEN pc' = "initializeDeletion" /\ state' = "DELETING"
           ELSE pc' = "setManaged" /\ state' = "IN_PROGRESS"
  BY DEF GetInstanceFound, world, cluster, instanceVars, TypeOK, DataOK
<1>2. PICK f \in Rankings : /\ NewRuntimeSucceeds(f)
                            /\ rank' = f
                            /\ resolved' = StaticExprs(f)
  BY DEF GetInstanceFound
<1>3. RuntimeReads'
  BY <1>2, StaticReadsNothing DEF RuntimeReads, NewRuntimeSucceeds
<1>4. PassKind' /\ FreshSnapshot'
  BY <1>1 DEF PassKind, FreshSnapshot, Creating, Deleting
<1>5. CreationProgress' /\ DependenciesSynced'
  BY <1>1 DEF Pass, CreationProgress, DependenciesSynced, Creating
<1> QED
  BY <1>3, <1>4, <1>5 DEF Pass

\* reconcileInstance: nothing has been treated when the resources are started.
LEMMA StartResourcesPass ==
    ASSUME TypeOK, Pass, pc = "setManaged", StartResources,
           UNCHANGED <<instance, spec, fresh>>,
           snap'.finalizer, snap'.spec = snap.spec,
           snap'.deleting = snap.deleting
    PROVE  Pass'
<1>1. /\ UNCHANGED <<seen, ignored, rank, resolved, state>>
      /\ pc' = "reconcileResource" /\ idx' = 1
      /\ rstate' = [r \in Resource |-> "PENDING"]
  BY DEF StartResources, runtimeVars, result
<1>2. PassKind' /\ FreshSnapshot' /\ RuntimeReads' /\ DependenciesSynced'
  BY <1>1 DEF Pass, PassKind, FreshSnapshot, RuntimeReads,
     DependenciesSynced, Creating, Deleting
<1>3. CreationProgress'
  BY <1>1, OrderAssumption DEF Pass, PassKind, CreationProgress, Creating
<1> QED
  BY <1>2, <1>3 DEF Pass

\* reconcileResource, for a resource that the conditions leave out.
LEMMA SkipResourcePass ==
    ASSUME TypeOK, Pass, NEW r \in Resource, SkipResource(r)
    PROVE  Pass'
<1>1. /\ UNCHANGED <<instance, spec, snap, fresh, rank, seen>>
      /\ pc = "reconcileResource"
      /\ idx \in 1..N /\ r = Order[idx] /\ idx' = idx + 1
      /\ ~WantToCreateResource(r)
      /\ rstate' = [rstate EXCEPT ![r] = "SKIPPED"]
      /\ ignored' = ignored \cup {r}
      /\ SynchronizeThen(seen, "reconcileResource")
  BY DEF SkipResource, Current, world, cluster, instanceVars, view
<1>2. \A e \in resolved : \A d \in Refs[e] : seen[d] = "full"
  BY <1>1 DEF Pass, RuntimeReads, Creating
<1>3. \/ Finish("err")
      \/ /\ pc' = "reconcileResource"
         /\ UNCHANGED result
         /\ \A e \in resolved' : \A d \in Refs[e] : seen[d] = "full"
         /\ PropagateResourceVariables(rank, resolved')
  BY <1>1, <1>2, SynchronizePass
<1>4. CASE Finish("err")
  BY <1>1, <1>4, FinishPass DEF Creating
<1>5. CASE /\ pc' = "reconcileResource"
           /\ UNCHANGED result
           /\ \A e \in resolved' : \A d \in Refs[e] : seen[d] = "full"
           /\ PropagateResourceVariables(rank, resolved')
  <2>1. PassKind' /\ FreshSnapshot' /\ RuntimeReads' /\ DependenciesSynced'
    BY <1>1, <1>5 DEF Pass, PassKind, FreshSnapshot, RuntimeReads,
       DependenciesSynced, Creating, Deleting, result
  <2>2. \A q \in Resource : /\ q # r => rstate'[q] = rstate[q]
                            /\ q # r => (q \in ignored' <=> q \in ignored)
    BY <1>1 DEF TypeOK, DataOK
  <2>3. rstate'[r] = "SKIPPED" /\ r \in ignored'
    BY <1>1 DEF TypeOK, DataOK
  <2>4. \A q \in Resource : LeftOut(q) => LeftOut(q)'
    BY <1>1, <2>2, <2>3, DerivedTypes DEF LeftOut
  <2>5. \A j \in 1..N : j < idx => Treated(Order[j])
    BY <1>1 DEF Pass, CreationProgress, Creating
  <2>6. \A q \in ignored : rstate[q] = "SKIPPED"
    <3> SUFFICES ASSUME NEW q \in ignored
                 PROVE  rstate[q] = "SKIPPED"
      OBVIOUS
    <3>1. PICK j \in 1..N : Order[j] = q
      BY OrderAssumption DEF TypeOK, DataOK
    <3>2. j < idx
      BY <1>1, <3>1 DEF Pass, CreationProgress, Creating
    <3> QED
      BY <2>5, <3>1, <3>2 DEF Treated
  <2>7. LeftOut(r)'
    BY <1>1, <2>2, <2>3, <2>6, DerivedTypes DEF LeftOut, WantToCreateResource
  <2>8. ASSUME NEW j \in 1..N
        PROVE  /\ j < idx' => Treated(Order[j])'
               /\ j >= idx' => /\ seen'[Order[j]] = "none"
                               /\ rstate'[Order[j]] \in {"PENDING", "IN_PROGRESS"}
                               /\ Order[j] \notin ignored'
    <3>1. CASE j = idx
      BY <1>1, <2>3, <2>7, <3>1 DEF Treated
    <3>2. CASE j # idx
      <4>1. Order[j] \in Resource /\ Order[j] # r
        BY <1>1, <3>2, OrderAssumption
      <4>2. j < idx' <=> j < idx
        BY <1>1, <3>2
      <4>3. j < idx => Treated(Order[j])'
        BY <2>2, <2>4, <2>5, <4>1 DEF Treated
      <4>4. j >= idx => /\ seen'[Order[j]] = "none"
                        /\ rstate'[Order[j]] \in {"PENDING", "IN_PROGRESS"}
                        /\ Order[j] \notin ignored'
        BY <1>1, <2>2, <4>1 DEF Pass, CreationProgress, Creating
      <4> QED
        BY <1>1, <4>2, <4>3, <4>4
    <3> QED
      BY <3>1, <3>2
  <2>9. CreationProgress'
    BY <1>1, <1>5, <2>8 DEF CreationProgress, Pass, PassKind, Creating, result
  <2> QED
    BY <2>1, <2>9 DEF Pass
<1> QED
  BY <1>3, <1>4, <1>5

\* reconcileResource: the runtime has resolved the resource, so that it has
\* read complete observations of its dependencies; none of them is ignored,
\* so that each one was found ready.
LEMMA ReconcileResourcePass ==
    ASSUME TypeOK, Pass, NEW r \in Resource, ReconcileResource(r)
    PROVE  Pass'
<1>1. /\ UNCHANGED <<instance, spec, snap, fresh, rank, resolved, seen, ignored,
                     idx, state>>
      /\ pc = "reconcileResource" /\ pc' = "getResource"
      /\ idx \in 1..N /\ r = Order[idx]
      /\ WantToCreateResource(r)
      /\ IsResolved(rank, resolved, seen, r)
      /\ rstate' = [rstate EXCEPT ![r] = "IN_PROGRESS"]
  BY DEF ReconcileResource, Current, world, cluster, instanceVars, view,
     runtimeVars, result
<1>2. \A j \in 1..N :
         /\ j < idx => Treated(Order[j])
         /\ j >= idx => /\ seen[Order[j]] = "none"
                        /\ rstate[Order[j]] \in {"PENDING", "IN_PROGRESS"}
                        /\ Order[j] \notin ignored
  BY <1>1 DEF Pass, CreationProgress, Creating
<1>3. \A d \in GetDependencies[r] : seen[d] = "full"
  <2>1. Mentions[r] \subseteq resolved
    BY <1>1, <1>2 DEF IsResolved, Pass, RuntimeReads, Creating,
       PropagateResourceVariables
  <2>2. \A d \in GetDependencies[r] : \E e \in Mentions[r] : d \in Refs[e]
    BY DEF GetDependencies
  <2> QED
    BY <1>1, <2>1, <2>2 DEF Pass, RuntimeReads, Creating
<1>4. \A d \in GetDependencies[r] : d # r /\ d \in Resource /\ rstate[d] = "SYNCED"
  <2> SUFFICES ASSUME NEW d \in GetDependencies[r]
               PROVE  d # r /\ d \in Resource /\ rstate[d] = "SYNCED"
    OBVIOUS
  <2>1. PICK j \in 1..(idx - 1) : Order[j] = d
    BY <1>1, OrderAssumption
  <2>2. j \in 1..N /\ j < idx
    BY <1>1, <2>1, OrderAssumption
  <2>3. Treated(d) /\ d \notin ignored
    BY <1>1, <1>2, <2>1, <2>2 DEF WantToCreateResource
  <2> QED
    BY <1>1, <2>1, <2>2, <2>3, OrderAssumption DEF Treated
<1>5. DependenciesSynced'
  BY <1>1, <1>3, <1>4 DEF DependenciesSynced, TypeOK, DataOK
<1>6. \A q \in Resource : q # r => rstate'[q] = rstate[q]
  BY <1>1 DEF TypeOK, DataOK
<1>7. rstate[r] # "SKIPPED" /\ rstate'[r] = "IN_PROGRESS"
  BY <1>1, <1>2 DEF TypeOK, DataOK
<1>8. \A q \in Resource : LeftOut(q) => LeftOut(q)'
  BY <1>1, <1>6, <1>7, DerivedTypes DEF LeftOut
<1>9. \A j \in 1..N :
         /\ j < idx => Treated(Order[j])'
         /\ j >= idx => /\ seen[Order[j]] = "none"
                        /\ rstate'[Order[j]] \in {"PENDING", "IN_PROGRESS"}
                        /\ Order[j] \notin ignored
  BY <1>1, <1>2, <1>6, <1>7, <1>8, OrderAssumption DEF Treated
<1>10. CreationProgress'
  BY <1>1, <1>9 DEF CreationProgress, Pass, PassKind, Creating
<1> QED
  BY <1>1, <1>5, <1>10 DEF Pass, PassKind, FreshSnapshot, RuntimeReads,
     Creating, Deleting

\* handleResourceReconciliation, for an object that is there and ready.
LEMMA ResourceSyncedPass ==
    ASSUME TypeOK, Pass, NEW r \in Resource, ResourceSynced(r)
    PROVE  Pass'
<1>1. /\ UNCHANGED <<instance, spec, snap, fresh, rank, ignored>>
      /\ pc = "getResource"
      /\ idx \in 1..N /\ r = Order[idx] /\ idx' = idx + 1
      /\ seen' = [seen EXCEPT ![r] = Observation(r)]
      /\ rstate' = [rstate EXCEPT ![r] = "SYNCED"]
      /\ SynchronizeThen(seen', "reconcileResource")
  BY DEF ResourceSynced, Current, world, cluster, instanceVars, view
<1>2. \A j \in 1..N :
         /\ j < idx => Treated(Order[j])
         /\ j >= idx => /\ seen[Order[j]] = "none"
                        /\ rstate[Order[j]] \in {"PENDING", "IN_PROGRESS"}
                        /\ Order[j] \notin ignored
  BY <1>1 DEF Pass, CreationProgress, Creating
<1>3. \A e \in resolved : \A d \in Refs[e] : seen'[d] = "full"
  <2>1. \A e \in resolved : \A d \in Refs[e] : d \in Resource /\ seen[d] = "full"
    BY <1>1, RuntimeAssumption DEF Pass, RuntimeReads, Creating, TypeOK, DataOK
  <2>2. seen[r] = "none"
    BY <1>1, <1>2
  <2> QED
    BY <1>1, <2>1, <2>2 DEF TypeOK, DataOK
<1>4. \/ Finish("err")
      \/ /\ pc' = "reconcileResource"
         /\ UNCHANGED result
         /\ \A e \in resolved' : \A d \in Refs[e] : seen'[d] = "full"
         /\ PropagateResourceVariables(rank, resolved')
  BY <1>1, <1>3, SynchronizePass
<1>5. CASE Finish("err")
  BY <1>1, <1>5, FinishPass DEF Creating
<1>6. CASE /\ pc' = "reconcileResource"
           /\ UNCHANGED result
           /\ \A e \in resolved' : \A d \in Refs[e] : seen'[d] = "full"
           /\ PropagateResourceVariables(rank, resolved')
  <2>1. PassKind' /\ FreshSnapshot' /\ RuntimeReads' /\ DependenciesSynced'
    BY <1>1, <1>6 DEF Pass, PassKind, FreshSnapshot, RuntimeReads,
       DependenciesSynced, Creating, Deleting, result
  <2>2. \A q \in Resource : q # r => /\ rstate'[q] = rstate[q]
                                     /\ seen'[q] = seen[q]
    BY <1>1 DEF TypeOK, DataOK
  <2>3. rstate[r] # "SKIPPED" /\ rstate'[r] = "SYNCED" /\ r \notin ignored
    BY <1>1, <1>2 DEF TypeOK, DataOK
  <2>4. \A q \in Resource : LeftOut(q) => LeftOut(q)'
    BY <1>1, <2>2, <2>3, DerivedTypes DEF LeftOut
  <2>5. ASSUME NEW j \in 1..N
        PROVE  /\ j < idx' => Treated(Order[j])'
               /\ j >= idx' => /\ seen'[Order[j]] = "none"
                               /\ rstate'[Order[j]] \in {"PENDING", "IN_PROGRESS"}
                               /\ Order[j] \notin ignored'
    <3>1. CASE j = idx
      BY <1>1, <2>3, <3>1 DEF Treated
    <3>2. CASE j # idx
      <4>1. Order[j] \in Resource /\ Order[j] # r
        BY <1>1, <3>2, OrderAssumption
      <4>2. j < idx' <=> j < idx
        BY <1>1, <3>2
      <4> QED
        BY <1>1, <1>2, <2>2, <2>4, <4>1, <4>2 DEF Treated
    <3> QED
      BY <3>1, <3>2
  <2>6. CreationProgress'
    BY <1>1, <1>6, <2>5 DEF CreationProgress, Pass, PassKind, Creating, result
  <2> QED
    BY <2>1, <2>6 DEF Pass
<1> QED
  BY <1>4, <1>5, <1>6

\* updateInstanceState: a pass that gets to the end of the order has treated
\* every resource.
LEMMA AllReconciledPass ==
    ASSUME TypeOK, Pass, AllReconciled
    PROVE  Pass'
<1>1. /\ UNCHANGED <<instance, spec, snap, fresh, ignored, rstate>>
      /\ pc = "reconcileResource" /\ pc' = "patchStatus" /\ idx = N + 1
  BY DEF AllReconciled, FinishUnchanged, Finish, world, cluster,
     instanceVars, view, runtimeVars
<1>2. \A r \in Resource : Treated(r)
  BY <1>1, OrderAssumption DEF Pass, CreationProgress, Creating
<1>3. \A r \in Resource : Treated(r)'
  BY <1>1, <1>2 DEF Treated, LeftOut
<1>4. CreationProgress'
  BY <1>1, <1>3 DEF CreationProgress, Pass, PassKind, Creating
<1> QED
  BY <1>1, <1>4 DEF Pass, PassKind, FreshSnapshot, RuntimeReads,
     DependenciesSynced, Creating, Deleting

\* A step between two calls of a deletion pass.
LEMMA DeletionGoesOn ==
    ASSUME Pass, pc \in Deleting, pc' \in Deleting,
           UNCHANGED <<instance, spec, snap, fresh, state>>
    PROVE  Pass'
  BY DEF Pass, PassKind, FreshSnapshot, CreationProgress, RuntimeReads,
     DependenciesSynced, Creating, Deleting

\* initializeDeletionState, up to its Get.
LEMMA InitializeDeletionPass ==
    ASSUME Pass, NEW r \in Resource, InitializeDeletion(r)
    PROVE  Pass'
<1>1. /\ UNCHANGED <<instance, spec, snap, fresh>>
      /\ pc = "initializeDeletion"
  BY DEF InitializeDeletion, world, cluster, instanceVars, view
<1>2. \/ Finish("err")
      \/ /\ pc' \in {"initializeDeletion", "getForDeletion"}
         /\ UNCHANGED state
  BY DEF InitializeDeletion, SynchronizeThen, result
<1>3. CASE Finish("err")
  BY <1>1, <1>3, FinishPass DEF Deleting
<1>4. CASE pc' \in {"initializeDeletion", "getForDeletion"} /\ UNCHANGED state
  BY <1>1, <1>4, DeletionGoesOn DEF Deleting
<1> QED
  BY <1>2, <1>3, <1>4

\* finalizeDeletion: the state stays DELETING when the pass succeeds.
LEMMA DeletionEnds ==
    ASSUME Pass, pc = "finalizeDeletion", NEW e, Finish(e), FreshSnapshot'
    PROVE  Pass'
<1>1. pc' = "patchStatus" /\ state' # "ACTIVE"
  BY DEF Finish, Pass, PassKind, Deleting
<1> QED
  BY <1>1 DEF Pass, PassKind, CreationProgress, RuntimeReads,
     DependenciesSynced, Creating, Deleting

\* The API server drops the finalizer for a deleted instance only.
LEMMA DropFinalizerPass ==
    ASSUME Pass, pc = "finalizeDeletion", fresh, DropFinalizer, UNCHANGED spec,
           fresh' => otherFinalizer /\ snap'.deleting = snap.deleting
                                   /\ snap'.spec = snap.spec
    PROVE  FreshSnapshot'
<1>1. otherFinalizer => instance' = instance
  BY DEF DropFinalizer
<1> QED
  BY <1>1 DEF Pass, FreshSnapshot

\* setUnmanaged, and with an error of the Update, applied or not.
LEMMA SetUnmanagedPass ==
    ASSUME TypeOK, Pass, SetUnmanaged \/ SetUnmanagedFails
    PROVE  Pass'
<1>1. CASE SetUnmanaged
  <2>1. /\ pc = "finalizeDeletion" /\ fresh /\ DropFinalizer /\ UNCHANGED spec
        /\ Finish("nil")
        /\ fresh' = otherFinalizer
    BY <1>1, Zenon DEF SetUnmanaged
  <2>2. snap'.deleting = snap.deleting /\ snap'.spec = snap.spec
    BY <1>1 DEF SetUnmanaged, TypeOK, DataOK, Snapshots
  <2>3. FreshSnapshot'
    BY <2>1, <2>2, DropFinalizerPass, Zenon
  <2> QED
    BY <2>1, <2>3, DeletionEnds
<1>2. CASE SetUnmanagedFails
  <2>1. /\ pc = "finalizeDeletion" /\ UNCHANGED <<spec, snap>> /\ Finish("err")
        /\ \/ fresh /\ DropFinalizer /\ ~fresh'
           \/ UNCHANGED <<instance, fresh>>
    BY <1>2, Zenon DEF SetUnmanagedFails
  <2>2. FreshSnapshot'
    BY <2>1 DEF FreshSnapshot, Pass
  <2> QED
    BY <2>1, <2>2, DeletionEnds
<1> QED
  BY <1>1, <1>2

\* The end of a reconciliation, and of the process.
LEMMA NoReconciliationPass ==
    ASSUME NoReconciliation
    PROVE  Pass'
<1>1. /\ pc' = "idle" /\ state' = "none"
      /\ \A r \in Resource : seen'[r] = "none" /\ r \notin ignored'
  BY DEF NoReconciliation
<1>2. ~fresh'
  BY Zenon DEF NoReconciliation
<1> QED
  BY <1>1, <1>2 DEF Pass, PassKind, FreshSnapshot, CreationProgress,
     RuntimeReads, DependenciesSynced, Creating, Deleting

\* A step that leaves the reconciliation and the instance it read alone.
LEMMA OutsidePass ==
    ASSUME Pass, UNCHANGED <<pc, snap, runtimeVars, idx, rstate, state>>,
           fresh' => fresh /\ UNCHANGED <<instance, spec>>
    PROVE  Pass'
<1>1. \A r \in Resource : Treated(r)' <=> Treated(r)
  BY DEF Treated, LeftOut, runtimeVars
<1>2. CreationProgress'
  BY <1>1, OrderAssumption DEF Pass, CreationProgress, runtimeVars
<1> QED
  BY <1>2 DEF Pass, PassKind, FreshSnapshot, RuntimeReads,
     DependenciesSynced, runtimeVars

-----------------------------------------------------------------------------
\* Every step keeps what a pass knows of its own work.
LEMMA PassStep ==
    ASSUME TypeOK, Pass, [Next]_vars
    PROVE  Pass'
<1> USE DEF instanceVars, objectVars, queueVars, boundVars, view, result,
     cluster, world, local
<1>1. CASE ProcessNextWorkItem
  BY <1>1 DEF ProcessNextWorkItem, Pass, PassKind, FreshSnapshot,
     CreationProgress, RuntimeReads, DependenciesSynced, Creating, Deleting,
     runtimeVars
<1>2. CASE GetInstanceNotFound
  BY <1>2, NoReconciliationPass DEF GetInstanceNotFound, Return
<1>3. CASE GetInstanceFails
  BY <1>3, NoReconciliationPass DEF GetInstanceFails, Return
<1>4. CASE CreateRuntimeFails
  BY <1>4, NoReconciliationPass DEF CreateRuntimeFails, Return
<1>5. CASE GetInstanceFound
  BY <1>5, GetInstanceFoundPass
<1>6. CASE AlreadyManaged
  BY <1>6, StartResourcesPass DEF AlreadyManaged
<1>7. CASE SetManaged
  <2>1. /\ snap'.finalizer
        /\ snap'.spec = snap.spec
        /\ snap'.deleting = snap.deleting
    BY <1>7 DEF SetManaged, TypeOK, DataOK, Snapshots
  <2> QED
    BY <1>7, <2>1, StartResourcesPass DEF SetManaged
<1>8. CASE SetManagedRefused
  <2>1. Refusal # "nil"
    BY DEF Refusal
  <2> QED
    BY <1>8, <2>1, FinishPass DEF SetManagedRefused, FinishUnchanged, Creating
<1>9. CASE SetManagedFails
  <2>1. fresh' => fresh
    BY <1>9, Zenon DEF SetManagedFails
  <2> QED
    BY <1>9, <2>1, FinishPass DEF SetManagedFails, Creating
<1>10. CASE AllReconciled
  BY <1>10, AllReconciledPass
<1>11. CASE StartDeleting
  BY <1>11, DeletionGoesOn DEF StartDeleting, Deleting
<1>12. CASE AllDeleted
  BY <1>12, DeletionGoesOn DEF AllDeleted, Deleting
<1>13. CASE NothingToFinalize
  BY <1>13, DeletionEnds DEF NothingToFinalize, FinishUnchanged, Pass,
     FreshSnapshot
<1>14. CASE SetUnmanaged
  BY <1>14, SetUnmanagedPass
<1>15. CASE SetUnmanagedRefused
  BY <1>15, DeletionEnds DEF SetUnmanagedRefused, FinishUnchanged, Pass,
     FreshSnapshot
<1>16. CASE SetUnmanagedFails
  BY <1>16, SetUnmanagedPass
<1>17. CASE PatchStatus
  BY <1>17, NoReconciliationPass DEF PatchStatus, Return
<1>18. CASE PatchStatusFails
  BY <1>18, NoReconciliationPass DEF PatchStatusFails, Return
<1>19. ASSUME NEW r \in Resource, SkipResource(r) PROVE Pass'
  BY <1>19, SkipResourcePass
<1>20. ASSUME NEW r \in Resource, ResourceNotResolved(r) PROVE Pass'
  BY <1>20, FinishPass DEF ResourceNotResolved, Creating
<1>21. ASSUME NEW r \in Resource, ReconcileResource(r) PROVE Pass'
  BY <1>21, ReconcileResourcePass
<1>22. ASSUME NEW r \in Resource, GetResourceFails(r) PROVE Pass'
  BY <1>22, FinishPass DEF GetResourceFails, Creating
<1>23. ASSUME NEW r \in Resource, GetResourceNotFound(r) PROVE Pass'
  BY <1>23, DerivedTypes DEF GetResourceNotFound, Pass, PassKind, FreshSnapshot,
     CreationProgress, RuntimeReads, DependenciesSynced, Creating, Deleting,
     Treated, LeftOut, runtimeVars
<1>24. ASSUME NEW r \in Resource, ResourceNotReady(r) PROVE Pass'
  BY <1>24, FinishPass DEF ResourceNotReady, Creating
<1>25. ASSUME NEW r \in Resource, ResourceSynced(r) PROVE Pass'
  BY <1>25, ResourceSyncedPass
<1>26. ASSUME NEW r \in Resource, CreateResource(r) PROVE Pass'
  BY <1>26, FinishPass DEF CreateResource, Creating
<1>27. ASSUME NEW r \in Resource, CreateResourceFails(r) PROVE Pass'
  BY <1>27, FinishPass DEF CreateResourceFails, Creating
<1>28. ASSUME NEW r \in Resource, InitializeDeletion(r) PROVE Pass'
  BY <1>28, InitializeDeletionPass
<1>29. ASSUME NEW r \in Resource, GetForDeletionFails(r) PROVE Pass'
  BY <1>29, FinishPass DEF GetForDeletionFails, FinishUnchanged, Deleting
<1>30. ASSUME NEW r \in Resource, GetForDeletionNotFound(r) PROVE Pass'
  BY <1>30, DeletionGoesOn DEF GetForDeletionNotFound, Deleting
<1>31. ASSUME NEW r \in Resource, GetForDeletionFound(r) PROVE Pass'
  BY <1>31, DeletionGoesOn DEF GetForDeletionFound, Deleting
<1>32. ASSUME NEW r \in Resource, NothingToDelete(r) PROVE Pass'
  BY <1>32, DeletionGoesOn DEF NothingToDelete, Deleting
<1>33. ASSUME NEW r \in Resource, DeleteResourceNotFound(r) PROVE Pass'
  BY <1>33, DeletionGoesOn DEF DeleteResourceNotFound, Deleting
<1>34. ASSUME NEW r \in Resource, DeleteResource(r) PROVE Pass'
  BY <1>34, FinishPass DEF DeleteResource, Deleting
<1>35. ASSUME NEW r \in Resource, DeleteResourceFails(r) PROVE Pass'
  BY <1>35, FinishPass DEF DeleteResourceFails, Deleting
<1>36. CASE DeliverEvent
  BY <1>36, OutsidePass DEF DeliverEvent
<1>37. CASE CreateInstance
  <2>1. ~fresh
    BY <1>37 DEF CreateInstance, Pass, FreshSnapshot
  <2> QED
    BY <1>37, <2>1, OutsidePass DEF CreateInstance
<1>38. CASE EditSpec
  BY <1>38, OutsidePass DEF EditSpec
<1>39. CASE TouchInstance
  BY <1>39, OutsidePass DEF TouchInstance
<1>40. CASE DeleteInstance
  BY <1>40, OutsidePass DEF DeleteInstance
<1>41. CASE RemoveOtherFinalizer
  BY <1>41, OutsidePass DEF RemoveOtherFinalizer
<1>42. CASE Restart
  BY <1>42, NoReconciliationPass DEF Restart
<1>43. ASSUME NEW r \in Resource, ObjectStep(r) PROVE Pass'
  BY <1>43, OutsidePass DEF ObjectStep, Populate, BecomeReady, BecomeUnready,
     Vanish, DeleteExternally
<1>44. CASE UNCHANGED vars
  BY <1>44, OutsidePass DEF vars
<1> QED
  BY <1>1, <1>2, <1>3, <1>4, <1>5, <1>6, <1>7, <1>8, <1>9, <1>10, <1>11,
     <1>12, <1>13, <1>14, <1>15, <1>16, <1>17, <1>18, <1>19, <1>20, <1>21,
     <1>22, <1>23, <1>24, <1>25, <1>26, <1>27, <1>28, <1>29, <1>30, <1>31,
     <1>32, <1>33, <1>34, <1>35, <1>36, <1>37, <1>38, <1>39, <1>40, <1>41,
     <1>42, <1>43, <1>44 DEF Next, Reconcile, InstanceStep, ReconcileStep,
     DeletionStep, Environment

\* No reconciliation is under way at the start.
LEMMA InitPass == Init => Pass
  BY DEF Init, Pass, PassKind, FreshSnapshot, CreationProgress, RuntimeReads,
     DependenciesSynced, Creating, Deleting

-----------------------------------------------------------------------------
(***************************************************************************)
(* Creations come from observations.                                       *)
(***************************************************************************)

\* The steps that write objects: Create, Delete, and the API server or someone
\* else removing one.
LEMMA WritesObjects ==
    ASSUME [Next]_vars
    PROVE  \/ UNCHANGED phase
           \/ \E r \in Resource :
                 \/ CreateResource(r) \/ CreateResourceFails(r)
                 \/ DeleteResource(r) \/ DeleteResourceFails(r)
                 \/ Vanish(r) \/ DeleteExternally(r)
<1> USE DEF objectVars, cluster, world
<1>1. CASE InstanceStep
  BY <1>1 DEF InstanceStep, ProcessNextWorkItem, GetInstanceNotFound,
     GetInstanceFails, CreateRuntimeFails, GetInstanceFound, AlreadyManaged,
     SetManaged, SetManagedRefused, SetManagedFails, AllReconciled,
     StartDeleting, AllDeleted, NothingToFinalize, SetUnmanaged,
     SetUnmanagedRefused, SetUnmanagedFails, PatchStatus, PatchStatusFails
<1>2. ASSUME NEW r \in Resource, ReconcileStep(r)
      PROVE  UNCHANGED phase \/ CreateResource(r) \/ CreateResourceFails(r)
  BY <1>2 DEF ReconcileStep, SkipResource, ResourceNotResolved,
     ReconcileResource, GetResourceFails, GetResourceNotFound,
     ResourceNotReady, ResourceSynced
<1>3. ASSUME NEW r \in Resource, DeletionStep(r)
      PROVE  UNCHANGED phase \/ DeleteResource(r) \/ DeleteResourceFails(r)
  BY <1>3 DEF DeletionStep, InitializeDeletion, GetForDeletionFails,
     GetForDeletionNotFound, GetForDeletionFound, NothingToDelete,
     DeleteResourceNotFound
<1>4. ASSUME NEW r \in Resource, ObjectStep(r)
      PROVE  UNCHANGED phase \/ Vanish(r) \/ DeleteExternally(r)
  BY <1>4 DEF ObjectStep, Populate, BecomeReady, BecomeUnready
<1>5. CASE \/ DeliverEvent \/ CreateInstance \/ EditSpec \/ TouchInstance
           \/ DeleteInstance \/ RemoveOtherFinalizer \/ Restart
  BY <1>5 DEF DeliverEvent, CreateInstance, EditSpec, TouchInstance,
     DeleteInstance, RemoveOtherFinalizer, Restart
<1>6. CASE UNCHANGED vars
  BY <1>6 DEF vars
<1> QED
  BY <1>1, <1>2, <1>3, <1>4, <1>5, <1>6 DEF Next, Reconcile, Environment

\* An object appears only in the Create of the pass that treats it.
LEMMA CreatedByPass ==
    ASSUME TypeOK, [Next]_vars, NEW r \in Resource, Created(r)
    PROVE  pc = "createResource" /\ idx \in 1..N /\ r = Order[idx]
<1>1. PICK q \in Resource : \/ CreateResource(q) \/ CreateResourceFails(q)
                            \/ DeleteResource(q) \/ DeleteResourceFails(q)
                            \/ Vanish(q) \/ DeleteExternally(q)
  BY WritesObjects DEF Created
<1>2. CASE CreateResource(q) \/ CreateResourceFails(q)
  BY <1>2 DEF CreateResource, CreateResourceFails, StoreObject, objectVars,
     Current, Created, TypeOK, DataOK
<1>3. CASE DeleteResource(q) \/ DeleteResourceFails(q) \/ DeleteExternally(q)
  <2>1. phase[q] # "absent" /\ (RemoveObject(q) \/ UNCHANGED phase)
    BY <1>3 DEF DeleteResource, DeleteResourceFails, DeleteExternally,
       objectVars
  <2> QED
    BY <2>1 DEF RemoveObject, Created, TypeOK, DataOK
<1>4. CASE Vanish(q)
  BY <1>4 DEF Vanish, Created, TypeOK, DataOK
<1> QED
  BY <1>1, <1>2, <1>3, <1>4

\* For every ResourceGroup, shared expressions included, and whoever deletes
\* objects: a resource is created only by a pass that has the finalizer and
\* that has itself found each dependency ready, with the fields that are read
\* (reconcileInstance, GetResource, evaluateDynamicVariables).
THEOREM CreationsAreObserved == SafetySpec => CreatesFromObservation
<1>1. Init => TypeOK /\ Pass
  BY InitTypes, InitPass
<1>2. TypeOK /\ Pass /\ [Next]_vars => TypeOK' /\ Pass'
  BY FlagsStep, DataStep, PassStep DEF TypeOK
<1>3. TypeOK /\ Pass /\ [Next]_vars => [CreationObserved]_vars
  <2> SUFFICES ASSUME TypeOK, Pass, [Next]_vars, NEW r \in Resource, Created(r)
               PROVE  /\ snap.finalizer
                      /\ ~snap.deleting
                      /\ \A d \in GetDependencies[r] :
                            rstate[d] = "SYNCED" /\ seen[d] = "full"
    BY DEF CreationObserved
  <2>1. pc = "createResource" /\ r = Order[idx]
    BY CreatedByPass
  <2> QED
    BY <2>1 DEF Pass, PassKind, DependenciesSynced, Creating
<1> QED
  BY <1>1, <1>2, <1>3, PTL DEF SafetySpec, CreatesFromObservation

-----------------------------------------------------------------------------
(***************************************************************************)
(* What a pass has observed still stands when it acts on it.               *)
(***************************************************************************)

\* A step outside of passes that create, and not to the end of one.
LEMMA NothingClaimed ==
    ASSUME pc' \notin Creating \ {"setManaged"}, state' # "ACTIVE"
    PROVE  ObservationStands'
  BY DEF ObservationStands

\* A step that ends the pass with an error or a request to come back.
LEMMA FinishStands ==
    ASSUME Pass, NEW e, e # "nil", Finish(e), pc \in Creating \cup Deleting
    PROVE  ObservationStands'
<1>1. pc' = "patchStatus" /\ state' # "ACTIVE"
  BY DEF Finish, Pass, PassKind
<1> QED
  BY <1>1, NothingClaimed DEF Creating

\* A step that keeps the objects and what the pass says of them.
LEMMA SameObservation ==
    ASSUME ObservationStands, UNCHANGED <<objectVars, seen>>,
           pc \in Creating \ {"setManaged"} \/ state = "ACTIVE",
           \A r \in Resource : rstate'[r] = "SYNCED" => rstate[r] = "SYNCED"
    PROVE  ObservationStands'
  BY DEF ObservationStands, IsResourceReady, objectVars

\* handleResourceReconciliation: the object just observed is live, since
\* nothing terminates while a pass creates, and ready.
LEMMA ResourceSyncedStands ==
    ASSUME TypeOK, Core, Pass, ObservationStands,
           NEW r \in Resource, ResourceSynced(r)
    PROVE  ObservationStands'
<1>1. /\ pc = "getResource"
      /\ phase[r] # "absent"
      /\ IsResourceReady(r)
      /\ seen' = [seen EXCEPT ![r] = Observation(r)]
      /\ rstate' = [rstate EXCEPT ![r] = "SYNCED"]
      /\ UNCHANGED <<phase, populated, ready>>
  BY DEF ResourceSynced, world, cluster, objectVars
<1>2. phase[r] = "live"
  BY <1>1 DEF TypeOK, DataOK, Core, DeletingIsFinal, Creating
<1>3. ASSUME NEW q \in Resource
      PROVE  /\ rstate'[q] = "SYNCED" => phase[q] = "live" /\ (Flapping \/ IsResourceReady(q))
             /\ seen'[q] = "full" => phase[q] = "live" /\ populated[q]
  <2>1. CASE q = r
    BY <1>1, <1>2, <2>1 DEF Observation, TypeOK, DataOK
  <2>2. CASE q # r
    BY <1>1, <2>2 DEF ObservationStands, TypeOK, DataOK, Creating
  <2> QED
    BY <2>1, <2>2
<1> QED
  BY <1>1, <1>3 DEF ObservationStands, IsResourceReady

\* The objects change under a pass: their controllers complete them and may,
\* if readiness can be lost, make them unready; only an object that terminates
\* goes away.
LEMMA ObjectStepStands ==
    ASSUME ~ExternalDeletion, TypeOK, ObservationStands,
           NEW r \in Resource, ObjectStep(r)
    PROVE  ObservationStands'
<1>1. UNCHANGED <<pc, seen, rstate, state>>
  BY DEF ObjectStep, Populate, BecomeReady, BecomeUnready, Vanish,
     DeleteExternally, local, runtimeVars, result
<1>2. CASE Populate(r)
  BY <1>1, <1>2 DEF Populate, ObservationStands, IsResourceReady, TypeOK,
     DataOK
<1>3. CASE BecomeReady(r)
  BY <1>1, <1>3 DEF BecomeReady, ObservationStands, IsResourceReady, TypeOK,
     DataOK
<1>4. CASE BecomeUnready(r)
  BY <1>1, <1>4 DEF BecomeUnready, ObservationStands
<1>5. CASE Vanish(r)
  BY <1>1, <1>5 DEF Vanish, ObservationStands, IsResourceReady, TypeOK, DataOK
<1>6. CASE DeleteExternally(r)
  BY <1>6 DEF DeleteExternally
<1> QED
  BY <1>2, <1>3, <1>4, <1>5, <1>6 DEF ObjectStep

\* Every step keeps it.
LEMMA ObservationStep ==
    ASSUME ~ExternalDeletion, TypeOK, Core, Pass, ObservationStands, [Next]_vars
    PROVE  ObservationStands'
<1> USE DEF cluster, world, local, runtimeVars, result
<1>1. CASE \/ ProcessNextWorkItem \/ GetInstanceFound \/ StartDeleting
           \/ AllDeleted
  <2>1. pc' \notin Creating \ {"setManaged"} /\ state' # "ACTIVE"
    BY <1>1 DEF ProcessNextWorkItem, GetInstanceFound, StartDeleting,
       AllDeleted, Pass, CreationProgress, PassKind, Creating, Deleting
  <2> QED
    BY <2>1, NothingClaimed
<1>2. CASE \/ GetInstanceNotFound \/ GetInstanceFails \/ CreateRuntimeFails
           \/ PatchStatus \/ PatchStatusFails \/ Restart
  <2>1. NoReconciliation
    BY <1>2 DEF GetInstanceNotFound, GetInstanceFails, CreateRuntimeFails,
       PatchStatus, PatchStatusFails, Restart, Return
  <2> QED
    BY <2>1, NothingClaimed DEF NoReconciliation, Creating
<1>3. CASE AlreadyManaged \/ SetManaged
  <2>1. /\ pc = "setManaged" /\ UNCHANGED seen
        /\ rstate' = [r \in Resource |-> "PENDING"]
    BY <1>3 DEF AlreadyManaged, SetManaged, StartResources
  <2>2. \A r \in Resource : seen'[r] = "none" /\ rstate'[r] = "PENDING"
    BY <2>1 DEF Pass, CreationProgress
  <2> QED
    BY <2>2 DEF ObservationStands
<1>4. CASE SetManagedRefused
  <2>1. Refusal # "nil"
    BY DEF Refusal
  <2> QED
    BY <1>4, <2>1, FinishStands DEF SetManagedRefused, FinishUnchanged, Creating
<1>5. CASE SetManagedFails
  BY <1>5, FinishStands DEF SetManagedFails, Creating
<1>6. CASE AllReconciled
  BY <1>6, SameObservation DEF AllReconciled, FinishUnchanged, Creating
<1>7. CASE NothingToFinalize \/ SetUnmanaged \/ SetUnmanagedRefused \/ SetUnmanagedFails
  <2>1. pc = "finalizeDeletion" /\ \E e : Finish(e)
    BY <1>7 DEF NothingToFinalize, SetUnmanaged, SetUnmanagedRefused,
       SetUnmanagedFails, FinishUnchanged
  <2>2. pc' = "patchStatus" /\ state' # "ACTIVE"
    BY <2>1 DEF Finish, Pass, PassKind, Deleting
  <2> QED
    BY <2>2, NothingClaimed DEF Creating
<1>8. ASSUME NEW r \in Resource, SkipResource(r) PROVE ObservationStands'
  <2>1. \A q \in Resource : rstate'[q] = "SYNCED" => rstate[q] = "SYNCED"
    BY <1>8 DEF SkipResource, TypeOK, DataOK
  <2> QED
    BY <1>8, <2>1, SameObservation DEF SkipResource, Creating
<1>9. ASSUME NEW r \in Resource, ReconcileResource(r) PROVE ObservationStands'
  <2>1. \A q \in Resource : rstate'[q] = "SYNCED" => rstate[q] = "SYNCED"
    BY <1>9 DEF ReconcileResource, TypeOK, DataOK
  <2> QED
    BY <1>9, <2>1, SameObservation DEF ReconcileResource, Creating
<1>10. ASSUME NEW r \in Resource, GetResourceNotFound(r) PROVE ObservationStands'
  BY <1>10, SameObservation DEF GetResourceNotFound, Creating
<1>11. ASSUME NEW r \in Resource, ResourceSynced(r) PROVE ObservationStands'
  BY <1>11, ResourceSyncedStands
<1>12. ASSUME NEW r \in Resource,
              \/ ResourceNotResolved(r) \/ GetResourceFails(r)
              \/ ResourceNotReady(r) \/ CreateResource(r)
              \/ CreateResourceFails(r) \/ GetForDeletionFails(r)
              \/ DeleteResource(r) \/ DeleteResourceFails(r)
       PROVE  ObservationStands'
  <2>1. pc \in Creating \cup Deleting /\ \E e : e # "nil" /\ Finish(e)
    BY <1>12 DEF ResourceNotResolved, GetResourceFails, ResourceNotReady,
       CreateResource, CreateResourceFails, GetForDeletionFails,
       DeleteResource, DeleteResourceFails, FinishUnchanged, Creating, Deleting
  <2> QED
    BY <2>1, FinishStands
<1>13. ASSUME NEW r \in Resource, InitializeDeletion(r) PROVE ObservationStands'
  <2>1. /\ pc = "initializeDeletion"
        /\ \/ Finish("err")
           \/ pc' \in {"initializeDeletion", "getForDeletion"} /\ UNCHANGED state
    BY <1>13 DEF InitializeDeletion, SynchronizeThen
  <2> QED
    BY <2>1, FinishStands, NothingClaimed DEF Pass, PassKind, Creating, Deleting
<1>14. ASSUME NEW r \in Resource,
              \/ GetForDeletionNotFound(r) \/ GetForDeletionFound(r)
              \/ NothingToDelete(r) \/ DeleteResourceNotFound(r)
       PROVE  ObservationStands'
  <2>1. pc' \notin Creating \ {"setManaged"} /\ state' # "ACTIVE"
    BY <1>14 DEF GetForDeletionNotFound, GetForDeletionFound, NothingToDelete,
       DeleteResourceNotFound, Pass, PassKind, Creating, Deleting
  <2> QED
    BY <2>1, NothingClaimed
<1>15. ASSUME NEW r \in Resource, ObjectStep(r) PROVE ObservationStands'
  BY <1>15, ObjectStepStands
<1>16. CASE \/ DeliverEvent \/ CreateInstance \/ EditSpec \/ TouchInstance
            \/ DeleteInstance \/ RemoveOtherFinalizer \/ UNCHANGED vars
  <2>1. UNCHANGED <<pc, state, seen, rstate, phase, populated, ready>>
    BY <1>16 DEF DeliverEvent, CreateInstance, EditSpec, TouchInstance,
       DeleteInstance, RemoveOtherFinalizer, vars, objectVars
  <2> QED
    BY <2>1 DEF ObservationStands, IsResourceReady
<1> QED
  BY <1>1, <1>2, <1>3, <1>4, <1>5, <1>6, <1>7, <1>8, <1>9, <1>10, <1>11,
     <1>12, <1>13, <1>14, <1>15, <1>16 DEF Next, Reconcile, InstanceStep,
     ReconcileStep, DeletionStep, Environment

\* Deletion starts at the end of the order, so that an object is marked when
\* nothing is left after it; nothing is created while an object terminates.
LEMMA TerminatingStep ==
    ASSUME ~ExternalDeletion, TypeOK, Core, TerminatingIsLast, [Next]_vars
    PROVE  TerminatingIsLast'
<1>1. CASE UNCHANGED phase
  BY <1>1 DEF TerminatingIsLast
<1>2. ASSUME NEW r \in Resource, CreateResource(r) \/ CreateResourceFails(r)
      PROVE  TerminatingIsLast'
  <2>1. pc = "createResource" /\ (phase' = [phase EXCEPT ![r] = "live"] \/ UNCHANGED phase)
    BY <1>2 DEF CreateResource, CreateResourceFails, StoreObject, objectVars
  <2>2. \A q \in Resource : phase[q] # "terminating"
    BY <2>1 DEF Core, DeletingIsFinal, Creating
  <2>3. \A q \in Resource : phase'[q] # "terminating"
    BY <2>1, <2>2 DEF TypeOK, DataOK
  <2> QED
    BY <2>3, OrderAssumption DEF TerminatingIsLast
<1>3. ASSUME NEW r \in Resource, DeleteResource(r) \/ DeleteResourceFails(r)
      PROVE  TerminatingIsLast'
  <2>1. /\ pc = "deleteResource" /\ idx \in 1..N /\ r = Order[idx]
        /\ phase[r] # "absent"
        /\ RemoveObject(r) \/ UNCHANGED phase
    BY <1>3 DEF DeleteResource, DeleteResourceFails, Current, objectVars
  <2>2. \A j \in 1..N : j > idx => phase[Order[j]] = "absent"
    BY <2>1 DEF Core, DeletionProgress
  <2>3. \A q \in Resource : q # r => phase'[q] = phase[q]
    BY <2>1 DEF RemoveObject, TypeOK, DataOK
  <2>4. ASSUME NEW i \in 1..N, NEW j \in 1..N, i < j,
               phase'[Order[i]] = "terminating"
        PROVE  phase'[Order[j]] = "absent"
    <3>1. Order[i] \in Resource /\ Order[j] \in Resource
      BY OrderAssumption
    <3>2. CASE i >= idx
      <4>1. j > idx /\ Order[j] # r
        BY <2>1, <2>4, <3>2, OrderAssumption
      <4> QED
        BY <2>2, <2>3, <3>1, <4>1
    <3>3. CASE i < idx
      <4>1. Order[i] # r
        BY <2>1, <3>3, OrderAssumption
      <4>2. phase[Order[i]] = "terminating"
        BY <2>3, <2>4, <3>1, <4>1
      <4> QED
        BY <2>1, <3>3, <4>2 DEF TerminatingIsLast
    <3> QED
      BY <2>1, <3>2, <3>3
  <2> QED
    BY <2>4 DEF TerminatingIsLast
<1>4. ASSUME NEW r \in Resource, Vanish(r)
      PROVE  TerminatingIsLast'
  BY <1>4, OrderAssumption DEF Vanish, TerminatingIsLast, TypeOK, DataOK
<1>5. ASSUME NEW r \in Resource, DeleteExternally(r)
      PROVE  TerminatingIsLast'
  BY <1>5 DEF DeleteExternally
<1> QED
  BY <1>1, <1>2, <1>3, <1>4, <1>5, WritesObjects

\* No reconciliation has observed anything at the start.
LEMMA InitStanding == Init => Standing
  BY OrderAssumption DEF Init, Standing, ObservationStands, TerminatingIsLast,
     Creating

\* The invariants hold together in every state (reconcileInstance,
\* handleInstanceDeletion, processNextWorkItem).
THEOREM FullInvHolds ==
    ASSUME Unaliased, ~ExternalDeletion
    PROVE  SafetySpec => []FullInv
<1>1. Init => FullInv
  BY InitTypes, InitCore, InitPass, InitStanding DEF FullInv, IndInv
<1>2. FullInv /\ [Next]_vars => FullInv'
  BY FlagsStep, DataStep, CoreStep, PassStep, ObservationStep, TerminatingStep
     DEF FullInv, IndInv, TypeOK, Standing
<1> QED
  BY <1>1, <1>2, PTL DEF SafetySpec

-----------------------------------------------------------------------------
(***************************************************************************)
(* Order of creation, and completeness.                                    *)
(***************************************************************************)

\* A resource is created under the finalizer, when the resources it depends on
\* are live, have the fields that are read from them and, unless readiness can
\* be lost, are ready at that very moment and not only when the pass looked
\* (reconcileResource, canProcessResource).
THEOREM CreationsAreOrdered ==
    ASSUME Unaliased, ~ExternalDeletion
    PROVE  SafetySpec => CreatedInOrder
<1>1. FullInv /\ [Next]_vars => [CreationInOrder]_vars
  <2> SUFFICES ASSUME FullInv, [Next]_vars, NEW r \in Resource, Created(r)
               PROVE  /\ finalizer
                      /\ \A d \in GetDependencies[r] :
                            /\ phase[d] = "live"
                            /\ populated[d]
                            /\ Flapping \/ IsResourceReady(d)
    BY DEF CreationInOrder
  <2>1. pc = "createResource" /\ r = Order[idx]
    BY CreatedByPass DEF FullInv, IndInv
  <2>2. finalizer
    BY <2>1 DEF FullInv, IndInv, Core, CreatingIsManaged, Creating
  <2>3. \A d \in GetDependencies[r] :
           d \in Resource /\ rstate[d] = "SYNCED" /\ seen[d] = "full"
    BY <2>1, DerivedTypes DEF FullInv, Pass, DependenciesSynced
  <2> QED
    BY <2>1, <2>2, <2>3 DEF FullInv, Standing, ObservationStands, Creating
<1> QED
  BY <1>1, FullInvHolds, PTL DEF SafetySpec, CreatedInOrder

\* The status is written by PatchStatus only.
LEMMA WritesActive ==
    ASSUME [Next]_vars, status # "ACTIVE", status' = "ACTIVE"
    PROVE  fresh /\ state = "ACTIVE"
<1> USE DEF instanceVars, cluster, world
<1>1. CASE InstanceStep
  BY <1>1 DEF InstanceStep, ProcessNextWorkItem, GetInstanceNotFound,
     GetInstanceFails, CreateRuntimeFails, GetInstanceFound, AlreadyManaged,
     SetManaged, SetManagedRefused, SetManagedFails, AllReconciled,
     StartDeleting, AllDeleted, NothingToFinalize, SetUnmanaged,
     SetUnmanagedRefused, SetUnmanagedFails, PatchStatus, PatchStatusFails,
     DropFinalizer
<1>2. ASSUME NEW r \in Resource, ReconcileStep(r) PROVE UNCHANGED status
  BY <1>2 DEF ReconcileStep, SkipResource, ResourceNotResolved,
     ReconcileResource, GetResourceFails, GetResourceNotFound,
     ResourceNotReady, ResourceSynced, CreateResource, CreateResourceFails
<1>3. ASSUME NEW r \in Resource, DeletionStep(r) PROVE UNCHANGED status
  BY <1>3 DEF DeletionStep, InitializeDeletion, GetForDeletionFails,
     GetForDeletionNotFound, GetForDeletionFound, NothingToDelete,
     DeleteResourceNotFound, DeleteResource, DeleteResourceFails
<1>4. ASSUME NEW r \in Resource, ObjectStep(r) PROVE UNCHANGED status
  BY <1>4 DEF ObjectStep, Populate, BecomeReady, BecomeUnready, Vanish,
     DeleteExternally
<1>5. CASE \/ DeliverEvent \/ CreateInstance \/ EditSpec \/ TouchInstance
           \/ DeleteInstance \/ RemoveOtherFinalizer \/ Restart
  BY <1>5 DEF DeliverEvent, CreateInstance, EditSpec, TouchInstance,
     DeleteInstance, RemoveOtherFinalizer, Restart
<1>6. CASE UNCHANGED vars
  BY <1>6 DEF vars
<1> QED
  BY <1>1, <1>2, <1>3, <1>4, <1>5, <1>6 DEF Next, Reconcile, Environment

\* The status turns ACTIVE only for an instance that is live and whose objects
\* all exist and, unless readiness can be lost, are ready, except the ones that
\* the present spec leaves out (updateInstanceState, patchInstanceStatus).
THEOREM ActiveIsComplete ==
    ASSUME Unaliased, ~ExternalDeletion
    PROVE  SafetySpec => ActiveMeansComplete
<1>1. FullInv /\ [Next]_vars
        => [status # "ACTIVE" /\ status' = "ACTIVE" => Complete]_vars
  <2> SUFFICES ASSUME FullInv, [Next]_vars, status # "ACTIVE", status' = "ACTIVE"
               PROVE  Complete
    OBVIOUS
  <2>1. fresh /\ state = "ACTIVE"
    BY WritesActive
  <2>2. ~snap.deleting /\ \A r \in Resource : Treated(r)
    BY <2>1 DEF FullInv, Pass, CreationProgress
  <2>3. instance = "live" /\ spec = snap.spec
    BY <2>1, <2>2 DEF FullInv, Pass, FreshSnapshot
  <2>4. \A r \in Resource : rstate[r] = "SYNCED" =>
           phase[r] = "live" /\ (Flapping \/ IsResourceReady(r))
    BY <2>1 DEF FullInv, Standing, ObservationStands
  <2> QED
    BY <2>2, <2>3, <2>4 DEF Complete, Treated, LeftOut
<1> QED
  BY <1>1, FullInvHolds, PTL DEF SafetySpec, ActiveMeansComplete

-----------------------------------------------------------------------------
(***************************************************************************)
(* InstanceReconciler implements the safety part of InstanceLifecycle: under *)
(* the invariant FullInv, each action that writes the instance, the        *)
(* finalizer, an object or the record of a dropped key is one step of the  *)
(* lifecycle, and the others are stutters.                                 *)
(***************************************************************************)

\* The result of a pass changes at most whether the key was dropped.
LEMMA HandleResultStep ==
    ASSUME TypeOK, TypeOK', NEW e, HandleResult(e),
           UNCHANGED <<instance, finalizer, phase>>
    PROVE  [Lifecycle!Next]_(Lifecycle!vars)
<1>1. gaveUp' = gaveUp \/ gaveUp' = ~gaveUp
  BY Zenon DEF TypeOK, FlagsOK
<1>2. CASE gaveUp' = gaveUp
  BY <1>2 DEF Lifecycle!vars
<1>3. CASE gaveUp' = ~gaveUp
  BY <1>3 DEF Lifecycle!Next, Lifecycle!GiveUpOrResume
<1> QED
  BY <1>1, <1>2, <1>3

\* setManaged writes the finalizer of an instance that it read as live, and
\* only if nobody has written the instance since.
LEMMA ManageStep ==
    ASSUME FullInv, pc = "setManaged", ~snap.finalizer, fresh,
           finalizer' = TRUE, UNCHANGED <<instance, phase, gaveUp>>
    PROVE  Lifecycle!Next
<1>1. instance = "live"
  BY DEF FullInv, Pass, PassKind, FreshSnapshot, Creating
<1>2. ~finalizer
  BY Zenon DEF FullInv, IndInv, Core, FreshView
<1> QED
  BY <1>1, <1>2 DEF Lifecycle!Next, Lifecycle!Manage

\* A Create comes after the finalizer and after the objects it depends on,
\* when nothing terminates.
LEMMA CreateStep ==
    ASSUME FullInv, pc = "createResource", idx \in 1..N, NEW r \in Resource,
           r = Order[idx], phase[r] = "absent",
           phase' = [phase EXCEPT ![r] = "live"],
           UNCHANGED <<instance, finalizer, gaveUp>>
    PROVE  Lifecycle!Next
<1>1. finalizer
  BY DEF FullInv, IndInv, Core, CreatingIsManaged, Creating
<1>2. \A d \in GetDependencies[r] : phase[d] = "live"
  BY DEF FullInv, IndInv, Core, DependenciesLive
<1>3. \A q \in Resource : phase[q] # "terminating"
  BY DEF FullInv, IndInv, Core, DeletingIsFinal, Creating
<1>4. Lifecycle!CreateObject(r)
  BY <1>1, <1>2, <1>3 DEF Lifecycle!CreateObject, Lifecycle!NoneTerminating
<1> QED
  BY <1>4 DEF Lifecycle!Next

\* A Delete comes when nothing is left that depends on the object and nothing
\* else terminates; a Delete of an object that terminates changes nothing.
LEMMA RemoveStep ==
    ASSUME FullInv, pc = "deleteResource", idx \in 1..N, NEW r \in Resource,
           r = Order[idx], phase[r] # "absent", RemoveObject(r),
           UNCHANGED <<instance, finalizer, gaveUp>>
    PROVE  [Lifecycle!Next]_(Lifecycle!vars)
<1>1. phase[r] \in {"live", "terminating"} /\ phase \in [Resource -> {"absent", "live", "terminating"}]
  BY DEF FullInv, IndInv, TypeOK, DataOK
<1>2. CASE phase[r] = "terminating"
  <2>1. phase' = phase
    BY <1>1, <1>2 DEF RemoveObject
  <2> QED
    BY <2>1 DEF Lifecycle!vars
<1>3. CASE phase[r] = "live"
  <2>1. finalizer /\ instance = "deleting"
    <3>1. finalizer /\ instance # "absent"
      BY <1>3 DEF FullInv, IndInv, Core, NoOrphans
    <3>2. instance # "live"
      BY <3>1 DEF FullInv, IndInv, Core, DeletingIsFinal, Deleting
    <3> QED
      BY <3>1, <3>2 DEF FullInv, IndInv, TypeOK, DataOK
  <2>2. \A j \in 1..N : j > idx => phase[Order[j]] = "absent"
    BY DEF FullInv, IndInv, Core, DeletionProgress
  <2>3. ASSUME NEW q \in Resource, r \in GetDependencies[q]
        PROVE  phase[q] = "absent"
    <3>1. PICK j \in 1..N : Order[j] = q
      BY OrderAssumption
    <3>2. PICK i \in 1..(j - 1) : Order[i] = r
      BY <2>3, <3>1, OrderAssumption
    <3>3. i \in 1..N
      BY <3>2, OrderAssumption
    <3>4. i = idx
      BY <3>2, <3>3, OrderAssumption
    <3> QED
      BY <2>2, <3>1, <3>2, <3>4
  <2>4. ASSUME NEW q \in Resource
        PROVE  phase[q] # "terminating"
    <3>1. PICK j \in 1..N : Order[j] = q
      BY OrderAssumption
    <3>2. CASE j < idx
      BY <1>3, <3>1, <3>2 DEF FullInv, Standing, TerminatingIsLast
    <3>3. CASE j = idx
      BY <1>3, <3>1, <3>3
    <3>4. CASE j > idx
      BY <2>2, <3>1, <3>4
    <3> QED
      BY <3>2, <3>3, <3>4
  <2>5. \E p \in {"terminating", "absent"} : phase' = [phase EXCEPT ![r] = p]
    BY <1>3 DEF RemoveObject
  <2>6. Lifecycle!RemoveObject(r)
    BY <1>3, <2>1, <2>3, <2>4, <2>5 DEF Lifecycle!RemoveObject,
       Lifecycle!NoneTerminating
  <2> QED
    BY <2>6 DEF Lifecycle!Next, Lifecycle!Dismantle
<1> QED
  BY <1>1, <1>2, <1>3

\* The finalizer is dropped for a deleted instance without objects, and the
\* instance may go with it.
LEMMA ReleaseStep ==
    ASSUME FullInv, pc = "finalizeDeletion", snap.finalizer, fresh,
           DropFinalizer, UNCHANGED <<phase, gaveUp>>
    PROVE  Lifecycle!Next
<1>1. instance = "deleting"
  BY DEF FullInv, Pass, PassKind, FreshSnapshot, Deleting
<1>2. finalizer
  BY Zenon DEF FullInv, IndInv, Core, FreshView
<1>3. \A r \in Resource : phase[r] = "absent"
  BY DEF FullInv, IndInv, Core, DeletionProgress
<1>4. finalizer' = FALSE /\ instance' \in {"deleting", "absent"}
  BY <1>1, Zenon DEF DropFinalizer
<1>5. Lifecycle!Release
  BY <1>1, <1>2, <1>3, <1>4, Zenon DEF Lifecycle!Release
<1> QED
  BY <1>5, Zenon DEF Lifecycle!Next, Lifecycle!Dismantle

\* The user, foreign finalizers, and the API server.
LEMMA UserStep ==
    ASSUME FullInv, CreateInstance \/ DeleteInstance \/ RemoveOtherFinalizer
    PROVE  [Lifecycle!Next]_(Lifecycle!vars)
<1>1. CASE CreateInstance
  BY <1>1 DEF CreateInstance, objectVars, Lifecycle!Next,
     Lifecycle!CreateInstance
<1>2. CASE DeleteInstance
  <2>1. /\ instance = "live"
        /\ UNCHANGED <<finalizer, phase, gaveUp>>
        /\ instance' \in IF finalizer THEN {"deleting"} ELSE {"deleting", "absent"}
    BY <1>2 DEF DeleteInstance, objectVars
  <2> QED
    BY <2>1 DEF Lifecycle!Next, Lifecycle!DeleteInstance
<1>3. CASE RemoveOtherFinalizer
  <2>1. UNCHANGED <<finalizer, phase, gaveUp>> /\ otherFinalizer
    BY <1>3 DEF RemoveOtherFinalizer, objectVars
  <2>2. instance = "deleting"
    BY <2>1, Zenon DEF FullInv, IndInv, Core, Finalizers
  <2>3. CASE finalizer
    BY <1>3, <2>1, <2>3 DEF RemoveOtherFinalizer, Lifecycle!vars
  <2>4. CASE ~finalizer
    <3>1. instance' = "absent"
      BY <1>3, <2>4 DEF RemoveOtherFinalizer
    <3> QED
      BY <2>1, <2>2, <2>4, <3>1 DEF Lifecycle!Next, Lifecycle!Dismantle,
         Lifecycle!Disappear
  <2> QED
    BY <2>3, <2>4
<1> QED
  BY <1>1, <1>2, <1>3

-----------------------------------------------------------------------------
\* Every step is a step of the lifecycle or a stutter.
LEMMA RefinementStep ==
    ASSUME ~ExternalDeletion, FullInv, TypeOK', [Next]_vars
    PROVE  [Lifecycle!Next]_(Lifecycle!vars)
<1> USE DEF instanceVars, objectVars, queueVars, cluster, world
<1>1. CASE \/ ProcessNextWorkItem \/ GetInstanceFound \/ AlreadyManaged
           \/ SetManagedRefused \/ AllReconciled \/ StartDeleting \/ AllDeleted
           \/ NothingToFinalize \/ SetUnmanagedRefused
  BY <1>1 DEF ProcessNextWorkItem, GetInstanceFound, AlreadyManaged,
     SetManagedRefused, AllReconciled, StartDeleting, AllDeleted,
     NothingToFinalize, SetUnmanagedRefused, Lifecycle!vars
<1>2. CASE \/ GetInstanceNotFound \/ GetInstanceFails \/ CreateRuntimeFails
           \/ PatchStatus \/ PatchStatusFails
  <2>1. UNCHANGED <<instance, finalizer, phase>> /\ \E e : HandleResult(e)
    BY <1>2 DEF GetInstanceNotFound, GetInstanceFails, CreateRuntimeFails,
       PatchStatus, PatchStatusFails, Return
  <2> QED
    BY <2>1, HandleResultStep DEF FullInv, IndInv
<1>3. CASE SetManaged
  BY <1>3, ManageStep DEF SetManaged
<1>4. CASE SetManagedFails
  <2>1. /\ pc = "setManaged" /\ ~snap.finalizer
        /\ UNCHANGED <<instance, phase, gaveUp>>
        /\ finalizer' = finalizer \/ (fresh /\ finalizer' = TRUE)
    BY <1>4, Zenon DEF SetManagedFails, FullInv, IndInv, TypeOK, FlagsOK
  <2> QED
    BY <2>1, ManageStep DEF Lifecycle!vars
<1>5. CASE SetUnmanaged
  BY <1>5, ReleaseStep DEF SetUnmanaged
<1>6. CASE SetUnmanagedFails
  BY <1>6, ReleaseStep DEF SetUnmanagedFails, Lifecycle!vars
<1>7. ASSUME NEW r \in Resource,
             \/ SkipResource(r) \/ ResourceNotResolved(r)
             \/ ReconcileResource(r) \/ GetResourceFails(r)
             \/ GetResourceNotFound(r) \/ ResourceNotReady(r)
             \/ ResourceSynced(r) \/ InitializeDeletion(r)
             \/ GetForDeletionFails(r) \/ GetForDeletionNotFound(r)
             \/ GetForDeletionFound(r) \/ NothingToDelete(r)
             \/ DeleteResourceNotFound(r)
      PROVE  UNCHANGED Lifecycle!vars
  BY <1>7 DEF SkipResource, ResourceNotResolved, ReconcileResource,
     GetResourceFails, GetResourceNotFound, ResourceNotReady, ResourceSynced,
     InitializeDeletion, GetForDeletionFails, GetForDeletionNotFound,
     GetForDeletionFound, NothingToDelete, DeleteResourceNotFound,
     Lifecycle!vars
<1>8. ASSUME NEW r \in Resource, CreateResource(r) \/ CreateResourceFails(r)
      PROVE  [Lifecycle!Next]_(Lifecycle!vars)
  <2>1. /\ pc = "createResource" /\ idx \in 1..N /\ r = Order[idx]
        /\ phase[r] = "absent"
        /\ phase' = [phase EXCEPT ![r] = "live"] \/ UNCHANGED phase
        /\ UNCHANGED <<instance, finalizer, gaveUp>>
    BY <1>8 DEF CreateResource, CreateResourceFails, StoreObject, Current
  <2> QED
    BY <2>1, CreateStep DEF Lifecycle!vars
<1>9. ASSUME NEW r \in Resource, DeleteResource(r) \/ DeleteResourceFails(r)
      PROVE  [Lifecycle!Next]_(Lifecycle!vars)
  <2>1. /\ pc = "deleteResource" /\ idx \in 1..N /\ r = Order[idx]
        /\ phase[r] # "absent"
        /\ RemoveObject(r) \/ UNCHANGED phase
        /\ UNCHANGED <<instance, finalizer, gaveUp>>
    BY <1>9 DEF DeleteResource, DeleteResourceFails, Current
  <2> QED
    BY <2>1, RemoveStep DEF Lifecycle!vars
<1>10. CASE CreateInstance \/ DeleteInstance \/ RemoveOtherFinalizer
  BY <1>10, UserStep
<1>11. CASE DeliverEvent \/ Restart
  <2>1. UNCHANGED <<instance, finalizer, phase>> /\ gaveUp' = FALSE
    BY <1>11 DEF DeliverEvent, Restart
  <2>2. gaveUp' = gaveUp \/ gaveUp' = ~gaveUp
    BY <2>1, Zenon DEF FullInv, IndInv, TypeOK, FlagsOK
  <2>3. CASE gaveUp' = gaveUp
    BY <2>1, <2>3 DEF Lifecycle!vars
  <2>4. CASE gaveUp' = ~gaveUp
    BY <2>1, <2>4 DEF Lifecycle!Next, Lifecycle!GiveUpOrResume
  <2> QED
    BY <2>2, <2>3, <2>4
<1>12. CASE EditSpec \/ TouchInstance
  BY <1>12 DEF EditSpec, TouchInstance, Lifecycle!vars
<1>13. ASSUME NEW r \in Resource, Populate(r) \/ BecomeReady(r) \/ BecomeUnready(r)
       PROVE  UNCHANGED Lifecycle!vars
  BY <1>13 DEF Populate, BecomeReady, BecomeUnready, Lifecycle!vars
<1>14. ASSUME NEW r \in Resource, Vanish(r)
       PROVE  Lifecycle!Next
  <2>1. Lifecycle!Vanish(r)
    BY <1>14 DEF Vanish, Lifecycle!Vanish
  <2> QED
    BY <2>1 DEF Lifecycle!Next, Lifecycle!Dismantle
<1>15. ASSUME NEW r \in Resource, DeleteExternally(r)
       PROVE  Lifecycle!Next
  BY <1>15 DEF DeleteExternally
<1>16. CASE UNCHANGED vars
  BY <1>16 DEF vars, Lifecycle!vars
<1> QED
  BY <1>1, <1>2, <1>3, <1>4, <1>5, <1>6, <1>7, <1>8, <1>9, <1>10, <1>11,
     <1>12, <1>13, <1>14, <1>15, <1>16 DEF Next, Reconcile, InstanceStep,
     ReconcileStep, DeletionStep, Environment, ObjectStep

\* Through passes, conflicts, failed and half-failed calls, restarts and
\* edits, what happens to the instance and its objects is what the lifecycle
\* allows (reconcileInstance, handleInstanceDeletion, processNextWorkItem).
THEOREM LifecycleIsImplemented ==
    ASSUME Unaliased, ~ExternalDeletion
    PROVE  SafetySpec => ImplementsLifecycle
<1>1. Init => Lifecycle!Init
  BY DEF Init, Lifecycle!Init
<1>2. FullInv /\ FullInv' /\ [Next]_vars => [Lifecycle!Next]_(Lifecycle!vars)
  BY RefinementStep DEF FullInv, IndInv
<1> QED
  BY <1>1, <1>2, FullInvHolds, PTL DEF SafetySpec, ImplementsLifecycle,
     Lifecycle!SafetySpec
=============================================================================
