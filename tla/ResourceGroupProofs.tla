------------------------ MODULE ResourceGroupProofs ------------------------
(***************************************************************************)
(* Safety of the ResourceGroup controller for every number of              *)
(* ResourceGroups and kinds, also when several ResourceGroups claim one    *)
(* kind, and however far the cache of the manager trails the cluster: with *)
(* allow-crd-deletion a CRD always has an owner.                           *)
(***************************************************************************)
EXTENDS ResourceGroupController, RegistryProofs

\* The steps of a reconciliation that creates, and of one that deletes.
Creating == {"setManaged", "graph", "getCRD", "createCRD", "patchCRD",
             "waitForReady", "startServing", "serving", "status"}
Deleting == {"stopService", "stopping", "deleteCRD", "setUnmanaged"}

\* A ResourceGroup that is gone has no finalizer.
AbsentIsUnmanaged(r) == rg[r].phase = "absent" => ~rg[r].finalizer

\* However late the cache is: a ResourceGroup that it shows live and managed
\* is still managed; and if it shows the deletion of a managed ResourceGroup
\* that was replaced by a new one, the new one is not managed yet.
CacheIsSound(r) ==
    /\ cached[r].phase = "live" /\ cached[r].finalizer => rg[r].finalizer
    /\ (cached[r].phase = "deleting" /\ cached[r].finalizer
          /\ rg[r].phase = "live") => ~rg[r].finalizer

\* While a reconciliation creates, nobody removes the finalizer: what the
\* copy that it was given and the cache say of it is true, and it is set
\* before anything is created.
CreatingIsManaged(r) ==
    /\ pc[r] \in Creating =>
         /\ snap[r].finalizer => rg[r].finalizer
         /\ cached[r].finalizer => rg[r].finalizer
         /\ cached[r].phase = "deleting" /\ cached[r].finalizer =>
                rg[r].phase = "deleting"
    /\ pc[r] \in Creating \ {"setManaged"} => rg[r].finalizer

\* If the ResourceGroup whose finalizer a reconciliation is about to remove
\* was replaced by a new one, neither the new one nor what the cache shows
\* of it is managed.
DeletingIsFinal(r) ==
    pc[r] \in Deleting /\ snap[r].finalizer =>
        /\ rg[r].phase = "live" => ~rg[r].finalizer
        /\ cached[r].phase = "live" => ~cached[r].finalizer

\* The owner of a CRD has not reached the removal of its finalizer.
Owned(k) ==
    (AllowCRDDeletion /\ crd[k].phase \in {"pending", "established"}) =>
        \E r \in ResourceGroup : /\ KindOf[r] = k
                                 /\ rg[r].finalizer
                                 /\ pc[r] # "setUnmanaged"

Managed(r) ==
    /\ AbsentIsUnmanaged(r)
    /\ CacheIsSound(r)
    /\ CreatingIsManaged(r)
    /\ DeletingIsFinal(r)

OwnerInv ==
    /\ \A r \in ResourceGroup : Managed(r)
    /\ \A k \in Kind : Owned(k)

-----------------------------------------------------------------------------
\* The steps of the two operations of the registry.
Starts == {"start", "update", "storeHandler", "runInformer",
           "waitForCacheSync", "storeInformer"}
Stops == {"stop", "shutdown", "deleteInformer", "deleteHandler"}

\* A ResourceGroup is in an operation of the registry only where its
\* reconciliation waits for it.  The two operations name different GVRs.
CallInPlace(r) ==
    \/ Resting(r)
    \/ /\ pc[r] = "serving"
       /\ call[r].at \in Starts
       /\ call[r].gvr = GVKtoGVR(KindOf[r])
       /\ call[r].handler = snap[r].spec
    \/ /\ pc[r] = "stopping"
       /\ call[r].at \in Stops
       /\ call[r].gvr = GetResourceGroupInstanceGVR(KindOf[r])

CallInv == RegistryInv /\ \A r \in ResourceGroup : CallInPlace(r)

-----------------------------------------------------------------------------
\* An informer that is registered has synced; the one that is being
\* registered has a handler already.
Registration(r) ==
    LET g == GVKtoGVR(KindOf[r]) IN
    /\ informers[g] # 0 => <<g, informers[g]>> \in synced
    /\ pc[r] = "serving" =>
         /\ call[r].at \in {"none", "update"} => informers[g] # 0
         /\ call[r].at \in {"none", "runInformer", "waitForCacheSync",
                           "storeInformer"} => handlers[g] = snap[r].spec
         /\ call[r].at = "storeInformer" =>
                <<g, call[r].informer>> \in synced

\* What a reconciliation has achieved when it comes to a step.
Achieved(r) ==
    LET c == crd[KindOf[r]]
        s == snap[r].spec IN
    /\ c.phase = "terminating" => AllowCRDDeletion
    /\ pc[r] \in {"getCRD", "createCRD", "patchCRD", "waitForReady",
                 "startServing", "serving"} => s \in Verified
    /\ pc[r] = "waitForReady" /\ c.phase = "absent" => AllowCRDDeletion
    /\ pc[r] = "waitForReady" /\ c.phase # "absent" => c.spec = s
    /\ pc[r] \in {"startServing", "serving"} => InPlace(r, s)
    /\ pc[r] = "status" /\ verdict[r] = "nil" =>
          /\ s \in Verified
          /\ InPlace(r, s)
          /\ informers[GVKtoGVR(KindOf[r])] # 0
          /\ handlers[GVKtoGVR(KindOf[r])] = s

Served(r) == Registration(r) /\ Achieved(r)

ServedInv == \A r \in ResourceGroup : Served(r)

-----------------------------------------------------------------------------
\* The values that stand for nothing are typed.
LEMMA AbsentTypes == Absent \in Copies /\ NoCRD \in CRDs
  BY ResourceGroupAssumption DEF Absent, NoCRD, NoContents, Copies, States, CRDs

\* What the writes of a reconciliation leave in the cluster is typed.
LEMMA WriteTypes ==
    ASSUME DataOK, NEW r \in ResourceGroup
    PROVE  /\ \A kro \in BOOLEAN : Patched(r, kro) \in [ResourceGroup -> Copies]
           /\ Reported(r) \in [ResourceGroup -> Copies]
           /\ Written(r) \in [Kind -> CRDs]
           /\ CRDDeleted(r) \in [Kind -> CRDs]
<1>1. ASSUME NEW kro \in BOOLEAN
      PROVE  Patched(r, kro) \in [ResourceGroup -> Copies]
  <2>1. rg[r] \in Copies /\ snap[r] \in Copies
    BY DEF DataOK
  <2>2. snap[r].foreign \in BOOLEAN
    BY <2>1 DEF Copies
  <2>3. [rg[r] EXCEPT !.finalizer = kro, !.foreign = snap[r].foreign] \in Copies
    BY <2>1, <2>2 DEF Copies
  <2> QED
    BY <2>3, AbsentTypes DEF DataOK, Patched
<1>2. Reported(r) \in [ResourceGroup -> Copies]
  <2>1. rg[r] \in Copies /\ State(r) \in States
    BY DEF DataOK, State, States
  <2>2. [rg[r] EXCEPT !.state = State(r)] \in Copies
    BY <2>1 DEF Copies
  <2> QED
    BY <2>2 DEF DataOK, Reported
<1>3. Written(r) \in [Kind -> CRDs]
  BY ResourceGroupAssumption DEF DataOK, Written, CRDs, Copies
<1>4. CRDDeleted(r) \in [Kind -> CRDs]
  BY ResourceGroupAssumption DEF DataOK, CRDDeleted, CRDs
<1> QED
  BY <1>1, <1>2, <1>3, <1>4

\* The steps of a reconciliation keep the types.
LEMMA GroupSteps ==
    ASSUME DataOK, NEW r \in ResourceGroup, ReconcileStep(r)
    PROVE  DataOK'
<1>1. CASE AlreadyManaged(r)
  BY <1>1 DEF AlreadyManaged, DataOK, Proceed, Goto, clusterVars, queueVars
<1>2. CASE SetManaged(r)
  BY <1>2, WriteTypes DEF SetManaged, DataOK, Proceed, Goto, queueVars
<1>3. CASE SetManagedFails(r)
  <2>1. Patched(r, TRUE) \in [ResourceGroup -> Copies]
    BY WriteTypes
  <2>2. rg' \in [ResourceGroup -> Copies] /\ faults' \in 0..MaxFaults
    <3>1. /\ rg' \in {rg, Patched(r, TRUE)}
          /\ CanFail("setManaged") \/ faults' = faults
      BY <1>3, Zenon DEF SetManagedFails
    <3>2. rg' \in [ResourceGroup -> Copies]
      BY <2>1, <3>1 DEF DataOK
    <3>3. faults' \in 0..MaxFaults
      BY <3>1, ResourceGroupAssumption DEF CanFail, DataOK
    <3> QED
      BY <3>2, <3>3
  <2> QED
    BY <1>3, <2>2, AbsentTypes DEF SetManagedFails, DataOK, Fail, Return,
       queueVars, NotifyIfGone
<1>4. CASE ReconcileResourceGroupGraph(r)
  BY <1>4 DEF ReconcileResourceGroupGraph, DataOK, Proceed, Conclude, Goto,
     clusterVars, queueVars
<1>5. CASE GetCRD(r)
  BY <1>5, ResourceGroupAssumption DEF GetCRD, DataOK, Proceed, Goto,
     clusterVars, queueVars
<1>6. CASE GetCRDFails(r)
  BY <1>6, ResourceGroupAssumption DEF GetCRDFails, DataOK, Conclude, Goto,
     CanFail, clusterVars, queueVars
<1>7. CASE WriteCRD(r)
  BY <1>7, WriteTypes DEF WriteCRD, DataOK, Proceed, Goto, queueVars
<1>8. CASE WriteCRDFails(r)
  BY <1>8, ResourceGroupAssumption, WriteTypes DEF WriteCRDFails, DataOK,
     Conclude, Goto, CanFail, queueVars
<1>9. CASE WaitForReady(r)
  BY <1>9, ResourceGroupAssumption DEF WaitForReady, DataOK, Proceed, Goto,
     clusterVars, queueVars
<1>10. CASE WaitForReadyFails(r)
  BY <1>10, ResourceGroupAssumption DEF WaitForReadyFails, DataOK, Conclude,
     Goto, CanFail, clusterVars, queueVars
<1>11. CASE ReconcileMicroController(r)
  BY <1>11, ResourceGroupAssumption DEF ReconcileMicroController, DataOK,
     Proceed, Goto, clusterVars, queueVars
<1>12. CASE MicroControllerServes(r)
  BY <1>12 DEF MicroControllerServes, DataOK, Conclude, Goto, clusterVars,
     queueVars
<1>13. CASE SetResourceGroupStatus(r)
  BY <1>13, AbsentTypes, WriteTypes DEF SetResourceGroupStatus, DataOK,
     Return, queueVars
<1>14. CASE SetResourceGroupStatusFails(r)
  BY <1>14, ResourceGroupAssumption, AbsentTypes, WriteTypes DEF
     SetResourceGroupStatusFails, DataOK, Fail, Return, CanFail
<1>15. CASE ShutdownMicroController(r)
  BY <1>15, ResourceGroupAssumption DEF ShutdownMicroController, DataOK,
     Proceed, Goto, clusterVars, queueVars
<1>16. CASE MicroControllerStopped(r)
  BY <1>16 DEF MicroControllerStopped, DataOK, Proceed, Goto, clusterVars,
     queueVars
<1>17. CASE CleanupCRD(r)
  BY <1>17, WriteTypes DEF CleanupCRD, DataOK, Proceed, Goto, queueVars
<1>18. CASE CleanupCRDFails(r)
  BY <1>18, ResourceGroupAssumption, AbsentTypes, WriteTypes DEF
     CleanupCRDFails, DataOK, Fail, Return, CanFail
<1>19. CASE AlreadyUnmanaged(r)
  BY <1>19, AbsentTypes DEF AlreadyUnmanaged, DataOK, Return, clusterVars,
     queueVars
<1>20. CASE SetUnmanaged(r)
  BY <1>20, AbsentTypes, WriteTypes DEF SetUnmanaged, DataOK, Return,
     NotifyIfGone
<1>21. CASE SetUnmanagedFails(r)
  <2>1. Patched(r, FALSE) \in [ResourceGroup -> Copies]
    BY WriteTypes
  <2>2. rg' \in [ResourceGroup -> Copies] /\ faults' \in 0..MaxFaults
    <3>1. /\ rg' \in {rg, Patched(r, FALSE)}
          /\ CanFail("setUnmanaged") \/ faults' = faults
      BY <1>21, Zenon DEF SetUnmanagedFails
    <3>2. rg' \in [ResourceGroup -> Copies]
      BY <2>1, <3>1 DEF DataOK
    <3>3. faults' \in 0..MaxFaults
      BY <3>1, ResourceGroupAssumption DEF CanFail, DataOK
    <3> QED
      BY <3>2, <3>3
  <2> QED
    BY <1>21, <2>2, AbsentTypes DEF SetUnmanagedFails, DataOK, Fail, Return,
       queueVars, NotifyIfGone
<1> QED
  BY <1>1, <1>2, <1>3, <1>4, <1>5, <1>6, <1>7, <1>8, <1>9, <1>10, <1>11,
     <1>12, <1>13, <1>14, <1>15, <1>16, <1>17, <1>18, <1>19, <1>20, <1>21 DEF
     ReconcileStep

\* The steps outside a reconciliation, and those that begin one.
OtherStep ==
    \/ UserNext
    \/ ServerNext
    \/ \E r \in ResourceGroup : \/ Observe(r)
                                \/ ReconcileNotFound(r)
                                \/ Reconcile(r)
                                \/ RegistryStep(r)
    \/ Crash

\* The steps of users, of the API server and of the cache, and the steps
\* that begin a reconciliation, keep the types.
LEMMA OtherSteps ==
    ASSUME DataOK, OtherStep
    PROVE  DataOK'
<1>1. ASSUME NEW q \in ResourceGroup, NEW s \in Contents, NEW f \in BOOLEAN,
             Create(q, s, f)
      PROVE  DataOK'
  <2>1. [Absent EXCEPT !.phase = "live", !.spec = s, !.foreign = f] \in Copies
    BY AbsentTypes DEF Copies
  <2> QED
    BY <1>1, <2>1, ResourceGroupAssumption DEF Create, DataOK, localVars
<1>2. ASSUME NEW q \in ResourceGroup, NEW s \in Contents, Edit(q, s)
      PROVE  DataOK'
  BY <1>2, ResourceGroupAssumption DEF Edit, DataOK, localVars, Copies
<1>3. ASSUME NEW q \in ResourceGroup, Delete(q)
      PROVE  DataOK'
  <2>1. [rg[q] EXCEPT !.phase = "deleting"] \in Copies
    BY DEF DataOK, Copies
  <2> QED
    BY <1>3, <2>1, AbsentTypes DEF Delete, DataOK, localVars
<1>4. ASSUME NEW q \in ResourceGroup, RemoveForeign(q)
      PROVE  DataOK'
  <2>1. ASSUME NEW b \in BOOLEAN, NEW c \in Copies
        PROVE  [c EXCEPT !.foreign = b] \in Copies
    BY DEF Copies
  <2>2. rg' \in [ResourceGroup -> Copies]
    <3>1. rg[q] \in Copies
      BY DEF DataOK
    <3>2. [rg[q] EXCEPT !.foreign = FALSE] \in Copies
      BY <2>1, <3>1
    <3> QED
      BY <1>4, <3>2, AbsentTypes DEF RemoveForeign, DataOK
  <2> QED
    BY <1>4, <2>2 DEF RemoveForeign, DataOK, localVars
<1>5. ASSUME NEW k \in Kind, Establish(k) \/ CRDGone(k)
      PROVE  DataOK'
  BY <1>5, AbsentTypes DEF Establish, CRDGone, DataOK, queueVars, localVars,
     CRDs
<1>6. ASSUME NEW g, NEW n, InitialList(g, n)
      PROVE  DataOK'
  BY <1>6 DEF InitialList, DataOK, clusterVars, queueVars, localVars
<1>7. ASSUME NEW r \in ResourceGroup, Observe(r)
      PROVE  DataOK'
  BY <1>7 DEF Observe, DataOK, clusterVars, localVars
<1>8. ASSUME NEW r \in ResourceGroup, ReconcileNotFound(r)
      PROVE  DataOK'
  BY <1>8 DEF ReconcileNotFound, DataOK, clusterVars, localVars
<1>9. ASSUME NEW r \in ResourceGroup, Reconcile(r)
      PROVE  DataOK'
  BY <1>9 DEF Reconcile, Goto, DataOK, clusterVars
<1>10. ASSUME NEW r \in ResourceGroup, RegistryStep(r)
       PROVE  DataOK'
  BY <1>10 DEF RegistryStep, DataOK, clusterVars, queueVars, localVars
<1>11. CASE Crash
  BY <1>11, AbsentTypes, ResourceGroupAssumption
     DEF Crash, CanFail, DataOK, clusterVars
<1> QED
  BY <1>1, <1>2, <1>3, <1>4, <1>5, <1>6, <1>7, <1>8, <1>9, <1>10, <1>11
     DEF OtherStep, UserNext, ServerNext

\* What the patches of the finalizers and of the status leave of r, and that
\* they leave the other ResourceGroups alone.
LEMMA PatchEffects ==
    ASSUME DataOK, NEW r \in ResourceGroup
    PROVE  /\ Accepted(r, TRUE) =>
                /\ Patched(r, TRUE)[r].phase = rg[r].phase
                /\ rg[r].phase # "absent"
                /\ Patched(r, TRUE)[r].finalizer
           /\ /\ Patched(r, FALSE)[r].phase \in {rg[r].phase, "absent"}
              /\ ~Patched(r, FALSE)[r].finalizer
           /\ Reported(r)[r].phase = rg[r].phase
           /\ Reported(r)[r].finalizer = rg[r].finalizer
           /\ \A q \in ResourceGroup \ {r} :
                /\ Patched(r, TRUE)[q] = rg[q]
                /\ Patched(r, FALSE)[q] = rg[q]
                /\ Reported(r)[q] = rg[q]
<1>1. Accepted(r, TRUE) => /\ Patched(r, TRUE)[r].phase = rg[r].phase
                           /\ rg[r].phase # "absent"
                           /\ Patched(r, TRUE)[r].finalizer
  BY DEF DataOK, Copies, Patched, Accepted
<1>2. Patched(r, FALSE)[r].phase \in {rg[r].phase, "absent"}
  BY DEF DataOK, Copies, Patched, Absent
<1>3. ~Patched(r, FALSE)[r].finalizer
  BY DEF DataOK, Copies, Patched, Absent
<1>4. /\ Reported(r)[r].phase = rg[r].phase
      /\ Reported(r)[r].finalizer = rg[r].finalizer
  BY DEF DataOK, Copies, Reported
<1>5. \A q \in ResourceGroup \ {r} : /\ Patched(r, TRUE)[q] = rg[q]
                                     /\ Patched(r, FALSE)[q] = rg[q]
                                     /\ Reported(r)[q] = rg[q]
  BY DEF DataOK, Patched, Reported
<1> QED
  BY <1>1, <1>2, <1>3, <1>4, <1>5

\* Reconciliations preserve the invariant of every ResourceGroup.
LEMMA ManagedReconcile ==
    ASSUME DataOK, \A q \in ResourceGroup : Managed(q),
           NEW r \in ResourceGroup, ReconcileStep(r),
           NEW q \in ResourceGroup
    PROVE  Managed(q)'
<1>1. CASE AlreadyManaged(r)
  BY <1>1 DEF AlreadyManaged, DataOK, Copies, Proceed, Goto, clusterVars,
     queueVars, Managed, AbsentIsUnmanaged, CacheIsSound, CreatingIsManaged,
     DeletingIsFinal, Creating, Deleting
<1>2. CASE SetManaged(r)
  <2>1. /\ rg'[r].phase = rg[r].phase /\ rg[r].phase # "absent"
        /\ rg'[r].finalizer
        /\ \A s \in ResourceGroup \ {r} : rg'[s] = rg[s]
    BY <1>2, PatchEffects DEF SetManaged
  <2> QED
    BY <1>2, <2>1 DEF SetManaged, DataOK, Copies, Proceed, Goto, queueVars,
       Managed, AbsentIsUnmanaged,
       CacheIsSound, CreatingIsManaged, DeletingIsFinal, Creating, Deleting
<1>3. CASE SetManagedFails(r)
  <2>1. /\ rg'[r].phase = rg[r].phase
        /\ \/ rg'[r].finalizer = rg[r].finalizer
           \/ rg'[r].finalizer /\ rg[r].phase # "absent"
        /\ \A s \in ResourceGroup \ {r} : rg'[s] = rg[s]
    <3>1. \/ rg' = rg
          \/ Accepted(r, TRUE) /\ rg' = Patched(r, TRUE)
      BY <1>3, Zenon DEF SetManagedFails
    <3>2. CASE rg' = rg
      BY <3>2
    <3>3. CASE Accepted(r, TRUE) /\ rg' = Patched(r, TRUE)
      BY <3>3, PatchEffects
    <3> QED
      BY <3>1, <3>2, <3>3
  <2> QED
    BY <1>3, <2>1 DEF SetManagedFails, DataOK, Copies, Fail, Return,
       Managed, AbsentIsUnmanaged,
       CacheIsSound, CreatingIsManaged, DeletingIsFinal, Creating, Deleting
<1>4. CASE ReconcileResourceGroupGraph(r)
  BY <1>4 DEF ReconcileResourceGroupGraph, DataOK, Copies, Proceed, Conclude,
     Goto, clusterVars, queueVars, Managed, AbsentIsUnmanaged, CacheIsSound,
     CreatingIsManaged, DeletingIsFinal, Creating, Deleting
<1>5. CASE GetCRD(r)
  BY <1>5 DEF GetCRD, DataOK, Copies, Proceed, Goto, clusterVars, queueVars,
     Managed, AbsentIsUnmanaged, CacheIsSound, CreatingIsManaged,
     DeletingIsFinal, Creating, Deleting
<1>6. CASE GetCRDFails(r)
  BY <1>6 DEF GetCRDFails, DataOK, Copies, Conclude, Goto, CanFail,
     clusterVars, queueVars, Managed, AbsentIsUnmanaged, CacheIsSound,
     CreatingIsManaged, DeletingIsFinal, Creating, Deleting
<1>7. CASE WriteCRD(r)
  BY <1>7 DEF WriteCRD, DataOK, Copies, Proceed, Goto, Written, queueVars,
     Writable, Managed, AbsentIsUnmanaged, CacheIsSound, CreatingIsManaged,
     DeletingIsFinal, Creating, Deleting
<1>8. CASE WriteCRDFails(r)
  BY <1>8 DEF WriteCRDFails, DataOK, Copies, Conclude, Goto, CanFail,
     Written, queueVars, Writable, Managed, AbsentIsUnmanaged, CacheIsSound,
     CreatingIsManaged, DeletingIsFinal, Creating, Deleting
<1>9. CASE WaitForReady(r)
  BY <1>9 DEF WaitForReady, DataOK, Copies, Proceed, Goto, clusterVars,
     queueVars, Managed, AbsentIsUnmanaged, CacheIsSound, CreatingIsManaged,
     DeletingIsFinal, Creating, Deleting
<1>10. CASE WaitForReadyFails(r)
  BY <1>10 DEF WaitForReadyFails, DataOK, Copies, Conclude, Goto, CanFail,
     clusterVars, queueVars, Managed, AbsentIsUnmanaged, CacheIsSound,
     CreatingIsManaged, DeletingIsFinal, Creating, Deleting
<1>11. CASE ReconcileMicroController(r)
  BY <1>11 DEF ReconcileMicroController, DataOK, Copies, Proceed, Goto,
     clusterVars, queueVars, Managed, AbsentIsUnmanaged, CacheIsSound,
     CreatingIsManaged, DeletingIsFinal, Creating, Deleting
<1>12. CASE MicroControllerServes(r)
  BY <1>12 DEF MicroControllerServes, DataOK, Copies, Conclude, Goto,
     clusterVars, queueVars, Managed, AbsentIsUnmanaged, CacheIsSound,
     CreatingIsManaged, DeletingIsFinal, Creating, Deleting
<1>13. CASE SetResourceGroupStatus(r)
  BY <1>13 DEF SetResourceGroupStatus, DataOK, Copies, Return, Reported,
     queueVars, Absent, Managed, AbsentIsUnmanaged, CacheIsSound,
     CreatingIsManaged, DeletingIsFinal, Creating, Deleting
<1>14. CASE SetResourceGroupStatusFails(r)
  <2>1. /\ rg'[r].phase = rg[r].phase
        /\ rg'[r].finalizer = rg[r].finalizer
        /\ \A s \in ResourceGroup \ {r} : rg'[s] = rg[s]
    <3>1. rg' = rg \/ rg' = Reported(r)
      BY <1>14, Zenon DEF SetResourceGroupStatusFails
    <3>2. CASE rg' = rg
      BY <3>2
    <3>3. CASE rg' = Reported(r)
      BY <3>3, PatchEffects
    <3> QED
      BY <3>1, <3>2, <3>3
  <2> QED
    BY <1>14, <2>1 DEF SetResourceGroupStatusFails, DataOK, Copies, Fail,
       Return,
       Managed, AbsentIsUnmanaged,
       CacheIsSound, CreatingIsManaged, DeletingIsFinal, Creating, Deleting
<1>15. CASE ShutdownMicroController(r)
  BY <1>15 DEF ShutdownMicroController, DataOK, Copies, Proceed, Goto,
     clusterVars, queueVars, Managed, AbsentIsUnmanaged, CacheIsSound,
     CreatingIsManaged, DeletingIsFinal, Creating, Deleting
<1>16. CASE MicroControllerStopped(r)
  BY <1>16 DEF MicroControllerStopped, DataOK, Copies, Proceed, Goto,
     clusterVars, queueVars, Managed, AbsentIsUnmanaged, CacheIsSound,
     CreatingIsManaged, DeletingIsFinal, Creating, Deleting
<1>17. CASE CleanupCRD(r)
  BY <1>17 DEF CleanupCRD, DataOK, Copies, Proceed, Goto, CRDDeleted,
     queueVars, Managed, AbsentIsUnmanaged, CacheIsSound, CreatingIsManaged,
     DeletingIsFinal, Creating, Deleting
<1>18. CASE CleanupCRDFails(r)
  BY <1>18 DEF CleanupCRDFails, DataOK, Copies, Fail, Return, CanFail,
     CRDDeleted, Absent, Managed, AbsentIsUnmanaged, CacheIsSound,
     CreatingIsManaged, DeletingIsFinal, Creating, Deleting
<1>19. CASE AlreadyUnmanaged(r)
  BY <1>19 DEF AlreadyUnmanaged, DataOK, Copies, Return, clusterVars,
     queueVars, Absent, Managed, AbsentIsUnmanaged, CacheIsSound,
     CreatingIsManaged, DeletingIsFinal, Creating, Deleting
<1>20. CASE SetUnmanaged(r)
  BY <1>20 DEF SetUnmanaged, DataOK, Copies, Return, NotifyIfGone, Patched,
     Accepted, Absent, Managed, AbsentIsUnmanaged, CacheIsSound,
     CreatingIsManaged, DeletingIsFinal, Creating, Deleting
<1>21. CASE SetUnmanagedFails(r)
  <2>1. /\ \/ rg'[r].phase = rg[r].phase /\ rg'[r].finalizer = rg[r].finalizer
           \/ rg'[r].phase \in {rg[r].phase, "absent"} /\ ~rg'[r].finalizer
        /\ \A s \in ResourceGroup \ {r} : rg'[s] = rg[s]
    <3>1. rg' = rg \/ rg' = Patched(r, FALSE)
      BY <1>21, Zenon DEF SetUnmanagedFails
    <3>2. CASE rg' = rg
      BY <3>2
    <3>3. CASE rg' = Patched(r, FALSE)
      BY <3>3, PatchEffects
    <3> QED
      BY <3>1, <3>2, <3>3
  <2> QED
    BY <1>21, <2>1 DEF SetUnmanagedFails, DataOK, Copies, Return,
       Managed, AbsentIsUnmanaged,
       CacheIsSound, CreatingIsManaged, DeletingIsFinal, Creating, Deleting
<1> QED
  BY <1>1, <1>2, <1>3, <1>4, <1>5, <1>6, <1>7, <1>8, <1>9, <1>10, <1>11,
     <1>12, <1>13, <1>14, <1>15, <1>16, <1>17, <1>18, <1>19, <1>20, <1>21 DEF
     ReconcileStep

\* So do the other steps.
LEMMA ManagedOther ==
    ASSUME DataOK, \A s \in ResourceGroup : Managed(s),
           NEW q \in ResourceGroup, OtherStep
    PROVE  Managed(q)'
<1>1. ASSUME NEW s \in ResourceGroup, NEW c \in Contents, NEW f \in BOOLEAN,
             Create(s, c, f)
      PROVE  Managed(q)'
  BY <1>1 DEF Create, Absent, DataOK, Copies, localVars, Managed,
     AbsentIsUnmanaged, CacheIsSound,
     CreatingIsManaged, DeletingIsFinal, Creating, Deleting
<1>2. ASSUME NEW s \in ResourceGroup, NEW c \in Contents, Edit(s, c)
      PROVE  Managed(q)'
  BY <1>2 DEF Edit, DataOK, Copies, localVars, Managed, AbsentIsUnmanaged,
     CacheIsSound,
     CreatingIsManaged, DeletingIsFinal, Creating, Deleting
<1>3. ASSUME NEW s \in ResourceGroup, Delete(s)
      PROVE  Managed(q)'
  BY <1>3 DEF Delete, Absent, DataOK, Copies, localVars, Managed,
     AbsentIsUnmanaged, CacheIsSound,
     CreatingIsManaged, DeletingIsFinal, Creating, Deleting
<1>4. ASSUME NEW s \in ResourceGroup, RemoveForeign(s)
      PROVE  Managed(q)'
  BY <1>4 DEF RemoveForeign, Absent, DataOK, Copies, localVars, Managed,
     AbsentIsUnmanaged, CacheIsSound,
     CreatingIsManaged, DeletingIsFinal, Creating, Deleting
<1>5. ASSUME NEW k \in Kind, Establish(k) \/ CRDGone(k)
      PROVE  Managed(q)'
  BY <1>5 DEF Establish, CRDGone, queueVars, localVars, Managed,
     AbsentIsUnmanaged, CacheIsSound,
     CreatingIsManaged, DeletingIsFinal, Creating, Deleting
<1>6. ASSUME NEW g, NEW n, InitialList(g, n)
      PROVE  Managed(q)'
  BY <1>6 DEF InitialList, clusterVars, queueVars, localVars, Managed,
     AbsentIsUnmanaged, CacheIsSound,
     CreatingIsManaged, DeletingIsFinal, Creating, Deleting
<1>7. ASSUME NEW r \in ResourceGroup, Observe(r)
      PROVE  Managed(q)'
  BY <1>7 DEF Observe, DataOK, Copies, clusterVars, localVars, Managed,
     AbsentIsUnmanaged, CacheIsSound,
     CreatingIsManaged, DeletingIsFinal, Creating, Deleting
<1>8. ASSUME NEW r \in ResourceGroup, ReconcileNotFound(r)
      PROVE  Managed(q)'
  BY <1>8 DEF ReconcileNotFound, clusterVars, localVars, Managed,
     AbsentIsUnmanaged, CacheIsSound,
     CreatingIsManaged, DeletingIsFinal, Creating, Deleting
<1>9. ASSUME NEW r \in ResourceGroup, Reconcile(r)
      PROVE  Managed(q)'
  BY <1>9 DEF Reconcile, Goto, DataOK, Copies, clusterVars, Managed,
     AbsentIsUnmanaged, CacheIsSound,
     CreatingIsManaged, DeletingIsFinal, Creating, Deleting
<1>10. ASSUME NEW r \in ResourceGroup, RegistryStep(r)
       PROVE  Managed(q)'
  BY <1>10 DEF RegistryStep, clusterVars, queueVars, localVars, Managed,
     AbsentIsUnmanaged, CacheIsSound,
     CreatingIsManaged, DeletingIsFinal, Creating, Deleting
<1>11. CASE Crash
  BY <1>11 DEF Crash, DataOK, Copies, clusterVars, Managed, AbsentIsUnmanaged,
     CacheIsSound,
     CreatingIsManaged, DeletingIsFinal, Creating, Deleting
<1> QED
  BY <1>1, <1>2, <1>3, <1>4, <1>5, <1>6, <1>7, <1>8, <1>9, <1>10, <1>11
     DEF OtherStep, UserNext, ServerNext

\* Nothing but the end of a deletion removes the finalizer.
LEMMA FinalizerKept ==
    ASSUME DataOK, NEW r \in ResourceGroup,
           SetManaged(r) \/ SetManagedFails(r) \/ SetUnmanagedFails(r),
           NEW q \in ResourceGroup, rg[q].finalizer, pc[q] # "setUnmanaged"
    PROVE  rg'[q].finalizer
<1>1. CASE q # r
  <2>1. rg' = rg \/ rg' = Patched(r, TRUE) \/ rg' = Patched(r, FALSE)
    BY Zenon DEF SetManaged, SetManagedFails, SetUnmanagedFails
  <2>2. /\ Patched(r, TRUE)[q] = rg[q]
        /\ Patched(r, FALSE)[q] = rg[q]
    BY <1>1, PatchEffects
  <2> QED
    BY <2>1, <2>2, Zenon
<1>2. CASE q = r
  <2>1. rg' = rg \/ (Accepted(r, TRUE) /\ rg' = Patched(r, TRUE))
    BY <1>2, Zenon DEF SetManaged, SetManagedFails, SetUnmanagedFails
  <2> QED
    BY <1>2, <2>1, PatchEffects
<1> QED
  BY <1>1, <1>2

\* A reconciliation leaves every CRD that is not being deleted an owner.
LEMMA OwnedReconcile ==
    ASSUME DataOK, OwnerInv, NEW r \in ResourceGroup, ReconcileStep(r),
           NEW k \in Kind
    PROVE  Owned(k)'
<1> USE ResourceGroupAssumption
<1>1. CASE AlreadyManaged(r)
  BY <1>1 DEF AlreadyManaged, DataOK, OwnerInv, Owned, CRDs, Copies, Proceed,
     Goto, clusterVars, queueVars
<1>2. CASE SetManaged(r)
  BY <1>2, FinalizerKept DEF SetManaged, DataOK, OwnerInv, Owned, Proceed,
     Goto
<1>3. CASE SetManagedFails(r)
  BY <1>3, FinalizerKept DEF SetManagedFails, DataOK, OwnerInv, Owned, Fail,
     Return
<1>4. CASE ReconcileResourceGroupGraph(r)
  BY <1>4 DEF ReconcileResourceGroupGraph, DataOK, OwnerInv, Owned, CRDs,
     Copies, Proceed, Conclude, Goto, clusterVars, queueVars
<1>5. CASE GetCRD(r)
  BY <1>5 DEF GetCRD, DataOK, OwnerInv, Owned, CRDs, Copies, Proceed, Goto,
     clusterVars, queueVars
<1>6. CASE GetCRDFails(r)
  BY <1>6 DEF GetCRDFails, DataOK, OwnerInv, Owned, CRDs, Copies, Conclude,
     Goto, clusterVars, queueVars
<1>7. CASE WriteCRD(r)
  BY <1>7 DEF WriteCRD, DataOK, OwnerInv, Owned, CRDs, Copies, Proceed, Goto,
     Written, queueVars, Writable, Managed, CreatingIsManaged, Creating
<1>8. CASE WriteCRDFails(r)
  <2>1. crd' = crd \/ crd' = Written(r)
    BY <1>8, Zenon DEF WriteCRDFails
  <2>2. rg[r].finalizer
    BY <1>8 DEF WriteCRDFails, OwnerInv, Managed, CreatingIsManaged, Creating
  <2> QED
    BY <1>8, <2>1, <2>2 DEF WriteCRDFails, DataOK, OwnerInv, Owned, CRDs,
       Written, Conclude, Goto
<1>9. CASE WaitForReady(r)
  BY <1>9 DEF WaitForReady, DataOK, OwnerInv, Owned, CRDs, Copies, Proceed,
     Goto, clusterVars, queueVars
<1>10. CASE WaitForReadyFails(r)
  BY <1>10 DEF WaitForReadyFails, DataOK, OwnerInv, Owned, CRDs, Copies,
     Conclude, Goto, clusterVars, queueVars
<1>11. CASE ReconcileMicroController(r)
  BY <1>11 DEF ReconcileMicroController, DataOK, OwnerInv, Owned, CRDs,
     Copies, Proceed, Goto, clusterVars, queueVars
<1>12. CASE MicroControllerServes(r)
  BY <1>12 DEF MicroControllerServes, DataOK, OwnerInv, Owned, CRDs, Copies,
     Conclude, Goto, clusterVars, queueVars
<1>13. CASE SetResourceGroupStatus(r)
  BY <1>13 DEF SetResourceGroupStatus, DataOK, OwnerInv, Owned, CRDs, Copies,
     Return, Reported, queueVars
<1>14. CASE SetResourceGroupStatusFails(r)
  <2>1. /\ crd' = crd
        /\ \A s \in ResourceGroup : rg'[s].finalizer = rg[s].finalizer
    <3>1. rg' = rg \/ rg' = Reported(r)
      BY <1>14, Zenon DEF SetResourceGroupStatusFails
    <3>2. \A s \in ResourceGroup : Reported(r)[s].finalizer = rg[s].finalizer
      BY PatchEffects DEF Reported, DataOK, Copies
    <3> QED
      BY <1>14, <3>1, <3>2 DEF SetResourceGroupStatusFails
  <2>2. pc' = [pc EXCEPT ![r] = "idle"]
    BY <1>14 DEF SetResourceGroupStatusFails, Fail, Return
  <2> QED
    BY <2>1, <2>2 DEF DataOK, OwnerInv, Owned
<1>15. CASE ShutdownMicroController(r)
  BY <1>15 DEF ShutdownMicroController, DataOK, OwnerInv, Owned, CRDs,
     Copies, Proceed, Goto, clusterVars, queueVars
<1>16. CASE MicroControllerStopped(r)
  BY <1>16 DEF MicroControllerStopped, DataOK, OwnerInv, Owned, CRDs, Copies,
     Proceed, Goto, clusterVars, queueVars
<1>17. CASE CleanupCRD(r)
  BY <1>17 DEF CleanupCRD, DataOK, OwnerInv, Owned, CRDs, Copies, Proceed,
     Goto, CRDDeleted, queueVars
<1>18. CASE CleanupCRDFails(r)
  BY <1>18 DEF CleanupCRDFails, DataOK, OwnerInv, Owned, CRDs, Copies, Fail,
     Return, CRDDeleted
<1>19. CASE AlreadyUnmanaged(r)
  BY <1>19 DEF AlreadyUnmanaged, DataOK, OwnerInv, Owned, CRDs, Copies,
     Return, clusterVars, queueVars
<1>20. CASE SetUnmanaged(r)
  BY <1>20 DEF SetUnmanaged, DataOK, OwnerInv, Owned, CRDs, Copies, Return,
     NotifyIfGone, Patched, Accepted
<1>21. CASE SetUnmanagedFails(r)
  BY <1>21, FinalizerKept DEF SetUnmanagedFails, DataOK, OwnerInv, Owned,
     Return
<1> QED
  BY <1>1, <1>2, <1>3, <1>4, <1>5, <1>6, <1>7, <1>8, <1>9, <1>10, <1>11,
     <1>12, <1>13, <1>14, <1>15, <1>16, <1>17, <1>18, <1>19, <1>20, <1>21 DEF
     ReconcileStep

\* So do the other steps: only users and Crash touch the ResourceGroups, and
\* they remove no finalizer.
LEMMA OwnedOther ==
    ASSUME DataOK, OwnerInv, NEW k \in Kind, OtherStep
    PROVE  Owned(k)'
<1>1. ASSUME NEW s \in ResourceGroup, NEW c \in Contents, NEW f \in BOOLEAN,
             Create(s, c, f)
      PROVE  Owned(k)'
  BY <1>1 DEF Create, DataOK, localVars, OwnerInv, Owned, Managed,
     AbsentIsUnmanaged
<1>2. ASSUME NEW s \in ResourceGroup, NEW c \in Contents, Edit(s, c)
      PROVE  Owned(k)'
  BY <1>2 DEF Edit, DataOK, Copies, localVars, OwnerInv, Owned
<1>3. ASSUME NEW s \in ResourceGroup, Delete(s)
      PROVE  Owned(k)'
  BY <1>3 DEF Delete, DataOK, Copies, localVars, OwnerInv, Owned
<1>4. ASSUME NEW s \in ResourceGroup, RemoveForeign(s)
      PROVE  Owned(k)'
  BY <1>4 DEF RemoveForeign, DataOK, Copies, localVars, OwnerInv, Owned
<1>5. ASSUME NEW j \in Kind, Establish(j) \/ CRDGone(j)
      PROVE  Owned(k)'
  BY <1>5 DEF Establish, CRDGone, NoCRD, DataOK, CRDs, localVars, OwnerInv,
     Owned
<1>6. ASSUME NEW g, NEW n, InitialList(g, n)
      PROVE  Owned(k)'
  BY <1>6 DEF InitialList, clusterVars, localVars, OwnerInv, Owned
<1>7. ASSUME NEW r \in ResourceGroup, Observe(r)
      PROVE  Owned(k)'
  BY <1>7 DEF Observe, clusterVars, localVars, OwnerInv, Owned
<1>8. ASSUME NEW r \in ResourceGroup, ReconcileNotFound(r)
      PROVE  Owned(k)'
  BY <1>8 DEF ReconcileNotFound, clusterVars, localVars, OwnerInv, Owned
<1>9. ASSUME NEW r \in ResourceGroup, Reconcile(r)
      PROVE  Owned(k)'
  BY <1>9 DEF Reconcile, Goto, DataOK, clusterVars, OwnerInv, Owned
<1>10. ASSUME NEW r \in ResourceGroup, RegistryStep(r)
       PROVE  Owned(k)'
  BY <1>10 DEF RegistryStep, clusterVars, localVars, OwnerInv, Owned
<1>11. CASE Crash
  BY <1>11 DEF Crash, DataOK, clusterVars, OwnerInv, Owned
<1> QED
  BY <1>1, <1>2, <1>3, <1>4, <1>5, <1>6, <1>7, <1>8, <1>9, <1>10, <1>11
     DEF OtherStep, UserNext, ServerNext

-----------------------------------------------------------------------------
\* Initially nothing exists.
LEMMA InitGroups == Init => DataOK /\ OwnerInv
<1> SUFFICES ASSUME Init PROVE DataOK /\ OwnerInv
  OBVIOUS
<1>1. DataOK
  BY AbsentTypes, ResourceGroupAssumption DEF Init, DataOK
<1>2. \A r \in ResourceGroup : Managed(r)
  BY DEF Init, Absent, Managed, AbsentIsUnmanaged, CacheIsSound,
     CreatingIsManaged, DeletingIsFinal, Creating, Deleting
<1>3. \A k \in Kind : Owned(k)
  BY DEF Init, NoCRD, Owned
<1> QED
  BY <1>1, <1>2, <1>3 DEF OwnerInv

\* Every step of the specification preserves both.
LEMMA GroupStep ==
    ASSUME DataOK, OwnerInv, [Next]_vars
    PROVE  DataOK' /\ OwnerInv'
<1>1. CASE UNCHANGED vars
  BY <1>1 DEF vars, clusterVars, queueVars, localVars, DataOK, OwnerInv,
     Managed, AbsentIsUnmanaged, CacheIsSound, CreatingIsManaged,
     DeletingIsFinal, Owned
<1>2. ASSUME NEW r \in ResourceGroup, ReconcileStep(r)
      PROVE  DataOK' /\ OwnerInv'
  BY <1>2, GroupSteps, ManagedReconcile, OwnedReconcile DEF OwnerInv
<1>3. CASE OtherStep
  BY <1>3, OtherSteps, ManagedOther, OwnedOther DEF OwnerInv
<1> QED
  BY <1>1, <1>2, <1>3, Zenon DEF Next, ControllerStep, OtherStep

\* At every moment, whatever the users do, whichever calls fail and however
\* often the process dies: the finalizers and the cache are consistent, and
\* every CRD that is not being deleted has an owner that has not come to the
\* removal of its finalizer.
THEOREM OwnerInvHolds == SafetySpec => [](DataOK /\ OwnerInv)
<1> DEFINE Inv == DataOK /\ OwnerInv
<1>1. Init => Inv
  BY InitGroups
<1>2. Inv /\ [Next]_vars => Inv'
  BY GroupStep
<1> QED
  BY <1>1, <1>2, PTL DEF SafetySpec

\* No CRD is left behind (setManaged, cleanupResourceGroup and setUnmanaged):
\* with allow-crd-deletion the finalizer of a ResourceGroup is there before
\* the CRD of its kind and until that is deleted.
THEOREM CRDsAreOwned == SafetySpec => []CRDHasOwner
<1>1. OwnerInv => CRDHasOwner
  BY DEF OwnerInv, Owned, CRDHasOwner
<1> QED
  BY <1>1, OwnerInvHolds, PTL

-----------------------------------------------------------------------------
(***************************************************************************)
(* The calls of the registry, and the types.                               *)
(***************************************************************************)

\* The GVRs of the calls exist, and those of the two operations differ.
LEMMA GVRTypes ==
    \A r \in ResourceGroup :
        /\ GVKtoGVR(KindOf[r]) \in GVR
        /\ GetResourceGroupInstanceGVR(KindOf[r]) \in GVR
        /\ GVKtoGVR(KindOf[r]).group = "kro.run"
        /\ GetResourceGroupInstanceGVR(KindOf[r]).group = "plural.kro.run"
  BY ResourceGroupAssumption DEF GVRs, GVKtoGVR, GetResourceGroupInstanceGVR

\* A reconciliation goes on only when its call has returned.  It touches the
\* registry only to make a call, and nothing of the other ResourceGroups.
LEMMA ReconcileCalls ==
    ASSUME DataOK, NEW r \in ResourceGroup, ReconcileStep(r), CallInPlace(r)
    PROVE  /\ Resting(r)
           /\ \/ UNCHANGED registryVars
              \/ /\ StartServingGVK(r, GVKtoGVR(KindOf[r]), snap[r].spec)
                 /\ pc' = [pc EXCEPT ![r] = "serving"] /\ snap' = snap
              \/ /\ StopServiceGVK(r, GetResourceGroupInstanceGVR(KindOf[r]))
                 /\ pc' = [pc EXCEPT ![r] = "stopping"] /\ snap' = snap
           /\ \A q \in ResourceGroup \ {r} : pc'[q] = pc[q] /\ snap'[q] = snap[q]
<1>1. CASE AlreadyManaged(r)
  BY <1>1 DEF AlreadyManaged, Proceed, Goto, DataOK, CallInPlace, Resting
<1>2. CASE SetManaged(r)
  BY <1>2 DEF SetManaged, Proceed, Goto, DataOK, CallInPlace, Resting
<1>3. CASE SetManagedFails(r)
  BY <1>3 DEF SetManagedFails, Fail, Return, DataOK, CallInPlace, Resting
<1>4. CASE ReconcileResourceGroupGraph(r)
  BY <1>4 DEF ReconcileResourceGroupGraph, Proceed, Conclude, Goto, DataOK,
     CallInPlace, Resting
<1>5. CASE GetCRD(r)
  BY <1>5 DEF GetCRD, Proceed, Goto, DataOK, CallInPlace, Resting
<1>6. CASE GetCRDFails(r)
  BY <1>6 DEF GetCRDFails, Conclude, Goto, DataOK, CallInPlace, Resting
<1>7. CASE WriteCRD(r)
  BY <1>7 DEF WriteCRD, Proceed, Goto, DataOK, CallInPlace, Resting
<1>8. CASE WriteCRDFails(r)
  BY <1>8 DEF WriteCRDFails, Conclude, Goto, DataOK, CallInPlace, Resting
<1>9. CASE WaitForReady(r)
  BY <1>9 DEF WaitForReady, Proceed, Goto, DataOK, CallInPlace, Resting
<1>10. CASE WaitForReadyFails(r)
  BY <1>10 DEF WaitForReadyFails, Conclude, Goto, DataOK, CallInPlace,
     Resting
<1>11. CASE ReconcileMicroController(r)
  BY <1>11 DEF ReconcileMicroController, Proceed, Goto, StartServingGVK,
     DataOK, CallInPlace, Resting
<1>12. CASE MicroControllerServes(r)
  BY <1>12 DEF MicroControllerServes, Conclude, Goto, DataOK, CallInPlace,
     Resting
<1>13. CASE SetResourceGroupStatus(r)
  BY <1>13 DEF SetResourceGroupStatus, Return, DataOK, CallInPlace, Resting
<1>14. CASE SetResourceGroupStatusFails(r)
  BY <1>14 DEF SetResourceGroupStatusFails, Fail, Return, DataOK,
     CallInPlace, Resting
<1>15. CASE ShutdownMicroController(r)
  BY <1>15 DEF ShutdownMicroController, Proceed, Goto, DataOK, CallInPlace,
     Resting
<1>16. CASE MicroControllerStopped(r)
  BY <1>16 DEF MicroControllerStopped, Proceed, Goto, DataOK, CallInPlace,
     Resting
<1>17. CASE CleanupCRD(r)
  BY <1>17 DEF CleanupCRD, Proceed, Goto, DataOK, CallInPlace, Resting
<1>18. CASE CleanupCRDFails(r)
  BY <1>18 DEF CleanupCRDFails, Fail, Return, DataOK, CallInPlace, Resting
<1>19. CASE AlreadyUnmanaged(r)
  BY <1>19 DEF AlreadyUnmanaged, Return, DataOK, CallInPlace, Resting
<1>20. CASE SetUnmanaged(r)
  BY <1>20 DEF SetUnmanaged, Return, DataOK, CallInPlace, Resting
<1>21. CASE SetUnmanagedFails(r)
  BY <1>21 DEF SetUnmanagedFails, Return, DataOK, CallInPlace, Resting
<1> QED
  BY <1>1, <1>2, <1>3, <1>4, <1>5, <1>6, <1>7, <1>8, <1>9, <1>10, <1>11,
     <1>12, <1>13, <1>14, <1>15, <1>16, <1>17, <1>18, <1>19, <1>20, <1>21 DEF
     ReconcileStep

\* A step inside an operation leaves the call in its place, and touches no
\* other call.
LEMMA OperationCalls ==
    ASSUME RegistryInv, NEW r \in ResourceGroup, CallInPlace(r),
           OperationStep(r), pc' = pc, snap' = snap
    PROVE  /\ CallInPlace(r)'
           /\ \A q \in ResourceGroup \ {r} : call'[q] = call[q]
<1>1. CASE LoadForStart(r)
  BY <1>1 DEF LoadForStart, Continue, RegistryInv, RegistryTypeOK,
     CallInPlace, Resting, Starts, Stops, ResourceGroup
<1>2. CASE UpdateHandler(r)
  BY <1>2 DEF UpdateHandler, Done, Idle, RegistryInv, RegistryTypeOK,
     CallInPlace, Resting, Starts, Stops, ResourceGroup
<1>3. CASE StoreHandler(r)
  BY <1>3 DEF StoreHandler, Continue, RegistryInv, RegistryTypeOK,
     CallInPlace, Resting, Starts, Stops, ResourceGroup
<1>4. CASE RunInformer(r)
  BY <1>4 DEF RunInformer, RegistryInv, RegistryTypeOK, CallInPlace, Resting,
     Starts, Stops, ResourceGroup
<1>5. CASE WaitForCacheSync(r)
  BY <1>5 DEF WaitForCacheSync, Continue, RegistryInv, RegistryTypeOK,
     CallInPlace, Resting, Starts, Stops, ResourceGroup
<1>6. CASE StoreInformer(r)
  BY <1>6 DEF StoreInformer, Done, Idle, RegistryInv, RegistryTypeOK,
     CallInPlace, Resting, Starts, Stops, ResourceGroup
<1>7. CASE NotRegistered(r)
  BY <1>7 DEF NotRegistered, Done, Idle, RegistryInv, RegistryTypeOK,
     CallInPlace, Resting, Starts, Stops, ResourceGroup
<1>8. CASE LoadForStop(r)
  BY <1>8 DEF LoadForStop, RegistryInv, RegistryTypeOK, CallInPlace, Resting,
     Starts, Stops, ResourceGroup
<1>9. CASE Shutdown(r)
  BY <1>9 DEF Shutdown, Continue, RegistryInv, RegistryTypeOK, CallInPlace,
     Resting, Starts, Stops, ResourceGroup
<1>10. CASE DeleteInformer(r)
  BY <1>10 DEF DeleteInformer, Continue, RegistryInv, RegistryTypeOK,
     CallInPlace, Resting, Starts, Stops, ResourceGroup
<1>11. CASE DeleteHandler(r)
  BY <1>11 DEF DeleteHandler, Done, Idle, RegistryInv, RegistryTypeOK,
     CallInPlace, Resting, Starts, Stops, ResourceGroup
<1> QED
  BY <1>1, <1>2, <1>3, <1>4, <1>5, <1>6, <1>7, <1>8, <1>9, <1>10, <1>11 DEF
     OperationStep

\* Nobody may start an informer for a GVR whose informer is being deleted.
LEMMA NobodyStarts ==
    ASSUME CallInv, NEW r \in ResourceGroup, call[r].at = "deleteInformer"
    PROVE  Starters(call[r].gvr) = {}
<1>1. call[r].gvr.group = "plural.kro.run"
  BY GVRTypes DEF CallInv, CallInPlace, Resting, Starts
<1>2. \A q \in ResourceGroup : Starting(q, call[q].gvr) =>
          call[q].gvr.group = "kro.run"
  BY GVRTypes DEF CallInv, CallInPlace, Resting, Stops, Starting
<1> QED
  BY <1>1, <1>2 DEF Starters, Starting, ResourceGroup

\* Every step keeps a call in the place of the reconciliation that made it.
LEMMA CallStep ==
    ASSUME DataOK, CallInv, [Next]_vars
    PROVE  CallInv'
<1>1. ASSUME UNCHANGED <<registryVars, pc, snap>>
      PROVE  CallInv'
  <2>1. RegistryInv'
    BY <1>1, UnchangedSafe DEF CallInv
  <2> QED
    BY <1>1, <2>1 DEF CallInv, registryVars, CallInPlace, Resting
<1>2. ASSUME NEW r \in ResourceGroup, ReconcileStep(r)
      PROVE  CallInv'
  <2>1. CallInPlace(r)
    BY DEF CallInv
  <2>2. Resting(r)
    BY <1>2, <2>1, ReconcileCalls
  <2>3. CASE UNCHANGED registryVars
    <3>1. RegistryInv'
      BY <2>3, UnchangedSafe DEF CallInv
    <3> QED
      BY <1>2, <2>1, <2>2, <2>3, <3>1, ReconcileCalls
         DEF CallInv, registryVars, CallInPlace, Resting
  <2>4. CASE /\ StartServingGVK(r, GVKtoGVR(KindOf[r]), snap[r].spec)
             /\ pc' = [pc EXCEPT ![r] = "serving"] /\ snap' = snap
    <3>1. RegistryInv'
      BY <2>4, StartSafe, GVRTypes DEF CallInv, ResourceGroup
    <3> QED
      BY <2>4, <3>1 DEF CallInv, StartServingGVK, RegistryInv, RegistryTypeOK,
         CallInPlace, Resting, Starts, DataOK, ResourceGroup
  <2>5. CASE /\ StopServiceGVK(r, GetResourceGroupInstanceGVR(KindOf[r]))
             /\ pc' = [pc EXCEPT ![r] = "stopping"] /\ snap' = snap
    <3>1. RegistryInv'
      BY <2>5, StopSafe, GVRTypes DEF CallInv, ResourceGroup
    <3> QED
      BY <2>5, <3>1 DEF CallInv, StopServiceGVK, RegistryInv, RegistryTypeOK,
         CallInPlace, Resting, Stops, DataOK, ResourceGroup
  <2> QED
    BY <1>2, <2>1, <2>3, <2>4, <2>5, ReconcileCalls
<1>3. ASSUME NEW r \in ResourceGroup, RegistryStep(r)
      PROVE  CallInv'
  <2>1. RegistryInv'
    BY <1>3, OperationSafe, NobodyStarts DEF CallInv, RegistryStep,
       ResourceGroup
  <2> QED
    BY <1>3, <2>1, OperationCalls
       DEF CallInv, RegistryStep, localVars, CallInPlace, Resting
<1>4. ASSUME NEW r \in ResourceGroup, Reconcile(r)
      PROVE  CallInv'
  <2>1. RegistryInv'
    BY <1>4, UnchangedSafe DEF Reconcile, CallInv
  <2> QED
    BY <1>4, <2>1 DEF Reconcile, Goto, registryVars, CallInv, CallInPlace,
       Resting, DataOK
<1>5. ASSUME NEW g, NEW n, InitialList(g, n)
      PROVE  CallInv'
  BY <1>5, SyncSafe DEF InitialList, Sync, localVars, CallInv, CallInPlace,
     Resting
<1>6. CASE Crash
  <2>1. RegistryInit'
    BY <1>6 DEF Crash, RegistryInit
  <2> QED
    BY <2>1, EmptySafeNext DEF CallInv, RegistryInit, CallInPlace, Resting,
       Idle,
       ResourceGroup
<1>7. CASE UserNext
  BY <1>1, <1>7 DEF UserNext, Edit, Create, Delete, RemoveForeign, localVars
<1>8. ASSUME NEW k \in Kind, Establish(k) \/ CRDGone(k)
      PROVE  CallInv'
  BY <1>1, <1>8 DEF Establish, CRDGone, localVars
<1>9. ASSUME NEW r \in ResourceGroup, Observe(r) \/ ReconcileNotFound(r)
      PROVE  CallInv'
  BY <1>1, <1>9 DEF Observe, ReconcileNotFound, localVars
<1>10. CASE UNCHANGED vars
  BY <1>1, <1>10 DEF vars, localVars
<1> QED
  BY <1>2, <1>3, <1>4, <1>5, <1>6, <1>7, <1>8, <1>9, <1>10
     DEF Next, ServerNext, ControllerStep

\* At the start no reconciliation and no call is under way.
LEMMA InitCalls == Init => CallInv
  BY EmptySafe DEF Init, CallInv, RegistryInit, CallInPlace, Resting, Idle,
     ResourceGroup

\* Every variable of the ResourceGroup controller, of the registry and of the
\* cluster stays in its type: also the number of informers that are started
\* for a GVR, because the controller stops services under another GVR than
\* the one that it starts (GetResourceGroupInstanceGVR).
THEOREM GroupTypeCorrect == SafetySpec => []TypeOK
<1> DEFINE Inv == DataOK /\ OwnerInv /\ CallInv
<1>1. Init => Inv
  BY InitCalls, InitGroups
<1>2. Inv /\ [Next]_vars => Inv'
  BY GroupStep, CallStep
<1>3. Inv => TypeOK
  BY DEF CallInv, RegistryInv, TypeOK
<1> QED
  BY <1>1, <1>2, <1>3, PTL DEF SafetySpec

-----------------------------------------------------------------------------
(***************************************************************************)
(* What Active promises, if no two ResourceGroups claim one kind.          *)
(***************************************************************************)

OneOwner == \A q, r \in ResourceGroup : KindOf[q] = KindOf[r] => q = r

\* What Served says of r does not change.
Untouched(r) ==
    /\ snap'[r] = snap[r]
    /\ pc'[r] = pc[r]
    /\ verdict'[r] = verdict[r]
    /\ crd'[KindOf[r]] = crd[KindOf[r]]
    /\ call'[r] = call[r]
    /\ informers'[GVKtoGVR(KindOf[r])] = informers[GVKtoGVR(KindOf[r])]
    /\ handlers'[GVKtoGVR(KindOf[r])] = handlers[GVKtoGVR(KindOf[r])]
    /\ \A n : <<GVKtoGVR(KindOf[r]), n>> \in synced =>
               <<GVKtoGVR(KindOf[r]), n>> \in synced'

\* A step that leaves a ResourceGroup and what serves it alone keeps Served.
LEMMA UntouchedServed ==
    ASSUME NEW r \in ResourceGroup, Served(r), Untouched(r)
    PROVE  Served(r)'
<1>1. Registration(r)'
  BY DEF Served, Registration, Untouched
<1>2. Achieved(r)'
  BY DEF Served, Achieved, InPlace, Untouched
<1> QED
  BY <1>1, <1>2 DEF Served

\* A reconciliation does not touch the other ResourceGroups.
LEMMA ReconcileUntouched ==
    ASSUME DataOK, CallInv, OneOwner, NEW r \in ResourceGroup,
           ReconcileStep(r), NEW q \in ResourceGroup \ {r}
    PROVE  Untouched(q)
<1>1. /\ UNCHANGED <<informers, handlers, synced>>
      /\ call'[q] = call[q]
      /\ pc'[q] = pc[q] /\ snap'[q] = snap[q]
  <2>1. CallInPlace(r) /\ call \in [ResourceGroup -> CallRecords]
    BY DEF CallInv, RegistryInv, RegistryTypeOK, CallRecords, ResourceGroup
  <2>2. pc'[q] = pc[q] /\ snap'[q] = snap[q]
    BY <2>1, ReconcileCalls
  <2>3. CASE UNCHANGED registryVars
    BY <2>2, <2>3 DEF registryVars
  <2>4. CASE StartServingGVK(r, GVKtoGVR(KindOf[r]), snap[r].spec)
    BY <2>1, <2>2, <2>4 DEF StartServingGVK
  <2>5. CASE StopServiceGVK(r, GetResourceGroupInstanceGVR(KindOf[r]))
    BY <2>1, <2>2, <2>5 DEF StopServiceGVK
  <2> QED
    BY <2>1, <2>3, <2>4, <2>5, ReconcileCalls
<1>2. KindOf[q] # KindOf[r] /\ KindOf[q] \in Kind /\ KindOf[r] \in Kind
  BY ResourceGroupAssumption DEF OneOwner
<1>3. CASE AlreadyManaged(r)
  BY <1>1, <1>2, <1>3 DEF AlreadyManaged, Proceed, Goto, clusterVars,
     queueVars, DataOK, Untouched
<1>4. CASE SetManaged(r)
  BY <1>1, <1>2, <1>4 DEF SetManaged, Proceed, Goto, Patched, queueVars,
     DataOK, Untouched
<1>5. CASE SetManagedFails(r)
  BY <1>1, <1>2, <1>5 DEF SetManagedFails, Fail, Return, Patched, DataOK,
     Untouched
<1>6. CASE ReconcileResourceGroupGraph(r)
  BY <1>1, <1>2, <1>6 DEF ReconcileResourceGroupGraph, Proceed, Conclude,
     Goto, clusterVars, queueVars, DataOK, Untouched
<1>7. CASE GetCRD(r)
  BY <1>1, <1>2, <1>7 DEF GetCRD, Proceed, Goto, clusterVars, queueVars,
     DataOK, Untouched
<1>8. CASE GetCRDFails(r)
  BY <1>1, <1>2, <1>8 DEF GetCRDFails, Conclude, Goto, clusterVars,
     queueVars, DataOK, Untouched
<1>9. CASE WriteCRD(r)
  BY <1>1, <1>2, <1>9 DEF WriteCRD, Proceed, Goto, Written, queueVars,
     DataOK, Untouched
<1>10. CASE WriteCRDFails(r)
  BY <1>1, <1>2, <1>10 DEF WriteCRDFails, Conclude, Goto, Written, queueVars,
     DataOK, Untouched
<1>11. CASE WaitForReady(r)
  BY <1>1, <1>2, <1>11 DEF WaitForReady, Proceed, Goto, clusterVars,
     queueVars, DataOK, Untouched
<1>12. CASE WaitForReadyFails(r)
  BY <1>1, <1>2, <1>12 DEF WaitForReadyFails, Conclude, Goto, clusterVars,
     queueVars, DataOK, Untouched
<1>13. CASE ReconcileMicroController(r)
  BY <1>1, <1>2, <1>13 DEF ReconcileMicroController, Proceed, Goto,
     clusterVars, queueVars, DataOK, Untouched
<1>14. CASE MicroControllerServes(r)
  BY <1>1, <1>2, <1>14 DEF MicroControllerServes, Conclude, Goto,
     clusterVars, queueVars, DataOK, Untouched
<1>15. CASE SetResourceGroupStatus(r)
  BY <1>1, <1>2, <1>15 DEF SetResourceGroupStatus, Return, Reported,
     queueVars, DataOK, Untouched
<1>16. CASE SetResourceGroupStatusFails(r)
  BY <1>1, <1>2, <1>16 DEF SetResourceGroupStatusFails, Fail, Return,
     Reported, DataOK, Untouched
<1>17. CASE ShutdownMicroController(r)
  BY <1>1, <1>2, <1>17 DEF ShutdownMicroController, Proceed, Goto,
     clusterVars, queueVars, DataOK, Untouched
<1>18. CASE MicroControllerStopped(r)
  BY <1>1, <1>2, <1>18 DEF MicroControllerStopped, Proceed, Goto,
     clusterVars, queueVars, DataOK, Untouched
<1>19. CASE CleanupCRD(r)
  BY <1>1, <1>2, <1>19 DEF CleanupCRD, Proceed, Goto, CRDDeleted, queueVars,
     DataOK, Untouched
<1>20. CASE CleanupCRDFails(r)
  BY <1>1, <1>2, <1>20 DEF CleanupCRDFails, Fail, Return, CRDDeleted, DataOK,
     Untouched
<1>21. CASE AlreadyUnmanaged(r)
  BY <1>1, <1>2, <1>21 DEF AlreadyUnmanaged, Return, clusterVars, queueVars,
     DataOK, Untouched
<1>22. CASE SetUnmanaged(r)
  BY <1>1, <1>2, <1>22 DEF SetUnmanaged, Return, NotifyIfGone, Patched,
     DataOK, Untouched
<1>23. CASE SetUnmanagedFails(r)
  BY <1>1, <1>2, <1>23 DEF SetUnmanagedFails, Return, NotifyIfGone, Patched,
     DataOK, Untouched
<1> QED
  BY <1>3, <1>4, <1>5, <1>6, <1>7, <1>8, <1>9, <1>10, <1>11, <1>12, <1>13,
     <1>14, <1>15, <1>16, <1>17, <1>18, <1>19, <1>20, <1>21, <1>22, <1>23 DEF
     ReconcileStep

\* It preserves what is said of its own.
LEMMA ReconcileServes ==
    ASSUME DataOK, CallInv, OneOwner, NEW r \in ResourceGroup, Served(r),
           ReconcileStep(r)
    PROVE  Served(r)'
<1>1. /\ UNCHANGED <<informers, handlers, synced>>
      /\ Resting(r)
      /\ call' = call \/ pc'[r] # "serving" \/ call'[r].at = "start"
  <2>1. CallInPlace(r) /\ call \in [ResourceGroup -> CallRecords]
    BY DEF CallInv, RegistryInv, RegistryTypeOK, CallRecords, ResourceGroup
  <2>2. Resting(r)
    BY <2>1, ReconcileCalls
  <2>3. CASE UNCHANGED registryVars
    BY <2>2, <2>3 DEF registryVars
  <2>4. CASE StartServingGVK(r, GVKtoGVR(KindOf[r]), snap[r].spec)
    BY <2>1, <2>2, <2>4 DEF StartServingGVK
  <2>5. CASE /\ StopServiceGVK(r, GetResourceGroupInstanceGVR(KindOf[r]))
             /\ pc' = [pc EXCEPT ![r] = "stopping"]
    BY <2>1, <2>2, <2>5 DEF StopServiceGVK, DataOK
  <2> QED
    BY <2>1, <2>3, <2>4, <2>5, ReconcileCalls
<1>2. KindOf[r] \in Kind
  BY ResourceGroupAssumption
<1>3. CASE AlreadyManaged(r)
  BY <1>1, <1>2, <1>3 DEF AlreadyManaged, Proceed, Goto, clusterVars,
     queueVars, DataOK, Copies, CRDs, Resting, Served, Registration, Achieved, InPlace
<1>4. CASE SetManaged(r)
  BY <1>1, <1>2, <1>4 DEF SetManaged, Proceed, Goto, Patched, Accepted,
     Absent, queueVars, DataOK, Copies, CRDs, Resting, Served, Registration, Achieved,
     InPlace
<1>5. CASE SetManagedFails(r)
  BY <1>1, <1>2, <1>5 DEF SetManagedFails, Fail, Return, DataOK, Served,
     Registration, Achieved, InPlace
<1>6. CASE ReconcileResourceGroupGraph(r)
  BY <1>1, <1>2, <1>6 DEF ReconcileResourceGroupGraph, Proceed, Conclude,
     Goto, clusterVars, queueVars, DataOK, Copies, CRDs,
     Resting, Served, Registration, Achieved, InPlace
<1>7. CASE GetCRD(r)
  BY <1>1, <1>2, <1>7 DEF GetCRD, Proceed, Goto, clusterVars, queueVars,
     DataOK, Copies, CRDs, Resting, Served,
     Registration, Achieved, InPlace
<1>8. CASE GetCRDFails(r)
  BY <1>1, <1>2, <1>8 DEF GetCRDFails, Conclude, Goto, clusterVars,
     queueVars, DataOK, Copies, CRDs, Resting, Served, Registration, Achieved, InPlace
<1>9. CASE WriteCRD(r)
  BY <1>1, <1>2, <1>9 DEF WriteCRD, Proceed, Goto, Written, Writable,
     queueVars, DataOK, Copies, CRDs, Resting, Served, Registration, Achieved, InPlace
<1>10. CASE WriteCRDFails(r)
  BY <1>1, <1>2, <1>10 DEF WriteCRDFails, Conclude, Goto, Written, Writable,
     queueVars, DataOK, Copies, CRDs, Resting, Served, Registration, Achieved, InPlace
<1>11. CASE WaitForReady(r)
  BY <1>1, <1>2, <1>11 DEF WaitForReady, Proceed, Goto, clusterVars,
     queueVars, DataOK, Copies, CRDs, Resting, Served, Registration, Achieved, InPlace
<1>12. CASE WaitForReadyFails(r)
  BY <1>1, <1>2, <1>12 DEF WaitForReadyFails, Conclude, Goto, clusterVars,
     queueVars, DataOK, Copies, CRDs, Resting, Served, Registration, Achieved, InPlace
<1>13. CASE ReconcileMicroController(r)
  <2>1. call'[r].at = "start"
    BY <1>13 DEF ReconcileMicroController, StartServingGVK, CallInv,
       RegistryInv,
       RegistryTypeOK, ResourceGroup
  <2> QED
    BY <1>1, <1>2, <1>13, <2>1 DEF ReconcileMicroController, Proceed, Goto,
       clusterVars, queueVars, DataOK, CRDs, Served, Registration, Achieved, InPlace
<1>14. CASE MicroControllerServes(r)
  BY <1>1, <1>2, <1>14 DEF MicroControllerServes, Conclude, Goto,
     clusterVars, queueVars, DataOK, Copies, CRDs, Resting,
     Served, Registration, Achieved, InPlace
<1>15. CASE SetResourceGroupStatus(r)
  BY <1>1, <1>2, <1>15 DEF SetResourceGroupStatus, Return, Reported, Absent,
     queueVars, State, Current, DataOK, Copies, CRDs, Resting,
     Served, Registration, Achieved, InPlace
<1>16. CASE SetResourceGroupStatusFails(r)
  BY <1>1, <1>2, <1>16 DEF SetResourceGroupStatusFails, Fail, Return,
     Reported, Absent, State, Current, DataOK, Copies, CRDs,
     Resting, Served, Registration, Achieved, InPlace
<1>17. CASE ShutdownMicroController(r)
  BY <1>1, <1>2, <1>17 DEF ShutdownMicroController, Proceed, Goto,
     clusterVars, queueVars, DataOK, Copies, CRDs, Resting,
     Served, Registration, Achieved, InPlace
<1>18. CASE MicroControllerStopped(r)
  BY <1>1, <1>2, <1>18 DEF MicroControllerStopped, Proceed, Goto,
     clusterVars, queueVars, DataOK, Copies, CRDs, Resting,
     Served, Registration, Achieved, InPlace
<1>19. CASE CleanupCRD(r)
  BY <1>1, <1>2, <1>19 DEF CleanupCRD, Proceed, Goto, CRDDeleted, queueVars,
     DataOK, Copies, CRDs, Resting, Served,
     Registration, Achieved, InPlace
<1>20. CASE CleanupCRDFails(r)
  BY <1>1, <1>2, <1>20 DEF CleanupCRDFails, Fail, Return, CRDDeleted, Absent,
     DataOK, Copies, CRDs, Resting, Served,
     Registration, Achieved, InPlace
<1>21. CASE AlreadyUnmanaged(r)
  BY <1>1, <1>2, <1>21 DEF AlreadyUnmanaged, Return, Absent, clusterVars,
     queueVars, DataOK, Copies, CRDs, Resting, Served, Registration, Achieved, InPlace
<1>22. CASE SetUnmanaged(r)
  BY <1>1, <1>2, <1>22 DEF SetUnmanaged, Return, NotifyIfGone, Patched,
     Accepted, Absent, DataOK, Copies, CRDs, Resting, Served, Registration, Achieved,
     InPlace
<1>23. CASE SetUnmanagedFails(r)
  BY <1>1, <1>2, <1>23 DEF SetUnmanagedFails, Return, DataOK, Served,
     Registration, Achieved, InPlace
<1> QED
  BY <1>3, <1>4, <1>5, <1>6, <1>7, <1>8, <1>9, <1>10, <1>11, <1>12, <1>13,
     <1>14, <1>15, <1>16, <1>17, <1>18, <1>19, <1>20, <1>21, <1>22, <1>23 DEF
     ReconcileStep

\* A step inside an operation touches the registry at its own GVR only.
LEMMA OperationElsewhere ==
    ASSUME RegistryInv, NEW c \in Caller, OperationStep(c),
           NEW g \in GVR, g # call[c].gvr
    PROVE  /\ informers'[g] = informers[g]
           /\ handlers'[g] = handlers[g]
           /\ \A n : <<g, n>> \in synced => <<g, n>> \in synced'
<1>1. CASE LoadForStart(c)
  BY <1>1 DEF LoadForStart, RegistryInv, RegistryTypeOK
<1>2. CASE UpdateHandler(c)
  BY <1>2 DEF UpdateHandler, RegistryInv, RegistryTypeOK
<1>3. CASE StoreHandler(c)
  BY <1>3 DEF StoreHandler, RegistryInv, RegistryTypeOK
<1>4. CASE RunInformer(c)
  BY <1>4 DEF RunInformer, RegistryInv, RegistryTypeOK
<1>5. CASE WaitForCacheSync(c)
  BY <1>5 DEF WaitForCacheSync, RegistryInv, RegistryTypeOK
<1>6. CASE StoreInformer(c)
  BY <1>6 DEF StoreInformer, RegistryInv, RegistryTypeOK
<1>7. CASE NotRegistered(c)
  BY <1>7 DEF NotRegistered, RegistryInv, RegistryTypeOK
<1>8. CASE LoadForStop(c)
  BY <1>8 DEF LoadForStop, RegistryInv, RegistryTypeOK
<1>9. CASE Shutdown(c)
  BY <1>9 DEF Shutdown, RegistryInv, RegistryTypeOK
<1>10. CASE DeleteInformer(c)
  BY <1>10 DEF DeleteInformer, RegistryInv, RegistryTypeOK
<1>11. CASE DeleteHandler(c)
  BY <1>11 DEF DeleteHandler, RegistryInv, RegistryTypeOK
<1> QED
  BY <1>1, <1>2, <1>3, <1>4, <1>5, <1>6, <1>7, <1>8, <1>9, <1>10, <1>11 DEF
     OperationStep

\* StartServingGVK registers an informer that has synced and has a handler.
LEMMA OperationRegisters ==
    ASSUME CallInv, NEW r \in ResourceGroup, OperationStep(r), Registration(r),
           pc[r] = "serving", pc' = pc, snap' = snap
    PROVE  Registration(r)'
<1> DEFINE g == GVKtoGVR(KindOf[r])
<1>1. /\ call[r].at \in Starts
      /\ call[r].gvr = g /\ g \in GVR
      /\ call[r].handler = snap[r].spec
      /\ Numbered(r)
  BY GVRTypes DEF CallInv, RegistryInv, CallInPlace, Resting, OperationStep,
     LoadForStart, UpdateHandler, StoreHandler, RunInformer, WaitForCacheSync,
     StoreInformer, NotRegistered, LoadForStop, Shutdown, DeleteInformer,
     DeleteHandler, ResourceGroup
<1>2. CASE LoadForStart(r)
  BY <1>1, <1>2 DEF LoadForStart, Continue, Registration, CallInv,
     RegistryInv, RegistryTypeOK, ResourceGroup, Numbered
<1>3. CASE UpdateHandler(r)
  BY <1>1, <1>3 DEF UpdateHandler, Done, Idle, Registration, CallInv,
     RegistryInv, RegistryTypeOK, ResourceGroup, Numbered
<1>4. CASE StoreHandler(r)
  BY <1>1, <1>4 DEF StoreHandler, Continue, Registration, CallInv,
     RegistryInv, RegistryTypeOK, ResourceGroup, Numbered
<1>5. CASE RunInformer(r)
  BY <1>1, <1>5 DEF RunInformer, Registration, CallInv, RegistryInv,
     RegistryTypeOK, ResourceGroup, Numbered
<1>6. CASE WaitForCacheSync(r)
  BY <1>1, <1>6 DEF WaitForCacheSync, Continue, Registration, CallInv,
     RegistryInv, RegistryTypeOK, ResourceGroup, Numbered
<1>7. CASE StoreInformer(r)
  BY <1>1, <1>7 DEF StoreInformer, Done, Idle, Registration, CallInv,
     RegistryInv, RegistryTypeOK, ResourceGroup, Numbered
<1> QED
  BY <1>1, <1>2, <1>3, <1>4, <1>5, <1>6, <1>7 DEF OperationStep, NotRegistered,
     LoadForStop, Shutdown, DeleteInformer, DeleteHandler, Starts

\* The steps inside the operations preserve what is said of every
\* ResourceGroup.
LEMMA OperationServes ==
    ASSUME DataOK, CallInv, OneOwner, NEW r \in ResourceGroup, RegistryStep(r),
           NEW q \in ResourceGroup, Served(q)
    PROVE  Served(q)'
<1> DEFINE g == GVKtoGVR(KindOf[q])
<1>1. /\ g \in GVR /\ r \in Caller /\ RegistryInv /\ OperationStep(r)
      /\ ~Resting(r) /\ CallInPlace(r)
  BY GVRTypes DEF CallInv, RegistryStep, Resting, OperationStep,
     LoadForStart, UpdateHandler, StoreHandler, RunInformer, WaitForCacheSync,
     StoreInformer, NotRegistered, LoadForStop, Shutdown, DeleteInformer,
     DeleteHandler, ResourceGroup
<1>2. UNCHANGED <<rg, crd, cached, notify, queue, pc, snap, verdict>>
  BY DEF RegistryStep, clusterVars, queueVars, localVars
<1>3. CASE g # call[r].gvr
  <2>1. /\ informers'[g] = informers[g]
        /\ handlers'[g] = handlers[g]
        /\ \A n : <<g, n>> \in synced => <<g, n>> \in synced'
    BY <1>1, <1>3, OperationElsewhere
  <2>2. CASE q # r
    <3>1. call'[q] = call[q]
      BY <1>1, <1>2, <2>2, OperationCalls
    <3> QED
      BY <1>2, <2>1, <3>1, UntouchedServed DEF Untouched
  <2>3. CASE q = r
    <3>1. pc[r] = "stopping"
      BY <1>1, <1>3, <2>3 DEF CallInPlace
    <3> QED
      BY <1>2, <2>1, <2>3, <3>1 DEF Served, Registration,
         Achieved, InPlace
  <2> QED
    BY <2>2, <2>3
<1>4. CASE g = call[r].gvr
  <2>1. q = r /\ pc[r] = "serving"
    <3>1. GVKtoGVR(KindOf[q]) # GetResourceGroupInstanceGVR(KindOf[r])
      BY GVRTypes
    <3>2. GVKtoGVR(KindOf[q]) = GVKtoGVR(KindOf[r]) /\ pc[r] = "serving"
      BY <1>1, <1>4, <3>1 DEF CallInPlace
    <3>3. KindOf[q] = KindOf[r]
      BY <3>2 DEF GVKtoGVR
    <3> QED
      BY <3>2, <3>3 DEF OneOwner
  <2>2. Registration(r)'
    BY <1>1, <1>2, <2>1, OperationRegisters DEF Served
  <2> QED
    BY <1>2, <2>1, <2>2 DEF Served, Achieved, InPlace
<1> QED
  BY <1>3, <1>4

\* So do the steps outside a reconciliation.
LEMMA OtherServes ==
    ASSUME DataOK, CallInv, OneOwner, OtherStep,
           NEW q \in ResourceGroup, Served(q)
    PROVE  Served(q)'
<1>0. KindOf[q] \in Kind /\ GVKtoGVR(KindOf[q]) \in GVR
  BY ResourceGroupAssumption, GVRTypes
<1>1. ASSUME NEW s \in ResourceGroup, NEW c \in Contents, NEW f \in BOOLEAN,
             Create(s, c, f)
      PROVE  Served(q)'
  BY <1>1 DEF Create, registryVars, DataOK, localVars, Served,
     Registration, Achieved, InPlace
<1>2. ASSUME NEW s \in ResourceGroup, NEW c \in Contents, Edit(s, c)
      PROVE  Served(q)'
  BY <1>2 DEF Edit, registryVars, DataOK, localVars, Served,
     Registration, Achieved, InPlace
<1>3. ASSUME NEW s \in ResourceGroup, Delete(s)
      PROVE  Served(q)'
  BY <1>3 DEF Delete, registryVars, DataOK, localVars, Served,
     Registration, Achieved, InPlace
<1>4. ASSUME NEW s \in ResourceGroup, RemoveForeign(s)
      PROVE  Served(q)'
  BY <1>4 DEF RemoveForeign, Absent, registryVars, DataOK, Copies, localVars,
     Served,
     Registration, Achieved, InPlace
<1>5. ASSUME NEW k \in Kind, Establish(k) \/ CRDGone(k)
      PROVE  Served(q)'
  <2>1. crd'[KindOf[q]] \in {crd[KindOf[q]],
                             [crd[KindOf[q]] EXCEPT !.phase = "established"],
                             NoCRD}
    BY <1>0, <1>5 DEF Establish, CRDGone, DataOK
  <2>2. /\ crd'[KindOf[q]].phase = "established"
             /\ crd'[KindOf[q]] # crd[KindOf[q]] =>
                 crd[KindOf[q]].phase = "pending"
        /\ crd'[KindOf[q]] = NoCRD /\ crd'[KindOf[q]] # crd[KindOf[q]] =>
              crd[KindOf[q]].phase = "terminating"
    BY <1>0, <1>5 DEF Establish, CRDGone, DataOK, NoCRD
  <2>3. crd[KindOf[q]] \in CRDs
    BY <1>0 DEF DataOK
  <2>4. Achieved(q)'
    BY <1>5, <2>1, <2>2, <2>3 DEF Establish, CRDGone, CRDs, NoCRD,
       registryVars, localVars, Served, Achieved, InPlace
  <2> QED
    BY <1>5, <2>4 DEF Establish, CRDGone, registryVars, localVars, Served,
       Registration
<1>6. ASSUME NEW g, NEW n, InitialList(g, n)
      PROVE  Served(q)'
  BY <1>6, UntouchedServed DEF InitialList, Sync, clusterVars, queueVars,
     localVars, Untouched
<1>7. ASSUME NEW r \in ResourceGroup, Observe(r)
      PROVE  Served(q)'
  BY <1>7 DEF Observe, registryVars, DataOK, clusterVars, localVars, Served,
     Registration, Achieved, InPlace
<1>8. ASSUME NEW r \in ResourceGroup, ReconcileNotFound(r)
      PROVE  Served(q)'
  BY <1>8 DEF ReconcileNotFound, registryVars, DataOK, clusterVars, localVars, Served,
     Registration, Achieved, InPlace
<1>9. ASSUME NEW r \in ResourceGroup, Reconcile(r)
      PROVE  Served(q)'
  BY <1>9 DEF Reconcile, Goto, registryVars, DataOK, Copies, clusterVars, Served,
     Registration, Achieved, InPlace
<1>10. ASSUME NEW r \in ResourceGroup, RegistryStep(r)
       PROVE  Served(q)'
  BY <1>10, OperationServes
<1>11. CASE Crash
  BY <1>0, <1>11 DEF Crash, DataOK, clusterVars, Served,
     Registration, Achieved, InPlace
<1> QED
  BY <1>1, <1>2, <1>3, <1>4, <1>5, <1>6, <1>7, <1>8, <1>9, <1>10, <1>11
     DEF OtherStep, UserNext, ServerNext

\* At the start no ResourceGroup exists and nothing is served.
LEMMA InitServed == Init => ServedInv
<1> SUFFICES ASSUME Init, NEW r \in ResourceGroup PROVE Served(r)
  BY DEF ServedInv
<1>1. KindOf[r] \in Kind /\ GVKtoGVR(KindOf[r]) \in GVR
  BY ResourceGroupAssumption, GVRTypes
<1> QED
  BY <1>1 DEF Init, RegistryInit, Absent, NoCRD, Served,
     Registration, Achieved, InPlace

\* Every step keeps Served of every ResourceGroup.
LEMMA ServedStep ==
    ASSUME DataOK, CallInv, OneOwner, ServedInv, [Next]_vars
    PROVE  ServedInv'
<1> SUFFICES ASSUME NEW q \in ResourceGroup PROVE Served(q)'
  BY DEF ServedInv
<1>1. Served(q)
  BY DEF ServedInv
<1>2. CASE UNCHANGED vars
  BY <1>1, <1>2, UntouchedServed DEF vars, registryVars, clusterVars, queueVars,
     localVars, Untouched
<1>3. ASSUME NEW r \in ResourceGroup, ReconcileStep(r)
      PROVE  Served(q)'
  <2>1. CASE q = r
    BY <1>1, <1>3, <2>1, ReconcileServes
  <2>2. CASE q # r
    BY <1>1, <1>3, <2>2, ReconcileUntouched, UntouchedServed
  <2> QED
    BY <2>1, <2>2
<1>4. CASE OtherStep
  BY <1>1, <1>4, OtherServes
<1> QED
  BY <1>2, <1>3, <1>4, Zenon DEF Next, ControllerStep, OtherStep

\* Only a status that reports success makes a ResourceGroup Active.
LEMMA ActivatedByStatus ==
    ASSUME DataOK, [Next]_vars, NEW r \in ResourceGroup,
           rg[r].state # "Active", rg'[r].state = "Active"
    PROVE  pc[r] = "status" /\ verdict[r] = "nil"
<1>1. rg' # rg
  OBVIOUS
<1>2. Absent.state = "none"
  BY DEF Absent
<1>3. ASSUME NEW q \in ResourceGroup, NEW kro
      PROVE  Patched(q, kro)[r].state \in {rg[r].state, "none"}
  BY <1>2 DEF Patched, DataOK, Copies
<1>4. ASSUME NEW q \in ResourceGroup, ReconcileStep(q)
      PROVE  \/ \E kro \in BOOLEAN : rg' = Patched(q, kro)
             \/ pc[q] = "status" /\ rg' = Reported(q)
  BY <1>1, <1>4 DEF ReconcileStep, AlreadyManaged, SetManaged, SetManagedFails,
     ReconcileResourceGroupGraph, GetCRD, GetCRDFails, WriteCRD, WriteCRDFails,
     WaitForReady, WaitForReadyFails, ReconcileMicroController,
     MicroControllerServes, SetResourceGroupStatus,
     SetResourceGroupStatusFails, ShutdownMicroController,
     MicroControllerStopped, CleanupCRD, CleanupCRDFails, AlreadyUnmanaged,
     SetUnmanaged, SetUnmanagedFails, clusterVars
<1>5. ASSUME NEW q \in ResourceGroup, ReconcileStep(q)
      PROVE  pc[r] = "status" /\ verdict[r] = "nil"
  <2>1. pc[q] = "status" /\ rg' = Reported(q)
    BY <1>3, <1>4, <1>5
  <2>2. q = r /\ State(r) = "Active"
    BY <2>1 DEF Reported, DataOK, Copies
  <2> QED
    BY <2>1, <2>2 DEF State
<1>6. ASSUME OtherStep
      PROVE  FALSE
  <2>1. UserNext
    BY <1>1, <1>6 DEF OtherStep, ServerNext, Establish, CRDGone, InitialList,
       Observe, ReconcileNotFound, Reconcile, RegistryStep, Crash, clusterVars
  <2>2. PICK q \in ResourceGroup :
          \/ \E s \in Contents : \/ Edit(q, s)
                                \/ \E f \in BOOLEAN : Create(q, s, f)
          \/ Delete(q)
          \/ RemoveForeign(q)
    BY <2>1 DEF UserNext
  <2>3. ASSUME NEW s \in Contents, Edit(q, s)
        PROVE  rg'[r].state = rg[r].state
    BY <2>3 DEF Edit, DataOK, Copies
  <2>4. ASSUME NEW s \in Contents, NEW f \in BOOLEAN, Create(q, s, f)
        PROVE  rg'[r].state \in {rg[r].state, "none"}
    BY <2>4 DEF Create, DataOK, Absent
  <2>5. CASE Delete(q)
    BY <1>2, <2>5 DEF Delete, DataOK, Copies
  <2>6. CASE RemoveForeign(q)
    BY <1>2, <2>6 DEF RemoveForeign, DataOK, Copies
  <2> QED
    BY <2>2, <2>3, <2>4, <2>5, <2>6
<1> QED
  BY <1>1, <1>5, <1>6, Zenon DEF Next, ControllerStep, OtherStep, vars,
     clusterVars

\* A ResourceGroup becomes Active only when its graph was accepted and its
\* CRD, an informer that has synced and a handler are in place with the
\* contents that its reconciliation was given, whatever edits, deletions,
\* failures and restarts came before and however far the cache trails
\* (reconcileResourceGroup and setResourceGroupStatus).
THEOREM ActiveWasEarned ==
    ASSUME OneOwner
    PROVE  SafetySpec => ActiveIsEarned
<1> DEFINE Inv == DataOK /\ OwnerInv /\ CallInv /\ ServedInv
<1>1. Init => Inv
  BY InitCalls, InitGroups, InitServed
<1>2. Inv /\ [Next]_vars => Inv'
  BY GroupStep, CallStep, ServedStep
<1>3. Inv /\ [Next]_vars =>
        [\A r \in ResourceGroup :
           (rg[r].state # "Active" /\ rg'[r].state = "Active") =>
               /\ snap[r].spec \in Verified
               /\ InPlace(r, snap[r].spec)
               /\ Serving(r, snap[r].spec)]_vars
  BY ActivatedByStatus DEF ServedInv, Served, Registration, Achieved, Serving
<1> QED
  BY <1>1, <1>2, <1>3, PTL DEF SafetySpec, ActiveIsEarned
=============================================================================
