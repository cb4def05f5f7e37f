---------------------- MODULE ResourceGroupController ----------------------
(***************************************************************************)
(* The ResourceGroup controller (internal/controller/resourcegroup): for   *)
(* each ResourceGroup it verifies the graph, ensures the CRD of its        *)
(* instances, registers the GVR of the instances with the dynamic          *)
(* controller and reports in the status; for one that is deleted it        *)
(* unregisters the GVR and deletes the CRD.                                *)
(*                                                                         *)
(* A reconciliation reads the ResourceGroup from the cache of the manager, *)
(* which trails the cluster, and makes its API calls one step at a time.   *)
(* controller-runtime never reconciles a ResourceGroup twice at a time, so *)
(* a ResourceGroup is a caller of module Registry.                         *)
(***************************************************************************)
EXTENDS Registry

CONSTANTS
    Kind,             \* the kinds of instances
    KindOf,           \* ResourceGroup -> spec.schema.kind, which is immutable
    Contents,         \* the contents of a ResourceGroup
    Verified,         \* the contents whose graph NewResourceGroup accepts
    AllowCRDDeletion, \* the flag allow-crd-deletion
    Faults,           \* which calls can fail; "crash": the process can die
    MaxFaults,        \* bound: the number of faults in a behaviour
    MaxCreations,     \* bound: how often a ResourceGroup is created
    MaxEdits          \* bound: how often ResourceGroups are edited

ResourceGroup == Caller

\* GVKtoGVR, by which the graph builder names the GVR of the instances.
GVKtoGVR(kind) == [group |-> "kro.run", resource |-> kind]

\* GetResourceGroupInstanceGVR puts the plural in front of the group.
GetResourceGroupInstanceGVR(kind) ==
    [group |-> "plural.kro.run", resource |-> kind]

GVRs == {GVKtoGVR(k) : k \in Kind}
        \cup {GetResourceGroupInstanceGVR(k) : k \in Kind}

Calls == {"setManaged", "getCRD", "writeCRD", "waitForReady", "deleteCRD",
          "setUnmanaged", "patchStatus", "crash"}

ASSUME ResourceGroupAssumption ==
    /\ GVR = GVRs
    /\ KindOf \in [ResourceGroup -> Kind]
    /\ Contents # {} /\ Verified \subseteq Contents
    /\ Handler = Verified
    /\ AllowCRDDeletion \in BOOLEAN
    /\ Faults \subseteq Calls
    /\ MaxFaults \in Nat
    /\ MaxCreations \in Nat
    /\ MaxEdits \in Nat

VARIABLES
    rg,       \* the ResourceGroups, as the API server has them
    crd,      \* Kind -> the CRD, as the API server has it
    cached,   \* the ResourceGroups, as the cache of the manager has them
    notify,   \* those with an event the cache has not delivered yet
    queue,    \* those to be reconciled
    pc,       \* the next step of each reconciliation
    snap,     \* the ResourceGroup it was given
    verdict,  \* reconcileErr
    faults,
    creations,
    edits

clusterVars == <<rg, crd, creations, edits>>
queueVars == <<cached, notify, queue>>
localVars == <<pc, snap, verdict>>
vars == <<registryVars, clusterVars, queueVars, localVars, faults>>

States == {"none", "Active", "Inactive"}

CRDs == [phase : {"absent", "pending", "established", "terminating"},
         spec : Contents]

\* finalizer: it has the finalizer of kro; foreign: it has another one.
Copies == [phase : {"absent", "live", "deleting"}, finalizer : BOOLEAN,
           foreign : BOOLEAN, spec : Contents, state : States]

NoContents == CHOOSE s \in Contents : TRUE

Absent == [phase |-> "absent", finalizer |-> FALSE, foreign |-> FALSE,
           spec |-> NoContents, state |-> "none"]

NoCRD == [phase |-> "absent", spec |-> NoContents]

DataOK ==
    /\ rg \in [ResourceGroup -> Copies]
    /\ crd \in [Kind -> CRDs]
    /\ cached \in [ResourceGroup -> Copies]
    /\ notify \subseteq ResourceGroup
    /\ queue \subseteq ResourceGroup
    /\ pc \in [ResourceGroup ->
                 {"idle", "setManaged", "graph", "getCRD", "createCRD",
                  "patchCRD", "waitForReady", "startServing", "serving",
                  "status", "stopService", "stopping", "deleteCRD",
                  "setUnmanaged"}]
    /\ snap \in [ResourceGroup -> Copies]
    /\ verdict \in [ResourceGroup -> {"nil", "graph", "crd"}]
    /\ faults \in 0..MaxFaults
    /\ creations \in [ResourceGroup -> 0..MaxCreations]
    /\ edits \in 0..MaxEdits

\* The variables stay in their ranges.
TypeOK == RegistryTypeOK /\ DataOK

Init ==
    /\ RegistryInit
    /\ rg = [r \in ResourceGroup |-> Absent]
    /\ crd = [k \in Kind |-> NoCRD]
    /\ cached = rg
    /\ notify = {}
    /\ queue = {}
    /\ pc = [r \in ResourceGroup |-> "idle"]
    /\ snap = rg
    /\ verdict = [r \in ResourceGroup |-> "nil"]
    /\ faults = 0
    /\ creations = [r \in ResourceGroup |-> 0]
    /\ edits = 0

-----------------------------------------------------------------------------
(***************************************************************************)
(* The user and the API server.                                            *)
(***************************************************************************)

Create(r, s, f) ==
    /\ rg[r].phase = "absent"
    /\ creations[r] < MaxCreations
    /\ creations' = [creations EXCEPT ![r] = @ + 1]
    /\ rg' = [rg EXCEPT ![r] = [Absent EXCEPT !.phase = "live", !.spec = s,
                                             !.foreign = f]]
    /\ notify' = notify \cup {r}
    /\ UNCHANGED <<registryVars, crd, edits, cached, queue, localVars, faults>>

Edit(r, s) ==
    /\ rg[r].phase = "live"
    /\ s # rg[r].spec
    /\ edits < MaxEdits
    /\ edits' = edits + 1
    /\ rg' = [rg EXCEPT ![r].spec = s]
    /\ notify' = notify \cup {r}
    /\ UNCHANGED <<registryVars, crd, creations, cached, queue, localVars,
                   faults>>

\* A ResourceGroup with a finalizer stays until the finalizer is removed.
Delete(r) ==
    /\ rg[r].phase = "live"
    /\ rg' = [rg EXCEPT ![r] = IF @.finalizer \/ @.foreign
                                 THEN [@ EXCEPT !.phase = "deleting"]
                                 ELSE Absent]
    /\ notify' = notify \cup {r}
    /\ UNCHANGED <<registryVars, crd, creations, edits, cached, queue,
                   localVars, faults>>

\* Whoever added the other finalizer removes it.
RemoveForeign(r) ==
    /\ rg[r].foreign
    /\ rg' = [rg EXCEPT ![r] = IF @.phase = "deleting" /\ ~@.finalizer
                                 THEN Absent
                                 ELSE [@ EXCEPT !.foreign = FALSE]]
    /\ notify' = IF rg'[r].phase = "absent" THEN notify \cup {r} ELSE notify
    /\ UNCHANGED <<registryVars, crd, creations, edits, cached, queue,
                   localVars, faults>>

Establish(k) ==
    /\ crd[k].phase = "pending"
    /\ crd' = [crd EXCEPT ![k].phase = "established"]
    /\ UNCHANGED <<registryVars, rg, creations, edits, queueVars, localVars,
                   faults>>

\* The API server has deleted the instances of a CRD that is deleted.
CRDGone(k) ==
    /\ crd[k].phase = "terminating"
    /\ crd' = [crd EXCEPT ![k] = NoCRD]
    /\ UNCHANGED <<registryVars, rg, creations, edits, queueVars, localVars,
                   faults>>

\* The informer of an instance GVR lists while the API server serves it.
InitialList(g, n) ==
    /\ g.group = "kro.run"
    /\ crd[g.resource].phase \in {"established", "terminating"}
    /\ Sync(g, n)
    /\ UNCHANGED <<clusterVars, queueVars, localVars, faults>>

\* The cache of the manager catches up.  GenerationChangedPredicate lets
\* creations, deletions and changes of the spec through, not the others.
Observe(r) ==
    /\ cached[r] # rg[r] \/ r \in notify
    /\ cached' = [cached EXCEPT ![r] = rg[r]]
    /\ notify' = notify \ {r}
    /\ queue' = IF r \in notify THEN queue \cup {r} ELSE queue
    /\ UNCHANGED <<registryVars, clusterVars, localVars, faults>>

-----------------------------------------------------------------------------
(***************************************************************************)
(* Reconcile.                                                              *)
(***************************************************************************)

CanFail(c) ==
    /\ c \in Faults
    /\ faults < MaxFaults
    /\ faults' = faults + 1

Goto(r, step) == pc' = [pc EXCEPT ![r] = step]

\* Reconcile returns: the next one is given another copy.
Return(r) ==
    /\ pc' = [pc EXCEPT ![r] = "idle"]
    /\ snap' = [snap EXCEPT ![r] = Absent]
    /\ verdict' = [verdict EXCEPT ![r] = "nil"]

\* Reconcile returns an error: controller-runtime queues it again.
Fail(r) ==
    /\ Return(r)
    /\ queue' = queue \cup {r}
    /\ UNCHANGED <<cached, notify>>

\* reconcileResourceGroup returns, with reconcileErr e.
Conclude(r, e) ==
    /\ verdict' = [verdict EXCEPT ![r] = e]
    /\ Goto(r, "status")
    /\ UNCHANGED <<snap, queueVars>>

\* The step before goes well and changes nothing else.
Proceed(r, step) ==
    /\ Goto(r, step)
    /\ UNCHANGED <<snap, verdict, queueVars>>

ReconcileNotFound(r) ==
    /\ r \in queue /\ pc[r] = "idle"
    /\ cached[r].phase = "absent"
    /\ queue' = queue \ {r}
    /\ UNCHANGED <<registryVars, clusterVars, cached, notify, localVars,
                   faults>>

Reconcile(r) ==
    /\ r \in queue /\ pc[r] = "idle"
    /\ cached[r].phase # "absent"
    /\ queue' = queue \ {r}
    /\ snap' = [snap EXCEPT ![r] = cached[r]]
    /\ Goto(r, IF cached[r].phase = "deleting" THEN "stopService"
                                               ELSE "setManaged")
    /\ UNCHANGED <<registryVars, clusterVars, cached, notify, verdict, faults>>

AlreadyManaged(r) ==
    /\ pc[r] = "setManaged"
    /\ snap[r].finalizer
    /\ Proceed(r, "graph")
    /\ UNCHANGED <<registryVars, clusterVars, faults>>

\* The patch of the finalizers replaces the list that was read by one with
\* the finalizer of kro, or without.  It carries no resourceVersion, so it
\* meets no conflict; but there must be a ResourceGroup, and one that is
\* deleted gets no new finalizer.
Accepted(r, kro) ==
    CASE rg[r].phase = "absent" -> FALSE
      [] rg[r].phase = "live" -> TRUE
      [] rg[r].phase = "deleting" -> /\ kro => rg[r].finalizer
                                     /\ snap[r].foreign => rg[r].foreign

\* One that is deleted and has no finalizer any more is gone.
Patched(r, kro) ==
    [rg EXCEPT ![r] = IF @.phase = "deleting" /\ ~kro /\ ~snap[r].foreign
                        THEN Absent
                        ELSE [@ EXCEPT !.finalizer = kro,
                                       !.foreign = snap[r].foreign]]

SetManaged(r) ==
    /\ pc[r] = "setManaged"
    /\ ~snap[r].finalizer
    /\ Accepted(r, TRUE)
    /\ rg' = Patched(r, TRUE)
    /\ Proceed(r, "graph")
    /\ UNCHANGED <<registryVars, crd, creations, edits, faults>>

\* The patch is refused, or the call fails, after it had its effect or
\* without.
SetManagedFails(r) ==
    /\ pc[r] = "setManaged"
    /\ ~snap[r].finalizer
    /\ IF Accepted(r, TRUE)
         THEN CanFail("setManaged") /\ rg' \in {rg, Patched(r, TRUE)}
         ELSE UNCHANGED <<rg, faults>>
    /\ Fail(r)
    /\ UNCHANGED <<registryVars, crd, creations, edits>>

ReconcileResourceGroupGraph(r) ==
    /\ pc[r] = "graph"
    /\ IF snap[r].spec \in Verified THEN Proceed(r, "getCRD")
                                    ELSE Conclude(r, "graph")
    /\ UNCHANGED <<registryVars, clusterVars, faults>>

-----------------------------------------------------------------------------
(***************************************************************************)
(* reconcileResourceGroupCRD: crdManager.Ensure.                           *)
(***************************************************************************)

GetCRD(r) ==
    /\ pc[r] = "getCRD"
    /\ Proceed(r, IF crd[KindOf[r]].phase = "absent" THEN "createCRD"
                                                     ELSE "patchCRD")
    /\ UNCHANGED <<registryVars, clusterVars, faults>>

GetCRDFails(r) ==
    /\ pc[r] = "getCRD"
    /\ CanFail("getCRD")
    /\ Conclude(r, "crd")
    /\ UNCHANGED <<registryVars, clusterVars>>

\* Create, or patch whatever the CRD contains.
Written(r) ==
    [crd EXCEPT ![KindOf[r]] = [phase |-> IF @.phase = "absent" THEN "pending"
                                                                ELSE @.phase,
                                spec |-> snap[r].spec]]

\* Is there nothing to create in the way of, or something to patch?
Writable(r) ==
    \/ pc[r] = "createCRD" /\ crd[KindOf[r]].phase = "absent"
    \/ pc[r] = "patchCRD" /\ crd[KindOf[r]].phase # "absent"

WriteCRD(r) ==
    /\ pc[r] \in {"createCRD", "patchCRD"}
    /\ Writable(r)
    /\ crd' = Written(r)
    /\ Proceed(r, "waitForReady")
    /\ UNCHANGED <<registryVars, rg, creations, edits, faults>>

\* The error of create or patch, or of a call that fails.
WriteCRDFails(r) ==
    /\ pc[r] \in {"createCRD", "patchCRD"}
    /\ IF Writable(r) THEN CanFail("writeCRD") /\ crd' \in {crd, Written(r)}
                      ELSE UNCHANGED <<crd, faults>>
    /\ Conclude(r, "crd")
    /\ UNCHANGED <<registryVars, rg, creations, edits>>

\* A CRD that terminates is still established.
WaitForReady(r) ==
    /\ pc[r] = "waitForReady"
    /\ crd[KindOf[r]].phase \in {"established", "terminating"}
    /\ Proceed(r, "startServing")
    /\ UNCHANGED <<registryVars, clusterVars, faults>>

\* A Get fails, or the two minutes pass.
WaitForReadyFails(r) ==
    /\ pc[r] = "waitForReady"
    /\ \/ CanFail("waitForReady")
       \/ crd[KindOf[r]].phase = "absent" /\ UNCHANGED faults
    /\ Conclude(r, "crd")
    /\ UNCHANGED <<registryVars, clusterVars>>

-----------------------------------------------------------------------------
(***************************************************************************)
(* reconcileResourceGroupMicroController, and the status.                  *)
(***************************************************************************)

ReconcileMicroController(r) ==
    /\ pc[r] = "startServing"
    /\ StartServingGVK(r, GVKtoGVR(KindOf[r]), snap[r].spec)
    /\ Proceed(r, "serving")
    /\ UNCHANGED <<clusterVars, faults>>

MicroControllerServes(r) ==
    /\ pc[r] = "serving"
    /\ Resting(r)
    /\ Conclude(r, "nil")
    /\ UNCHANGED <<registryVars, clusterVars, faults>>

\* Mutant: an error of the CRD leaves the default state, Active.
StateOfGraphErrorsOnly(r) ==
    IF verdict[r] = "graph" THEN "Inactive" ELSE "Active"

\* StatusProcessor
State(r) == IF verdict[r] = "nil" THEN "Active" ELSE "Inactive"

\* The copy that setResourceGroupStatus compares with: the client of the
\* manager reads its cache.
Current(r) == cached[r]

\* The merge patch holds the fields in which the new status differs from
\* that copy.
Reported(r) == IF State(r) = Current(r).state
                 THEN rg
                 ELSE [rg EXCEPT ![r].state = State(r)]

SetResourceGroupStatus(r) ==
    /\ pc[r] = "status"
    /\ "absent" \notin {Current(r).phase, rg[r].phase}
    /\ rg' = Reported(r)
    /\ Return(r)
    /\ UNCHANGED <<registryVars, crd, creations, edits, queueVars, faults>>

\* Mutant: the error of setResourceGroupStatus is only logged.
StatusErrorIgnored(r) ==
    /\ pc[r] = "status"
    /\ IF "absent" \in {Current(r).phase, rg[r].phase}
         THEN UNCHANGED <<rg, faults>>
         ELSE CanFail("patchStatus") /\ UNCHANGED rg
    /\ Return(r)
    /\ UNCHANGED <<registryVars, crd, creations, edits, queueVars>>

SetResourceGroupStatusFails(r) ==
    /\ pc[r] = "status"
    /\ IF "absent" \in {Current(r).phase, rg[r].phase}
         THEN UNCHANGED <<rg, faults>>
         ELSE CanFail("patchStatus") /\ rg' \in {rg, Reported(r)}
    /\ Fail(r)
    /\ UNCHANGED <<registryVars, crd, creations, edits>>

-----------------------------------------------------------------------------
(***************************************************************************)
(* cleanupResourceGroup and setUnmanaged.                                  *)
(***************************************************************************)

ShutdownMicroController(r) ==
    /\ pc[r] = "stopService"
    /\ StopServiceGVK(r, GetResourceGroupInstanceGVR(KindOf[r]))
    /\ Proceed(r, "stopping")
    /\ UNCHANGED <<clusterVars, faults>>

MicroControllerStopped(r) ==
    /\ pc[r] = "stopping"
    /\ Resting(r)
    /\ Proceed(r, "deleteCRD")
    /\ UNCHANGED <<registryVars, clusterVars, faults>>

\* Skipped unless allowed; a CRD that is gone already is no error.
CRDDeleted(r) ==
    [crd EXCEPT ![KindOf[r]].phase =
        IF AllowCRDDeletion /\ @ # "absent" THEN "terminating" ELSE @]

CleanupCRD(r) ==
    /\ pc[r] = "deleteCRD"
    /\ crd' = CRDDeleted(r)
    /\ Proceed(r, "setUnmanaged")
    /\ UNCHANGED <<registryVars, rg, creations, edits, faults>>

\* Mutant: a failed deletion of the CRD is only logged.
CleanupCRDErrorIgnored(r) ==
    /\ pc[r] = "deleteCRD"
    /\ AllowCRDDeletion
    /\ CanFail("deleteCRD")
    /\ Proceed(r, "setUnmanaged")
    /\ UNCHANGED <<registryVars, clusterVars>>

CleanupCRDFails(r) ==
    /\ pc[r] = "deleteCRD"
    /\ AllowCRDDeletion
    /\ CanFail("deleteCRD")
    /\ crd' \in {crd, CRDDeleted(r)}
    /\ Fail(r)
    /\ UNCHANGED <<registryVars, rg, creations, edits>>

\* Its deletion is an event.
NotifyIfGone(r) ==
    notify' = IF rg'[r].phase = rg[r].phase THEN notify ELSE notify \cup {r}

AlreadyUnmanaged(r) ==
    /\ pc[r] = "setUnmanaged"
    /\ ~snap[r].finalizer
    /\ Return(r)
    /\ UNCHANGED <<registryVars, clusterVars, queueVars, faults>>

SetUnmanaged(r) ==
    /\ pc[r] = "setUnmanaged"
    /\ snap[r].finalizer
    /\ Accepted(r, FALSE)
    /\ rg' = Patched(r, FALSE)
    /\ NotifyIfGone(r)
    /\ Return(r)
    /\ UNCHANGED <<registryVars, crd, creations, edits, cached, queue, faults>>

\* Mutant: the error of setUnmanaged is not returned.
SetUnmanagedGivesUp(r) ==
    /\ pc[r] = "setUnmanaged"
    /\ snap[r].finalizer
    /\ CanFail("setUnmanaged")
    /\ Return(r)
    /\ UNCHANGED <<registryVars, clusterVars, queueVars>>

SetUnmanagedFails(r) ==
    /\ pc[r] = "setUnmanaged"
    /\ snap[r].finalizer
    /\ IF Accepted(r, FALSE)
         THEN CanFail("setUnmanaged") /\ rg' \in {rg, Patched(r, FALSE)}
         ELSE UNCHANGED <<rg, faults>>
    /\ NotifyIfGone(r)
    /\ Return(r)
    /\ queue' = queue \cup {r}
    /\ UNCHANGED <<registryVars, crd, creations, edits, cached>>

-----------------------------------------------------------------------------
RegistryStep(r) ==
    /\ OperationStep(r)
    /\ UNCHANGED <<clusterVars, queueVars, localVars, faults>>

\* The process dies.  The next one has an empty registry, and its cache
\* delivers every ResourceGroup as a new one.
Crash ==
    /\ CanFail("crash")
    /\ informers' = [g \in GVR |-> 0]
    /\ handlers' = [g \in GVR |-> NoHandler]
    /\ started' = [g \in GVR |-> 0]
    /\ live' = {}
    /\ synced' = {}
    /\ call' = [c \in Caller |-> Idle]
    /\ cached' = rg
    /\ notify' = {}
    /\ queue' = {r \in ResourceGroup : rg[r].phase # "absent"}
    /\ pc' = [r \in ResourceGroup |-> "idle"]
    /\ snap' = [r \in ResourceGroup |-> Absent]
    /\ verdict' = [r \in ResourceGroup |-> "nil"]
    /\ UNCHANGED clusterVars

ReconcileStep(r) ==
    \/ AlreadyManaged(r)
    \/ SetManaged(r)
    \/ SetManagedFails(r)
    \/ ReconcileResourceGroupGraph(r)
    \/ GetCRD(r)
    \/ GetCRDFails(r)
    \/ WriteCRD(r)
    \/ WriteCRDFails(r)
    \/ WaitForReady(r)
    \/ WaitForReadyFails(r)
    \/ ReconcileMicroController(r)
    \/ MicroControllerServes(r)
    \/ SetResourceGroupStatus(r)
    \/ SetResourceGroupStatusFails(r)
    \/ ShutdownMicroController(r)
    \/ MicroControllerStopped(r)
    \/ CleanupCRD(r)
    \/ CleanupCRDFails(r)
    \/ AlreadyUnmanaged(r)
    \/ SetUnmanaged(r)
    \/ SetUnmanagedFails(r)

ControllerStep(r) ==
    ReconcileNotFound(r) \/ Reconcile(r) \/ ReconcileStep(r) \/ RegistryStep(r)

UserNext ==
    \E r \in ResourceGroup :
        \/ \E s \in Contents : Edit(r, s) \/ \E f \in BOOLEAN : Create(r, s, f)
        \/ Delete(r)
        \/ RemoveForeign(r)

ServerNext ==
    \/ \E k \in Kind : Establish(k) \/ CRDGone(k)
    \/ \E g \in GVR, n \in 1..MaxCalls : InitialList(g, n)

Next ==
    \/ UserNext
    \/ ServerNext
    \/ \E r \in ResourceGroup : Observe(r) \/ ControllerStep(r)
    \/ Crash

SafetySpec == Init /\ [][Next]_vars

\* The worker of a ResourceGroup goes on, the cache delivers, informers list
\* and the API server establishes and removes CRDs.  Nothing is assumed of
\* the user, and no fault has to happen: the fair actions include the steps
\* that fail, whose number is bounded.
Fairness ==
    /\ \A r \in ResourceGroup : WF_vars(ControllerStep(r)) /\ WF_vars(Observe(r))
    /\ \A k \in Kind : WF_vars(Establish(k)) /\ WF_vars(CRDGone(k))
    /\ \A g \in GVR : WF_vars(\E n \in 1..MaxCalls : InitialList(g, n))

FairSpec == SafetySpec /\ Fairness

-----------------------------------------------------------------------------
(***************************************************************************)
(* Properties.                                                             *)
(***************************************************************************)

\* Nothing is under way for r: the controller has seen its last change and
\* has finished with it.
Quiet(r) == pc[r] = "idle" /\ r \notin queue \cup notify

\* Instances of r are served with spec s.
Serving(r, s) ==
    LET g == GVKtoGVR(KindOf[r]) IN
    /\ <<g, informers[g]>> \in synced
    /\ handlers[g] = s

\* The CRD of r is there with the schema of spec s.  Where CRDs are deleted
\* it may be on its way out, or gone: an earlier ResourceGroup of the name
\* deleted it, and one that terminates passes for established (waitForReady,
\* pkg/client/crd.go:156-178).
InPlace(r, s) ==
    LET c == crd[KindOf[r]] IN
    \/ c = [phase |-> "established", spec |-> s]
    \/ AllowCRDDeletion /\ c = [phase |-> "terminating", spec |-> s]
    \/ AllowCRDDeletion /\ c.phase = "absent"

\* A ResourceGroup becomes Active only at the end of a reconciliation whose
\* graph was accepted and whose CRD, informer and handler are in place with
\* the contents it was given, whatever edits, deletions, failures and crashes
\* went before and however old the copy was (reconcileResourceGroup,
\* controller_reconcile.go:31-77, and setResourceGroupStatus,
\* controller_status.go:84-145).
ActiveIsEarned ==
    [][\A r \in ResourceGroup :
         (rg[r].state # "Active" /\ rg'[r].state = "Active") =>
             /\ snap[r].spec \in Verified
             /\ InPlace(r, snap[r].spec)
             /\ Serving(r, snap[r].spec)]_vars

\* A ResourceGroup at rest that says Active is what it says: its graph is
\* accepted, its CRD has its schema, an informer watches its instances and
\* their handler executes its graph, because the status is written from a
\* "fresh copy" (setResourceGroupStatus, controller_status.go:120-122).
ActiveMeansServing ==
    \A r \in ResourceGroup :
        (Quiet(r) /\ rg[r].phase = "live" /\ rg[r].state = "Active") =>
            /\ rg[r].spec \in Verified
            /\ InPlace(r, rg[r].spec)
            /\ Serving(r, rg[r].spec)

\* With allow-crd-deletion, at every moment a CRD that is not being deleted
\* has a ResourceGroup with the finalizer, whatever fails or crashes: the
\* finalizer is there before the CRD and after it (setManaged,
\* cleanupResourceGroup and setUnmanaged, controller.go:86-118).
CRDHasOwner ==
    \A k \in Kind :
        (AllowCRDDeletion /\ crd[k].phase \in {"pending", "established"}) =>
            \E r \in ResourceGroup : KindOf[r] = k /\ rg[r].finalizer

\* The CRD of r went while StartServingGVK waits for its informer, without
\* a timeout: the worker of r is lost until the process ends
\* (dynamic_controller.go:474-475).
Hanging(r) == /\ call[r].at = "waitForCacheSync"
              /\ crd[KindOf[r]].phase = "absent"

\* A ResourceGroup that is deleted, and that nobody else holds back, is
\* eventually gone, unless its worker hangs (Reconcile,
\* controller.go:90-103).
DeletionCompletes ==
    \A r \in ResourceGroup :
        rg[r].phase = "deleting" ~>
            (rg[r].phase = "absent" \/ rg[r].foreign \/ Hanging(r))

\* A ResourceGroup gets a status, or is deleted, unless its worker hangs
\* (setResourceGroupStatus, controller_status.go:84-145).
StatusReported ==
    \A r \in ResourceGroup :
        rg[r].phase = "live" ~>
            (rg[r].state # "none" \/ rg[r].phase # "live" \/ Hanging(r))

\* Once a ResourceGroup is gone nothing reconciles its instances
\* (cleanupResourceGroup, controller_cleanup.go:29-41 and :53-55).
StoppedWithResourceGroup ==
    \A r \in ResourceGroup :
        (Quiet(r) /\ rg[r].phase = "absent") =>
            handlers[GVKtoGVR(KindOf[r])] = NoHandler
=============================================================================
