------------------------- MODULE InstanceReconciler -------------------------
(***************************************************************************)
(* Reconciliation of one instance of a ResourceGroup: the instance         *)
(* controller (internal/controller/instance) on one side, the API server,  *)
(* the user and the controllers of the sub-resources on the other.         *)
(*                                                                         *)
(* A reconciliation is a sequence of API calls.  Each call is one step and *)
(* anyone may act between two of them, so what a reconciliation read may   *)
(* be stale when it is used.  Work that involves no call is a step too.    *)
(* The work queue gives the key of an instance to one worker at a time, so *)
(* there is at most one reconciliation of the instance.                    *)
(***************************************************************************)
EXTENDS ResourceGroupRuntime

CONSTANTS
    N,               \* the number of resources
    Order,           \* TopologicalOrder: position -> resource
    SpecValue,       \* the values the user gives to the instance spec
    IncludeWhen,     \* IncludeWhen[s]: the resources whose includeWhen
                     \* conditions hold under spec s
    QueueMaxRetries, \* the retries of processNextWorkItem
    Faults,          \* which calls can fail; "crash": the process can die;
                     \* "touch": someone else updates the instance metadata
    MaxFaults,       \* bound: the number of faults in a behaviour
    MaxEdits,        \* bound: the number of edits of the instance
    Flapping,        \* can a ready resource stop being ready?
    ExternalDeletion \* can someone else delete a sub-resource?

ASSUME OrderAssumption ==
    /\ N \in Nat
    /\ Order \in [1..N -> Resource]
    /\ \A r \in Resource : \E i \in 1..N : Order[i] = r
    /\ \A i, j \in 1..N : Order[i] = Order[j] => i = j
    /\ \A i \in 1..N : \A d \in GetDependencies[Order[i]] :
          \E j \in 1..(i - 1) : Order[j] = d

Calls == {"getInstance", "getExecutionClient", "setManaged", "getResource",
          "createResource", "createNotFound", "deleteResource",
          "setUnmanaged", "patchStatus", "touch", "crash"}

ASSUME EnvironmentAssumption ==
    /\ SpecValue # {}
    /\ IncludeWhen \in [SpecValue -> SUBSET Resource]
    /\ QueueMaxRetries \in Nat
    /\ Faults \subseteq Calls
    /\ MaxFaults \in Nat
    /\ MaxEdits \in Nat
    /\ Flapping \in BOOLEAN
    /\ ExternalDeletion \in BOOLEAN

VARIABLES
    \* The instance, as the API server has it.
    instance,    \* "absent", "live", or "deleting": deletionTimestamp is set
    finalizer,   \* does it carry the finalizer of kro?
    otherFinalizer, \* does it carry a finalizer of someone else?
    spec,        \* its spec
    status,      \* status.state
    \* The sub-resources, as the API server has them.
    phase,       \* "absent", "live" or "terminating"
    populated,   \* has its controller filled in the fields others read?
    ready,       \* would its readyWhen expressions hold?
    \* The work queue and the informer, for the key of the instance.
    notify,      \* an event the informer has not delivered yet
    queued,      \* the key is in the queue, or waits to be added to it
    retries,     \* NumRequeues
    gaveUp,      \* the last pass failed and nothing queues the key again
    \* The reconciliation in progress.
    pc,          \* its next step
    snap,        \* the instance as GetInstance returned it
    fresh,       \* nobody else wrote the instance since: no conflict
    rank,        \* the runtime, see ResourceGroupRuntime
    resolved,
    seen,
    ignored,     \* ignoredByConditionsResources
    idx,         \* position in the topological order
    rstate,      \* InstanceState.ResourceStates
    state,       \* InstanceState.State
    err,         \* InstanceState.ReconcileErr
    \* Bounds.
    faults,
    edits

instanceVars == <<instance, finalizer, otherFinalizer, spec, status>>
objectVars == <<phase, populated, ready>>
queueVars == <<notify, queued, retries, gaveUp>>
boundVars == <<faults, edits>>
view == <<snap, fresh>>
runtimeVars == <<rank, resolved, seen, ignored>>
result == <<state, err>>
cluster == <<instanceVars, objectVars, boundVars>>
world == <<cluster, queueVars>>
local == <<pc, view, runtimeVars, idx, rstate, result>>
vars == <<world, local>>

-----------------------------------------------------------------------------
InstanceStates == {"none", "IN_PROGRESS", "ACTIVE", "DELETING", "ERROR"}

ResourceStates == {"none", "PENDING", "IN_PROGRESS", "SKIPPED", "ERROR",
                   "CREATED", "WAITING_FOR_READINESS", "SYNCED",
                   "PENDING_DELETION", "DELETED", "DELETING"}

\* How a reconciliation ends: no error, requeue.NeededAfter, an error that
\* apierrors.IsNotFound recognises, or any other error.
Outcomes == {"nil", "requeueAfter", "notFound", "err"}

Steps == {"idle", "getInstance", "setManaged", "reconcileResource",
          "getResource", "createResource", "initializeDeletion",
          "getForDeletion", "deleteResource", "finalizeDeletion",
          "patchStatus"}

Snapshots == [spec : SpecValue, deleting : BOOLEAN, finalizer : BOOLEAN]

\* The variables that are flags.
FlagsOK ==
    /\ finalizer \in BOOLEAN
    /\ otherFinalizer \in BOOLEAN
    /\ notify \in BOOLEAN
    /\ queued \in BOOLEAN
    /\ gaveUp \in BOOLEAN
    /\ fresh \in BOOLEAN

\* The other variables.
DataOK ==
    /\ instance \in {"absent", "live", "deleting"}
    /\ spec \in SpecValue
    /\ status \in InstanceStates
    /\ phase \in [Resource -> {"absent", "live", "terminating"}]
    /\ populated \in [Resource -> BOOLEAN]
    /\ ready \in [Resource -> BOOLEAN]
    /\ retries \in 0..QueueMaxRetries
    /\ pc \in Steps
    /\ snap \in Snapshots
    /\ rank \in Rankings
    /\ resolved \in SUBSET Expr
    /\ seen \in [Resource -> {"none", "partial", "full"}]
    /\ ignored \in SUBSET Resource
    /\ idx \in 0..(N + 1)
    /\ rstate \in [Resource -> ResourceStates]
    /\ state \in InstanceStates
    /\ err \in Outcomes
    /\ faults \in 0..MaxFaults
    /\ edits \in 0..MaxEdits

TypeOK == FlagsOK /\ DataOK

-----------------------------------------------------------------------------
(***************************************************************************)
(* Helpers.                                                                *)
(***************************************************************************)

\* A call can fail while the budget of faults lasts.
CanFail(call) ==
    /\ call \in Faults
    /\ faults < MaxFaults
    /\ faults' = faults + 1

\* An Update of the instance is refused when the instance is gone or when
\* someone else has written it since it was read.
Refusal == IF instance = "absent" THEN "notFound" ELSE "err"

\* Mutant: a pass that stops to wait counts as a success.
FinishActive(e) ==
    /\ err' = e
    /\ state' = CASE e \in {"err", "notFound"} -> "ERROR"
                  [] state # "DELETING" -> "ACTIVE"
                  [] OTHER -> state
    /\ pc' = "patchStatus"

\* updateInstanceState, and on to patching the status.
Finish(e) ==
    /\ err' = e
    /\ state' = CASE e \in {"err", "notFound"} -> "ERROR"
                  [] e = "nil" /\ state # "DELETING" -> "ACTIVE"
                  [] OTHER -> state
    /\ pc' = "patchStatus"

\* Finish in a step that leaves the runtime and the resource states alone.
FinishUnchanged(e) ==
    /\ Finish(e)
    /\ UNCHANGED <<view, runtimeVars, idx, rstate>>

\* Synchronize with the given objects, then next, or the error it returns.
SynchronizeThen(objects, next) ==
    IF SynchronizeSucceeds(rank, resolved, objects)
      THEN /\ resolved' = SynchronizedExprs(rank, resolved, objects)
           /\ pc' = next
           /\ UNCHANGED result
      ELSE /\ Finish("err")
           /\ UNCHANGED resolved

\* What a Get of r observes.
Observation(r) == IF populated[r] THEN "full" ELSE "partial"

\* The sub-resource r is at position idx.
Current(r) == idx \in 1..N /\ r = Order[idx]

\* The values of the variables of a reconciliation when there is none.
AnyRanking == CHOOSE f \in Rankings : TRUE

NoSnapshot == [spec |-> CHOOSE s \in SpecValue : TRUE,
               deleting |-> FALSE, finalizer |-> FALSE]

NoReconciliation ==
    /\ pc' = "idle"
    /\ fresh' = FALSE
    /\ snap' = NoSnapshot
    /\ rank' = AnyRanking
    /\ resolved' = {}
    /\ seen' = [r \in Resource |-> "none"]
    /\ ignored' = {}
    /\ idx' = 0
    /\ rstate' = [r \in Resource |-> "none"]
    /\ state' = "none"
    /\ err' = "nil"

-----------------------------------------------------------------------------
(***************************************************************************)
(* processNextWorkItem, around the reconciliation.                         *)
(***************************************************************************)

ProcessNextWorkItem ==
    /\ pc = "idle"
    /\ queued
    /\ queued' = FALSE
    /\ pc' = "getInstance"
    /\ UNCHANGED <<cluster, notify, retries, gaveUp, view, runtimeVars, idx,
                   rstate, result>>

\* Mutant: one retry too many.
HandleResultRetriesOnceMore(e) ==
    /\ CASE e = "nil" ->
              /\ retries' = 0
              /\ UNCHANGED <<queued, gaveUp>>
         [] e = "requeueAfter" ->
              /\ queued' = TRUE
              /\ UNCHANGED <<retries, gaveUp>>
         [] e = "err" /\ retries <= QueueMaxRetries ->
              /\ queued' = TRUE
              /\ retries' = retries + 1
              /\ UNCHANGED gaveUp
         [] OTHER ->
              /\ retries' = 0
              /\ gaveUp' = ~queued
              /\ UNCHANGED queued
    /\ UNCHANGED notify

\* Mutant: a request to be requeued is taken for a success.
HandleResultForgets(e) ==
    /\ CASE e \in {"nil", "requeueAfter"} ->
              /\ retries' = 0
              /\ UNCHANGED <<queued, gaveUp>>
         [] e = "err" /\ retries < QueueMaxRetries ->
              /\ queued' = TRUE
              /\ retries' = retries + 1
              /\ UNCHANGED gaveUp
         [] OTHER ->
              /\ retries' = 0
              /\ gaveUp' = ~queued
              /\ UNCHANGED queued
    /\ UNCHANGED notify

\* The reconciliation returned e.  The key may have been added again in the
\* meantime, and stays in the queue then.  An error is forgotten after
\* QueueMaxRetries retries; NotFound is forgotten at once, and so is nil, also
\* where it stands for a failure that was only logged, "swallowed".
HandleResult(e) ==
    /\ CASE e = "nil" ->                                        \* Forget
              /\ retries' = 0
              /\ UNCHANGED <<queued, gaveUp>>
         [] e = "requeueAfter" ->                               \* AddAfter
              /\ queued' = TRUE
              /\ UNCHANGED <<retries, gaveUp>>
         [] e = "err" /\ retries < QueueMaxRetries ->      \* AddRateLimited
              /\ queued' = TRUE
              /\ retries' = retries + 1
              /\ UNCHANGED gaveUp
         [] OTHER ->                                            \* Forget
              /\ retries' = 0
              /\ gaveUp' = ~queued
              /\ UNCHANGED queued
    /\ UNCHANGED notify

Return(e) == HandleResult(e) /\ NoReconciliation

-----------------------------------------------------------------------------
(***************************************************************************)
(* Controller.Reconcile.                                                   *)
(***************************************************************************)

GetInstanceNotFound ==
    /\ pc = "getInstance"
    /\ instance = "absent"
    /\ Return("nil")
    /\ UNCHANGED cluster

\* Any other error of the Get is logged and nil is returned.
GetInstanceFails ==
    /\ pc = "getInstance"
    /\ CanFail("getInstance")
    /\ Return("swallowed")
    /\ UNCHANGED <<instanceVars, objectVars, edits>>

\* The runtime, or the client to use in the namespace, cannot be created.
CreateRuntimeFails ==
    /\ pc = "getInstance"
    /\ instance # "absent"
    /\ \/ /\ \E f \in Rankings : ~NewRuntimeSucceeds(f)
          /\ UNCHANGED faults
       \/ CanFail("getExecutionClient")
    /\ Return("err")
    /\ UNCHANGED <<instanceVars, objectVars, edits>>

GetInstanceFound ==
    /\ pc = "getInstance"
    /\ instance # "absent"
    /\ \E f \in Rankings :
          /\ NewRuntimeSucceeds(f)
          /\ rank' = f
          /\ resolved' = StaticExprs(f)
    /\ snap' = [spec |-> spec, deleting |-> instance = "deleting",
                finalizer |-> finalizer]
    /\ fresh' = TRUE
    /\ IF instance = "deleting"
         THEN /\ state' = "DELETING"
              /\ pc' = "initializeDeletion"
              /\ idx' = 1
         ELSE /\ state' = "IN_PROGRESS"
              /\ pc' = "setManaged"
              /\ UNCHANGED idx
    /\ UNCHANGED <<world, seen, ignored, rstate, err>>

-----------------------------------------------------------------------------
(***************************************************************************)
(* reconcileInstance.                                                      *)
(***************************************************************************)

\* The resource states are initialised and the first resource is next.
StartResources ==
    /\ pc' = "reconcileResource"
    /\ idx' = 1
    /\ rstate' = [r \in Resource |-> "PENDING"]
    /\ UNCHANGED <<runtimeVars, result>>

AlreadyManaged ==
    /\ pc = "setManaged"
    /\ snap.finalizer
    /\ StartResources
    /\ UNCHANGED <<world, view>>

SetManaged ==
    /\ pc = "setManaged"
    /\ ~snap.finalizer
    /\ fresh
    /\ finalizer' = TRUE
    /\ snap' = [snap EXCEPT !.finalizer = TRUE]
    /\ StartResources
    /\ UNCHANGED <<instance, otherFinalizer, spec, status, objectVars,
                   queueVars, fresh, boundVars>>

SetManagedRefused ==
    /\ pc = "setManaged"
    /\ ~snap.finalizer
    /\ ~fresh
    /\ FinishUnchanged(Refusal)
    /\ UNCHANGED world

\* An Update that returns an error may have been applied all the same.
SetManagedFails ==
    /\ pc = "setManaged"
    /\ ~snap.finalizer
    /\ CanFail("setManaged")
    /\ \E applied \in BOOLEAN :
          /\ finalizer' = (finalizer \/ (applied /\ fresh))
          /\ fresh' = (fresh /\ ~applied)
    /\ Finish("err")
    /\ UNCHANGED <<instance, otherFinalizer, spec, status, objectVars,
                   queueVars, snap, runtimeVars, idx, rstate, edits>>

\* includeWhen conditions, and the chain of ignored dependencies.
WantToCreateResource(r) ==
    /\ GetDependencies[r] \cap ignored = {}
    /\ r \in IncludeWhen[snap.spec]

SkipResource(r) ==
    /\ pc = "reconcileResource"
    /\ Current(r)
    /\ ~WantToCreateResource(r)
    /\ rstate' = [rstate EXCEPT ![r] = "SKIPPED"]
    /\ ignored' = ignored \cup {r}
    /\ idx' = idx + 1
    /\ SynchronizeThen(seen, "reconcileResource")
    /\ UNCHANGED <<world, view, rank, seen>>

ResourceNotResolved(r) ==
    /\ pc = "reconcileResource"
    /\ Current(r)
    /\ WantToCreateResource(r)
    /\ ~IsResolved(rank, resolved, seen, r)
    /\ rstate' = [rstate EXCEPT ![r] = "IN_PROGRESS"]
    /\ Finish("requeueAfter")
    /\ UNCHANGED <<world, view, runtimeVars, idx>>

ReconcileResource(r) ==
    /\ pc = "reconcileResource"
    /\ Current(r)
    /\ WantToCreateResource(r)
    /\ IsResolved(rank, resolved, seen, r)
    /\ rstate' = [rstate EXCEPT ![r] = "IN_PROGRESS"]
    /\ pc' = "getResource"
    /\ UNCHANGED <<world, view, runtimeVars, idx, result>>

AllReconciled ==
    /\ pc = "reconcileResource"
    /\ idx = N + 1
    /\ FinishUnchanged("nil")
    /\ UNCHANGED world

-----------------------------------------------------------------------------
(***************************************************************************)
(* handleResourceReconciliation.                                           *)
(***************************************************************************)

GetResourceFails(r) ==
    /\ pc = "getResource"
    /\ Current(r)
    /\ CanFail("getResource")
    /\ rstate' = [rstate EXCEPT ![r] = "ERROR"]
    /\ Finish("err")
    /\ UNCHANGED <<instanceVars, objectVars, queueVars, view, runtimeVars,
                   idx, edits>>

GetResourceNotFound(r) ==
    /\ pc = "getResource"
    /\ Current(r)
    /\ phase[r] = "absent"
    /\ pc' = "createResource"
    /\ UNCHANGED <<world, view, runtimeVars, idx, rstate, result>>

\* IsResourceReady, on the object just observed.
IsResourceReady(r) == ReadyWhen[r] = {} \/ ready[r]

\* Mutant: the next resource is treated without waiting.
ResourceNotAwaited(r) ==
    /\ pc = "getResource"
    /\ Current(r)
    /\ phase[r] # "absent"
    /\ ~IsResourceReady(r)
    /\ seen' = [seen EXCEPT ![r] = Observation(r)]
    /\ rstate' = [rstate EXCEPT ![r] = "WAITING_FOR_READINESS"]
    /\ idx' = idx + 1
    /\ SynchronizeThen(seen', "reconcileResource")
    /\ UNCHANGED <<world, view, rank, ignored>>

ResourceNotReady(r) ==
    /\ pc = "getResource"
    /\ Current(r)
    /\ phase[r] # "absent"
    /\ ~IsResourceReady(r)
    /\ seen' = [seen EXCEPT ![r] = Observation(r)]
    /\ rstate' = [rstate EXCEPT ![r] = "WAITING_FOR_READINESS"]
    /\ Finish("requeueAfter")
    /\ UNCHANGED <<world, view, rank, resolved, ignored, idx>>

\* updateResource changes nothing in the cluster.
ResourceSynced(r) ==
    /\ pc = "getResource"
    /\ Current(r)
    /\ phase[r] # "absent"
    /\ IsResourceReady(r)
    /\ seen' = [seen EXCEPT ![r] = Observation(r)]
    /\ rstate' = [rstate EXCEPT ![r] = "SYNCED"]
    /\ idx' = idx + 1
    /\ SynchronizeThen(seen', "reconcileResource")
    /\ UNCHANGED <<world, view, rank, ignored>>

\* The API server stores the object; some fields that others read are there
\* from the start, others its controller fills in later.
StoreObject(r) ==
    /\ phase' = [phase EXCEPT ![r] = "live"]
    /\ \E b \in BOOLEAN : populated' = [populated EXCEPT ![r] = b]
    /\ UNCHANGED ready

CreateResource(r) ==
    /\ pc = "createResource"
    /\ Current(r)
    /\ phase[r] = "absent"
    /\ StoreObject(r)
    /\ rstate' = [rstate EXCEPT ![r] = "CREATED"]
    /\ Finish("requeueAfter")
    /\ UNCHANGED <<instanceVars, queueVars, view, runtimeVars, idx, boundVars>>

\* The Create returns an error, applied or not; "notFound" is the error for
\* a namespace or a kind that does not exist.
CreateResourceFails(r) ==
    /\ pc = "createResource"
    /\ Current(r)
    /\ phase[r] = "absent"
    /\ \/ /\ CanFail("createResource")
          /\ \/ StoreObject(r)
             \/ UNCHANGED objectVars
          /\ Finish("err")
       \/ /\ CanFail("createNotFound")
          /\ UNCHANGED objectVars
          /\ Finish("notFound")
    /\ rstate' = [rstate EXCEPT ![r] = "ERROR"]
    /\ UNCHANGED <<instanceVars, queueVars, view, runtimeVars, idx, edits>>

-----------------------------------------------------------------------------
(***************************************************************************)
(* handleInstanceDeletion.                                                 *)
(***************************************************************************)

\* initializeDeletionState, up to its Get.
InitializeDeletion(r) ==
    /\ pc = "initializeDeletion"
    /\ Current(r)
    /\ SynchronizeThen(seen,
          IF IsResolved(rank, SynchronizedExprs(rank, resolved, seen), seen, r)
            THEN "getForDeletion" ELSE "initializeDeletion")
    /\ IF pc' = "initializeDeletion"
         THEN /\ rstate' = [rstate EXCEPT ![r] = "SKIPPED"]
              /\ idx' = idx + 1
         ELSE UNCHANGED <<idx, rstate>>
    /\ UNCHANGED <<world, view, rank, seen, ignored>>

GetForDeletionFails(r) ==
    /\ pc = "getForDeletion"
    /\ Current(r)
    /\ CanFail("getResource")
    /\ FinishUnchanged("err")
    /\ UNCHANGED <<instanceVars, objectVars, queueVars, edits>>

GetForDeletionNotFound(r) ==
    /\ pc = "getForDeletion"
    /\ Current(r)
    /\ phase[r] = "absent"
    /\ rstate' = [rstate EXCEPT ![r] = "DELETED"]
    /\ idx' = idx + 1
    /\ pc' = "initializeDeletion"
    /\ UNCHANGED <<world, view, runtimeVars, result>>

\* Mutant: an object that is being deleted counts as deleted.
GetForDeletionTerminating(r) ==
    /\ pc = "getForDeletion"
    /\ Current(r)
    /\ phase[r] # "absent"
    /\ seen' = [seen EXCEPT ![r] = Observation(r)]
    /\ rstate' = [rstate EXCEPT ![r] = IF phase[r] = "terminating"
                                         THEN "DELETED" ELSE "PENDING_DELETION"]
    /\ idx' = idx + 1
    /\ pc' = "initializeDeletion"
    /\ UNCHANGED <<world, view, rank, resolved, ignored, result>>

GetForDeletionFound(r) ==
    /\ pc = "getForDeletion"
    /\ Current(r)
    /\ phase[r] # "absent"
    /\ seen' = [seen EXCEPT ![r] = Observation(r)]
    /\ rstate' = [rstate EXCEPT ![r] = "PENDING_DELETION"]
    /\ idx' = idx + 1
    /\ pc' = "initializeDeletion"
    /\ UNCHANGED <<world, view, rank, resolved, ignored, result>>

\* deleteResourcesInOrder starts at the end of the topological order.
StartDeleting ==
    /\ pc = "initializeDeletion"
    /\ idx = N + 1
    /\ idx' = N
    /\ pc' = "deleteResource"
    /\ UNCHANGED <<world, view, runtimeVars, rstate, result>>

NothingToDelete(r) ==
    /\ pc = "deleteResource"
    /\ Current(r)
    /\ rstate[r] # "PENDING_DELETION"
    /\ idx' = idx - 1
    /\ UNCHANGED <<world, pc, view, runtimeVars, rstate, result>>

DeleteResourceNotFound(r) ==
    /\ pc = "deleteResource"
    /\ Current(r)
    /\ rstate[r] = "PENDING_DELETION"
    /\ phase[r] = "absent"
    /\ rstate' = [rstate EXCEPT ![r] = "DELETED"]
    /\ idx' = idx - 1
    /\ UNCHANGED <<world, pc, view, runtimeVars, result>>

\* The API server removes an object without finalizers at once and marks
\* any other one.
RemoveObject(r) ==
    /\ \E p \in {"terminating", "absent"} :
          phase' = [phase EXCEPT ![r] =
                       IF phase[r] = "terminating" THEN "terminating" ELSE p]
    /\ populated' = [populated EXCEPT ![r] =
                        populated[r] /\ phase'[r] # "absent"]
    /\ ready' = [ready EXCEPT ![r] = ready[r] /\ phase'[r] # "absent"]

\* Mutant: the deletion of one object is not awaited.
DeleteResourceAndGoOn(r) ==
    /\ pc = "deleteResource"
    /\ Current(r)
    /\ rstate[r] = "PENDING_DELETION"
    /\ phase[r] # "absent"
    /\ RemoveObject(r)
    /\ rstate' = [rstate EXCEPT ![r] = "DELETING"]
    /\ idx' = idx - 1
    /\ UNCHANGED <<instanceVars, queueVars, pc, view, runtimeVars, result,
                   boundVars>>

DeleteResource(r) ==
    /\ pc = "deleteResource"
    /\ Current(r)
    /\ rstate[r] = "PENDING_DELETION"
    /\ phase[r] # "absent"
    /\ RemoveObject(r)
    /\ rstate' = [rstate EXCEPT ![r] = "DELETING"]
    /\ Finish("requeueAfter")
    /\ UNCHANGED <<instanceVars, queueVars, view, runtimeVars, idx, boundVars>>

DeleteResourceFails(r) ==
    /\ pc = "deleteResource"
    /\ Current(r)
    /\ rstate[r] = "PENDING_DELETION"
    /\ phase[r] # "absent"
    /\ CanFail("deleteResource")
    /\ \/ RemoveObject(r)
       \/ UNCHANGED objectVars
    /\ rstate' = [rstate EXCEPT ![r] = "ERROR"]
    /\ Finish("err")
    /\ UNCHANGED <<instanceVars, queueVars, view, runtimeVars, idx, edits>>

AllDeleted ==
    /\ pc = "deleteResource"
    /\ idx = 0
    /\ pc' = "finalizeDeletion"
    /\ UNCHANGED <<world, view, runtimeVars, idx, rstate, result>>

\* finalizeDeletion goes on to setUnmanaged.
ReadyToFinalize == \A r \in Resource : rstate[r] \in {"DELETED", "SKIPPED"}

\* Resources are still there, or the finalizer is not: no call is made.
NothingToFinalize ==
    /\ pc = "finalizeDeletion"
    /\ ~ReadyToFinalize \/ ~snap.finalizer
    /\ FinishUnchanged(IF ReadyToFinalize THEN "nil" ELSE "requeueAfter")
    /\ UNCHANGED world

\* The API server drops the finalizer, and the instance with its last one.
\* The informer reports the removal.
DropFinalizer ==
    /\ finalizer' = FALSE
    /\ IF otherFinalizer
         THEN UNCHANGED <<instance, status, notify>>
         ELSE /\ instance' = "absent"
              /\ status' = "none"
              /\ notify' = TRUE

SetUnmanaged ==
    /\ pc = "finalizeDeletion"
    /\ ReadyToFinalize
    /\ snap.finalizer
    /\ fresh
    /\ DropFinalizer
    /\ snap' = [snap EXCEPT !.finalizer = FALSE]
    /\ fresh' = otherFinalizer
    /\ Finish("nil")
    /\ UNCHANGED <<otherFinalizer, spec, objectVars, queued, retries, gaveUp,
                   runtimeVars, idx, rstate, boundVars>>

SetUnmanagedRefused ==
    /\ pc = "finalizeDeletion"
    /\ ReadyToFinalize
    /\ snap.finalizer
    /\ ~fresh
    /\ FinishUnchanged(Refusal)
    /\ UNCHANGED world

SetUnmanagedFails ==
    /\ pc = "finalizeDeletion"
    /\ ReadyToFinalize
    /\ snap.finalizer
    /\ CanFail("setUnmanaged")
    /\ \/ fresh /\ DropFinalizer /\ fresh' = FALSE
       \/ UNCHANGED <<instance, finalizer, status, notify, fresh>>
    /\ Finish("err")
    /\ UNCHANGED <<otherFinalizer, spec, objectVars, queued, retries, gaveUp,
                   snap, runtimeVars, idx, rstate, edits>>

-----------------------------------------------------------------------------
(***************************************************************************)
(* The deferred part of handleReconciliation, and the return.              *)
(***************************************************************************)

PatchStatus ==
    /\ pc = "patchStatus"
    /\ fresh
    /\ status' = state
    /\ Return(err)
    /\ UNCHANGED <<instance, finalizer, otherFinalizer, spec, objectVars,
                   boundVars>>

\* A status that cannot be written is logged; the result is not changed.
PatchStatusFails ==
    /\ pc = "patchStatus"
    /\ \/ ~fresh /\ UNCHANGED faults
       \/ CanFail("patchStatus")
    /\ Return(IF err = "nil" THEN "swallowed" ELSE err)
    /\ UNCHANGED <<instanceVars, objectVars, edits>>

-----------------------------------------------------------------------------
(***************************************************************************)
(* The environment: the informer, the user, the controllers of the         *)
(* sub-resources, and the process itself.                                  *)
(***************************************************************************)

DeliverEvent ==
    /\ notify
    /\ notify' = FALSE
    /\ queued' = TRUE
    /\ gaveUp' = FALSE
    /\ UNCHANGED <<cluster, retries, local>>

CreateInstance ==
    /\ instance = "absent"
    /\ instance' = "live"
    /\ spec' \in SpecValue
    /\ notify' = TRUE
    /\ UNCHANGED <<finalizer, otherFinalizer, status, objectVars, queued,
                   retries, gaveUp, local, boundVars>>

\* A change of the spec changes the generation, which updateFunc lets pass.
EditSpec ==
    /\ instance # "absent"
    /\ edits < MaxEdits
    /\ edits' = edits + 1
    /\ spec' \in SpecValue \ {spec}
    /\ notify' = TRUE
    /\ fresh' = FALSE
    /\ UNCHANGED <<instance, finalizer, otherFinalizer, status, objectVars,
                   queued, retries, gaveUp, pc, snap, runtimeVars, idx,
                   rstate, result, faults>>

\* A change of the metadata does not change the generation.
TouchInstance ==
    /\ instance # "absent"
    /\ fresh
    /\ CanFail("touch")
    /\ fresh' = FALSE
    /\ UNCHANGED <<instanceVars, objectVars, queueVars, pc, snap, runtimeVars,
                   idx, rstate, result, edits>>

\* Deletion in the foreground adds a finalizer of the garbage collector.
DeleteInstance ==
    /\ instance = "live"
    /\ otherFinalizer' \in BOOLEAN
    /\ IF finalizer \/ otherFinalizer'
         THEN /\ instance' = "deleting"
              /\ UNCHANGED status
         ELSE /\ instance' = "absent"
              /\ status' = "none"
    /\ notify' = TRUE
    /\ fresh' = FALSE
    /\ UNCHANGED <<finalizer, spec, objectVars, queued, retries, gaveUp, pc,
                   snap, runtimeVars, idx, rstate, result, boundVars>>

RemoveOtherFinalizer ==
    /\ otherFinalizer
    /\ otherFinalizer' = FALSE
    /\ IF finalizer
         THEN UNCHANGED <<instance, status, notify>>
         ELSE /\ instance' = "absent"
              /\ status' = "none"
              /\ notify' = TRUE
    /\ fresh' = FALSE
    /\ UNCHANGED <<finalizer, spec, objectVars, queued, retries, gaveUp, pc,
                   snap, runtimeVars, idx, rstate, result, boundVars>>

Populate(r) ==
    /\ phase[r] = "live"
    /\ ~populated[r]
    /\ populated' = [populated EXCEPT ![r] = TRUE]
    /\ UNCHANGED <<instanceVars, phase, ready, queueVars, local, boundVars>>

BecomeReady(r) ==
    /\ phase[r] = "live"
    /\ ~ready[r]
    /\ ready' = [ready EXCEPT ![r] = TRUE]
    /\ UNCHANGED <<instanceVars, phase, populated, queueVars, local, boundVars>>

BecomeUnready(r) ==
    /\ Flapping
    /\ ready[r]
    /\ ready' = [ready EXCEPT ![r] = FALSE]
    /\ UNCHANGED <<instanceVars, phase, populated, queueVars, local, boundVars>>

Vanish(r) ==
    /\ phase[r] = "terminating"
    /\ phase' = [phase EXCEPT ![r] = "absent"]
    /\ populated' = [populated EXCEPT ![r] = FALSE]
    /\ ready' = [ready EXCEPT ![r] = FALSE]
    /\ UNCHANGED <<instanceVars, queueVars, local, boundVars>>

DeleteExternally(r) ==
    /\ ExternalDeletion
    /\ phase[r] = "live"
    /\ RemoveObject(r)
    /\ UNCHANGED <<instanceVars, queueVars, local, boundVars>>

\* The process dies and starts again: the queue is empty, and the informer
\* lists the instances that exist.
Restart ==
    /\ CanFail("crash")
    /\ NoReconciliation
    /\ queued' = FALSE
    /\ retries' = 0
    /\ gaveUp' = FALSE
    /\ notify' = (instance # "absent")
    /\ UNCHANGED <<instanceVars, objectVars, edits>>

-----------------------------------------------------------------------------
Init ==
    /\ instance = "absent"
    /\ finalizer = FALSE
    /\ otherFinalizer = FALSE
    /\ spec \in SpecValue
    /\ status = "none"
    /\ phase = [r \in Resource |-> "absent"]
    /\ populated = [r \in Resource |-> FALSE]
    /\ ready = [r \in Resource |-> FALSE]
    /\ notify = FALSE
    /\ queued = FALSE
    /\ retries = 0
    /\ gaveUp = FALSE
    /\ pc = "idle"
    /\ snap = NoSnapshot
    /\ fresh = FALSE
    /\ rank = AnyRanking
    /\ resolved = {}
    /\ seen = [r \in Resource |-> "none"]
    /\ ignored = {}
    /\ idx = 0
    /\ rstate = [r \in Resource |-> "none"]
    /\ state = "none"
    /\ err = "nil"
    /\ faults = 0
    /\ edits = 0

\* The steps of a reconciliation that treat one resource.
ReconcileStep(r) ==
    \/ SkipResource(r) \/ ResourceNotResolved(r) \/ ReconcileResource(r)
    \/ GetResourceFails(r) \/ GetResourceNotFound(r) \/ ResourceNotReady(r)
    \/ ResourceSynced(r) \/ CreateResource(r) \/ CreateResourceFails(r)

DeletionStep(r) ==
    \/ InitializeDeletion(r) \/ GetForDeletionFails(r)
    \/ GetForDeletionNotFound(r) \/ GetForDeletionFound(r)
    \/ NothingToDelete(r) \/ DeleteResourceNotFound(r) \/ DeleteResource(r)
    \/ DeleteResourceFails(r)

\* The steps that treat the instance.
InstanceStep ==
    \/ ProcessNextWorkItem \/ GetInstanceNotFound \/ GetInstanceFails
    \/ CreateRuntimeFails \/ GetInstanceFound \/ AlreadyManaged \/ SetManaged
    \/ SetManagedRefused \/ SetManagedFails \/ AllReconciled \/ StartDeleting
    \/ AllDeleted \/ NothingToFinalize \/ SetUnmanaged \/ SetUnmanagedRefused
    \/ SetUnmanagedFails \/ PatchStatus \/ PatchStatusFails

Reconcile ==
    \/ InstanceStep
    \/ \E r \in Resource : ReconcileStep(r) \/ DeletionStep(r)

ObjectStep(r) ==
    \/ Populate(r) \/ BecomeReady(r) \/ BecomeUnready(r) \/ Vanish(r)
    \/ DeleteExternally(r)

Environment ==
    \/ DeliverEvent \/ CreateInstance \/ EditSpec \/ TouchInstance
    \/ DeleteInstance \/ RemoveOtherFinalizer \/ Restart
    \/ \E r \in Resource : ObjectStep(r)

Next == Reconcile \/ Environment

SafetySpec == Init /\ [][Next]_vars

-----------------------------------------------------------------------------
(***************************************************************************)
(* Safety.                                                                 *)
(***************************************************************************)

\* As long as an object exists, so do all the objects it depends on, and none
\* of them is being deleted: creation in topological order, deletion in the
\* reverse order, one object at a time (reconcileInstance and
\* deleteResourcesInOrder, across passes, faults and restarts).
DependenciesOutlive ==
    \A r \in Resource : phase[r] # "absent" =>
        \A d \in GetDependencies[r] : phase[d] = "live"

\* While any sub-resource exists the instance exists and carries the
\* finalizer: setManaged comes before the first Create, setUnmanaged after the
\* last object is gone, whatever the user and other writers do in between.
NoOrphans ==
    \A r \in Resource : phase[r] # "absent" => instance # "absent" /\ finalizer

\* The resources that a step creates.
Created(r) == phase[r] = "absent" /\ phase'[r] # "absent"

\* A resource is created only for an instance that carries the finalizer,
\* and only once each resource it depends on is live, has the fields that are
\* read from it and, unless readiness can be lost, is ready
\* (reconcileResource, canProcessResource).
CreationInOrder ==
    \A r \in Resource : Created(r) =>
        /\ finalizer
        /\ \A d \in GetDependencies[r] :
              /\ phase[d] = "live"
              /\ populated[d]
              /\ Flapping \/ IsResourceReady(d)

\* CreationInOrder, in every step (reconcileResource, canProcessResource).
CreatedInOrder == [][CreationInOrder]_vars

\* Whatever happens to the cluster in between, a resource is created only by a
\* pass that set or saw the finalizer, and that itself found each resource it
\* depends on ready and with the fields that are read from it: nothing is
\* rendered from values of an earlier pass or from a missing field (GetResource,
\* propagateResourceVariables, evaluateDynamicVariables).
CreationObserved ==
    \A r \in Resource : Created(r) =>
        /\ snap.finalizer
        /\ ~snap.deleting
        /\ \A d \in GetDependencies[r] : rstate[d] = "SYNCED" /\ seen[d] = "full"

\* CreationObserved, in every step (GetResource, propagateResourceVariables,
\* evaluateDynamicVariables).
CreatesFromObservation == [][CreationObserved]_vars

\* The cluster has what the current spec asks for: each resource exists and is
\* ready, or is left out by its own conditions or because a dependency is left
\* out.
Complete ==
    /\ instance = "live"
    /\ \A r \in Resource :
          IF rstate[r] = "SKIPPED"
            THEN \/ r \notin IncludeWhen[spec]
                 \/ \E d \in GetDependencies[r] : rstate[d] = "SKIPPED"
            ELSE /\ phase[r] = "live"
                 /\ Flapping \/ IsResourceReady(r)

\* The status turns ACTIVE only when the cluster is Complete
\* (updateInstanceState and the optimistic concurrency of
\* patchInstanceStatus).
ActiveMeansComplete ==
    [][status # "ACTIVE" /\ status' = "ACTIVE" => Complete]_vars

-----------------------------------------------------------------------------
(***************************************************************************)
(* Liveness.  Fairness: the worker goes on with its reconciliation, the    *)
(* informer delivers its events, the controllers of the sub-resources fill *)
(* in their fields, make them ready and finish their deletion, and foreign *)
(* finalizers are removed in the end.                                      *)
(***************************************************************************)
Fairness ==
    /\ WF_vars(Reconcile)
    /\ WF_vars(DeliverEvent)
    /\ WF_vars(RemoveOtherFinalizer)
    /\ \A r \in Resource : WF_vars(Populate(r)) /\ WF_vars(BecomeReady(r))
                           /\ WF_vars(Vanish(r))

FairSpec == SafetySpec /\ Fairness

\* An instance that is being deleted goes away, unless the controller gave it
\* up: the retries are used up, or the failure of a call did not reach the
\* queue, as that of the Get of the instance (handleInstanceDeletion;
\* controller.go:127; processNextWorkItem).
DeletionTerminates == instance = "deleting" ~> (instance # "deleting" \/ gaveUp)

\* An instance becomes ACTIVE, unless it is deleted or the controller gave it
\* up: the retries are used up, or the Get of the instance or the patch of its
\* status failed and was only logged, or a Create said NotFound
\* (reconcileInstance; controller.go:127; controller_reconcile.go:87;
\* processNextWorkItem).  Any other failing call is made up for.
BecomesActive ==
    instance = "live" ~> (status = "ACTIVE" \/ instance # "live" \/ gaveUp)
=============================================================================
