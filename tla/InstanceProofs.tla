----------------------------- MODULE InstanceProofs --------------------------
(***************************************************************************)
(* Proof that the objects of an instance are removed in order and before   *)
(* its finalizer, for every ResourceGroup whose expressions are Unaliased  *)
(* and every pattern of faults, restarts, edits and deletions, if nobody   *)
(* but kro deletes the objects.  The argument is the inductive invariant   *)
(* of InstanceInvariant; the lemmas say how the steps that need more than  *)
(* an expansion of definitions keep it.  The first section is about the    *)
(* operators of the runtime, the second about types.                       *)
(***************************************************************************)
EXTENDS InstanceInvariant, WellFoundedInduction, FiniteSetTheorems, TLAPS

-----------------------------------------------------------------------------
(***************************************************************************)
(* What the runtime guarantees to the reconciler that uses it, for every   *)
(* ResourceGroup and every order in which its maps can be iterated.        *)
(***************************************************************************)

\* A nonempty set of naturals has a least element.
LEMMA NatMin ==
    ASSUME NEW T, T \subseteq Nat, T # {}
    PROVE  \E x \in T : \A y \in T : x <= y
<1> DEFINE R == OpToRel(<, Nat)
<1>1. IsWellFoundedOn(R, Nat)
  BY NatLessThanWellFounded
<1>2. \A x, y \in Nat : <<y, x>> \in R <=> y < x
  BY DEF OpToRel
<1> HIDE DEF R
<1>3. PICK x \in T : \A y \in T : <<y, x>> \notin R
  BY <1>1, WFMin
<1>4. \A y \in T : ~(y < x)
  BY <1>2, <1>3
<1>5. \A y \in T : y \in Int /\ x \in Int
  OBVIOUS
<1> QED
  BY <1>4, <1>5

\* A map of finitely many resources can be iterated in some order.
LEMMA RankingExists == \E f : f \in Rankings
<1>1. PICK b : b \in Bijection(1..Cardinality(Resource), Resource)
  BY FS_CardinalityType, RuntimeAssumption DEF ExistsBijection
<1>2. /\ b \in [1..Cardinality(Resource) -> Resource]
      /\ \A r \in Resource : \E i \in 1..Cardinality(Resource) : b[i] = r
  BY <1>1 DEF Bijection, Injection, Surjection
<1> DEFINE f == [r \in Resource |-> CHOOSE i \in 1..Cardinality(Resource) : b[i] = r]
<1>3. \A r \in Resource : f[r] \in 1..Cardinality(Resource) /\ b[f[r]] = r
  BY <1>2
<1>4. f \in [Resource -> 1..Cardinality(Resource)]
  BY <1>3
<1>5. \A q, r \in Resource : f[q] = f[r] => q = r
  BY <1>3
<1> HIDE DEF f
<1> QED
  BY <1>4, <1>5 DEF Rankings

\* The shapes of the constants derived from the expressions.
LEMMA DerivedTypes ==
    /\ Mentions \in [Resource -> SUBSET Expr]
    /\ GetDependencies \in [Resource -> SUBSET Resource]
    /\ \A r \in Resource : \A e \in Mentions[r] : Refs[e] \subseteq GetDependencies[r]
    /\ Cached \subseteq Expr
    /\ \A r \in Resource : Mentions[r] \subseteq Cached
<1>1. Mentions \in [Resource -> SUBSET Expr]
  BY DEF Mentions
<1>2. GetDependencies \in [Resource -> SUBSET Resource]
  BY <1>1, RuntimeAssumption DEF GetDependencies
<1>3. \A r \in Resource : \A e \in Mentions[r] : Refs[e] \subseteq GetDependencies[r]
  BY <1>1 DEF GetDependencies
<1>4. Cached \subseteq Expr
  BY <1>1, RuntimeAssumption DEF Cached
<1>5. \A r \in Resource : Mentions[r] \subseteq Cached
  BY <1>1 DEF Cached
<1> QED
  BY <1>1, <1>2, <1>3, <1>4, <1>5

\* The field that gives an expression of r its kind contains the expression.
LEMMA FirstFieldContains ==
    ASSUME NEW r \in Resource, NEW e \in Mentions[r]
    PROVE  e \in FirstField(r, e) /\ FirstField(r, e) \subseteq Expr
<1> DEFINE I == FieldsWith(r, e)
<1>1. Fields[r] \in Seq(SUBSET Expr)
  BY RuntimeAssumption
<1>2. I \subseteq Nat /\ I # {}
  BY <1>1 DEF FieldsWith, Mentions
<1>3. \E k \in I : \A j \in I : k <= j
  BY <1>2, NatMin
<1> DEFINE m == CHOOSE i \in I : \A j \in I : i <= j
<1>4. m \in I
  BY <1>3
<1>5. m \in 1..Len(Fields[r]) /\ e \in Fields[r][m]
  BY <1>4 DEF FieldsWith
<1>6. FirstField(r, e) = Fields[r][m]
  BY DEF FirstField
<1> HIDE DEF m, I
<1>7. Fields[r][m] \in SUBSET Expr
  BY <1>1, <1>5
<1> QED
  BY <1>5, <1>6, <1>7

\* Some resource is the first to mention an expression that is mentioned.
LEMMA FirstUserMentions ==
    ASSUME NEW rk \in Rankings, NEW p \in Resource, NEW e \in Mentions[p]
    PROVE  FirstUser(rk, e) \in Resource /\ e \in Mentions[FirstUser(rk, e)]
<1> DEFINE U == {q \in Resource : e \in Mentions[q]}
<1> DEFINE T == {rk[q] : q \in U}
<1>0. Cardinality(Resource) \in Nat
  BY FS_CardinalityType, RuntimeAssumption
<1>1. \A q \in Resource : rk[q] \in Nat
  BY <1>0 DEF Rankings
<1>2. T \subseteq Nat
  BY <1>1
<1>3. T # {}
  OBVIOUS
<1>4. \E x \in T : \A y \in T : x <= y
  BY <1>2, <1>3, NatMin
<1>5. \E q \in Resource : /\ e \in Mentions[q]
                          /\ \A s \in Resource : e \in Mentions[s] => rk[q] <= rk[s]
  BY <1>4
<1> QED
  BY <1>5 DEF FirstUser

\* Statically resolved expressions read no resource, so that they can be
\* evaluated before any resource exists (evaluateStaticVariables).
LEMMA StaticReadsNothing ==
    ASSUME NEW rk \in Rankings, NEW e \in StaticExprs(rk)
    PROVE  Refs[e] = {}
<1>1. e \in Cached /\ CacheCell[rk][e].kind = "static"
  BY DEF StaticExprs
<1>2. PICK p \in Resource : e \in Mentions[p]
  BY <1>1 DEF CacheCell, ReadyWhenCell
<1> DEFINE q == FirstUser(rk, e)
<1> DEFINE f == FirstField(q, e)
<1>3. q \in Resource /\ e \in Mentions[q]
  BY <1>2, FirstUserMentions
<1>4. e \in f
  BY <1>3, FirstFieldContains
<1>5. CacheCell[rk][e] = FieldCell(f)
  BY <1>1, <1>2 DEF CacheCell, ReadyWhenCell
<1>6. FieldDeps(f) = {}
  BY <1>1, <1>5 DEF FieldCell
<1> HIDE DEF f
<1> QED
  BY <1>4, <1>6 DEF FieldDeps

\* The runtime starts with values that need no observation, and Synchronize
\* gives no other values than ones computed from observed resources.
LEMMA NewRuntimeReadsObserved ==
    ASSUME NEW rk \in Rankings, NEW obs
    PROVE  ReadsObserved(StaticExprs(rk), obs)
<1>1. StaticExprs(rk) \subseteq Cached
  BY DEF StaticExprs
<1> QED
  BY <1>1, StaticReadsNothing DEF ReadsObserved

\* Synchronize (runtime.go:211-256) keeps that: it resolves an expression only
\* when every resource the expression reads was observed.
LEMMA SynchronizeReadsObserved ==
    ASSUME NEW rk, NEW values, NEW obs,
           ReadsObserved(values, obs), SynchronizeSucceeds(rk, values, obs)
    PROVE  ReadsObserved(SynchronizedExprs(rk, values, obs), obs)
<1>1. Evaluable(rk, values, obs) \subseteq Cached
  BY DEF Evaluable
<1>2. \A e \in Evaluable(rk, values, obs) : \A d \in Refs[e] : obs[d] = "full"
  BY DEF SynchronizeSucceeds, EvaluationFails
<1> QED
  BY <1>1, <1>2 DEF ReadsObserved, SynchronizedExprs

\* A resource is reported as resolved only after each of its dependencies was
\* observed, however expressions are shared (GetResource, canProcessResource).
THEOREM ResolvedNeedsDependencies ==
    ASSUME NEW rk, NEW values, NEW obs, NEW r \in Resource,
           ReadsObserved(values, obs),
           PropagateResourceVariables(rk, values),
           IsResolved(rk, values, obs, r), obs[r] = "none"
    PROVE  \A d \in GetDependencies[r] : obs[d] # "none"
<1>1. Mentions[r] \subseteq values
  BY DEF IsResolved, PropagateResourceVariables
<1>2. \A d \in GetDependencies[r] : \E e \in Mentions[r] : d \in Refs[e]
  BY DEF GetDependencies
<1> QED
  BY <1>1, <1>2 DEF ReadsObserved

\* Unless expressions are shared across dependencies, synchronizing resolves
\* the variables of a resource whose dependencies have been observed.
LEMMA ObservedResolvesVariables ==
    ASSUME Unaliased, NEW rk \in Rankings, NEW values, NEW obs,
           NEW r \in Resource, \A d \in GetDependencies[r] : obs[d] # "none"
    PROVE  ResourceVariablesResolved(rk, SynchronizedExprs(rk, values, obs), r)
<1> SUFFICES ASSUME NEW e \in Mentions[r], VariableCell[rk][r][e].kind = "dynamic"
             PROVE  /\ e \in SynchronizedExprs(rk, values, obs)
                    /\ VariableCell[rk][r][e] = CacheCell[rk][e]
  BY DEF ResourceVariablesResolved
<1> DEFINE q == FirstUser(rk, e)
<1> DEFINE f == FirstField(q, e)
<1>1. e \in Cached
  BY DerivedTypes
<1>2. \A p \in Resource : e \notin ReadyWhen[p]
  BY DEF Unaliased
<1>3. q \in Resource /\ e \in Mentions[q]
  BY FirstUserMentions
<1>4. FieldDeps(f) \subseteq GetDependencies[r]
  BY <1>3 DEF Unaliased
<1>5. CacheCell[rk][e] = FieldCell(f)
  BY <1>1, <1>2 DEF CacheCell
<1>6. VariableCell[rk][r][e] = FieldCell(f)
  BY <1>2 DEF VariableCell
<1>7. CacheCell[rk][e].kind = "dynamic" /\ CacheCell[rk][e].deps = FieldDeps(f)
  BY <1>5, <1>6 DEF FieldCell
<1>8. e \in values \/ e \in Evaluable(rk, values, obs)
  BY <1>1, <1>4, <1>7 DEF Evaluable
<1> QED
  BY <1>5, <1>6, <1>8 DEF SynchronizedExprs

\* Without shared expressions a resource is resolved as soon as the resources
\* it depends on, directly or through one of them, have been observed.
THEOREM ObservedIsResolved ==
    ASSUME Unaliased, NEW rk \in Rankings, NEW values, NEW obs,
           NEW r \in Resource,
           \A d \in GetDependencies[r] :
               obs[d] # "none" /\ \A c \in GetDependencies[d] : obs[c] # "none"
    PROVE  IsResolved(rk, SynchronizedExprs(rk, values, obs), obs, r)
<1>1. \A d \in GetDependencies[r] : d \in Resource
  BY DerivedTypes
<1>2. \A d \in GetDependencies[r] \cup {r} :
         ResourceVariablesResolved(rk, SynchronizedExprs(rk, values, obs), d)
  BY <1>1, ObservedResolvesVariables
<1> QED
  BY <1>2 DEF IsResolved, CanProcessResource

-----------------------------------------------------------------------------
(***************************************************************************)
(* Type correctness of InstanceReconciler.  The flags and the other        *)
(* variables are treated apart: Zenon proves that steps keep the former    *)
(* Boolean, and the SMT solver that they keep the latter in their types.   *)
(***************************************************************************)

\* The values a pass takes from the runtime and from its reset are typed.
LEMMA LocalTypes ==
    /\ AnyRanking \in Rankings
    /\ NoSnapshot \in Snapshots
    /\ \A f : StaticExprs(f) \subseteq Expr
    /\ \A f, objects : \A S \in SUBSET Expr :
          SynchronizedExprs(f, S, objects) \subseteq Expr
<1>1. AnyRanking \in Rankings
  BY RankingExists DEF AnyRanking
<1>2. NoSnapshot \in Snapshots
  BY EnvironmentAssumption DEF NoSnapshot, Snapshots
<1>3. \A f : StaticExprs(f) \subseteq Expr
  BY DerivedTypes DEF StaticExprs
<1>4. \A f, objects : \A S \in SUBSET Expr :
         SynchronizedExprs(f, S, objects) \subseteq Expr
  BY DerivedTypes DEF SynchronizedExprs, Evaluable
<1> QED
  BY <1>1, <1>2, <1>3, <1>4

\* Synchronize, failing or not, keeps the types of what it assigns.
LEMMA SynchronizeTypes ==
    ASSUME DataOK, NEW objects, NEW next \in Steps,
           SynchronizeThen(objects, next)
    PROVE  /\ pc' \in Steps
           /\ resolved' \in SUBSET Expr
           /\ state' \in InstanceStates
           /\ err' \in Outcomes
  BY LocalTypes DEF SynchronizeThen, Finish, Steps, InstanceStates, Outcomes,
     result, DataOK

\* Storing or removing an object keeps the types of the objects.
LEMMA ObjectTypes ==
    ASSUME DataOK, NEW r \in Resource,
           RemoveObject(r) \/ StoreObject(r) \/ UNCHANGED objectVars
    PROVE  /\ phase' \in [Resource -> {"absent", "live", "terminating"}]
           /\ populated' \in [Resource -> BOOLEAN]
           /\ ready' \in [Resource -> BOOLEAN]
<1>1. CASE RemoveObject(r)
  BY <1>1 DEF RemoveObject, DataOK
<1>2. CASE StoreObject(r)
  BY <1>2 DEF StoreObject, DataOK
<1>3. CASE UNCHANGED objectVars
  BY <1>3 DEF objectVars, DataOK
<1> QED
  BY <1>1, <1>2, <1>3

\* The snapshot of the instance is typed (Controller.Reconcile).
LEMMA GetInstanceFoundTypes ==
    ASSUME TypeOK, GetInstanceFound
    PROVE  DataOK'
<1>1. finalizer \in BOOLEAN
  BY DEF TypeOK, FlagsOK
<1>2. snap' \in Snapshots
  BY <1>1 DEF GetInstanceFound, TypeOK, DataOK, Snapshots
<1> QED
  BY <1>2, OrderAssumption, LocalTypes DEF GetInstanceFound, world, cluster,
     instanceVars, objectVars, queueVars, boundVars, TypeOK, DataOK, Steps, InstanceStates, ResourceStates, Outcomes

\* So it is after the finalizer was added to it (setManaged).
LEMMA SetManagedTypes ==
    ASSUME TypeOK, SetManaged
    PROVE  DataOK'
<1>1. snap' \in Snapshots
  BY Zenon DEF SetManaged, TypeOK, DataOK, Snapshots
<1> QED
  BY <1>1, OrderAssumption DEF SetManaged, StartResources, runtimeVars, result,
     objectVars, queueVars, boundVars, TypeOK, DataOK, Steps, InstanceStates, ResourceStates, Outcomes

\* And after it was removed again (setUnmanaged).
LEMMA SetUnmanagedTypes ==
    ASSUME TypeOK, SetUnmanaged
    PROVE  DataOK'
<1>1. snap' \in Snapshots
  BY Zenon DEF SetUnmanaged, TypeOK, DataOK, Snapshots
<1> QED
  BY <1>1 DEF SetUnmanaged, DropFinalizer, Finish, runtimeVars, objectVars,
     boundVars, TypeOK, DataOK, Steps, InstanceStates, ResourceStates, Outcomes

\* A resource that is skipped (reconcileResource).
LEMMA SkipResourceTypes ==
    ASSUME TypeOK, NEW r \in Resource, SkipResource(r)
    PROVE  DataOK'
<1>1. DataOK /\ SynchronizeThen(seen, "reconcileResource")
  BY DEF SkipResource, TypeOK
<1>2. /\ pc' \in Steps
      /\ resolved' \in SUBSET Expr
      /\ state' \in InstanceStates
      /\ err' \in Outcomes
  BY <1>1, SynchronizeTypes DEF Steps
<1> QED
  BY <1>2, OrderAssumption DEF SkipResource, world, cluster, instanceVars,
     objectVars, view, Current, queueVars, boundVars, TypeOK, DataOK,
     ResourceStates

\* A resource that is observed and ready (handleResourceReconciliation).
LEMMA ResourceSyncedTypes ==
    ASSUME TypeOK, NEW r \in Resource, ResourceSynced(r)
    PROVE  DataOK'
<1>1. DataOK /\ SynchronizeThen(seen', "reconcileResource")
  BY DEF ResourceSynced, TypeOK
<1>2. /\ pc' \in Steps
      /\ resolved' \in SUBSET Expr
      /\ state' \in InstanceStates
      /\ err' \in Outcomes
  BY <1>1, SynchronizeTypes DEF Steps
<1> QED
  BY <1>2, OrderAssumption DEF ResourceSynced, Observation, world, cluster,
     instanceVars, objectVars, view, Current, queueVars, boundVars, TypeOK,
     DataOK, ResourceStates

\* A resource of an instance being deleted (initializeDeletionState).
LEMMA InitializeDeletionTypes ==
    ASSUME TypeOK, NEW r \in Resource, InitializeDeletion(r)
    PROVE  DataOK'
<1> DEFINE next ==
      IF IsResolved(rank, SynchronizedExprs(rank, resolved, seen), seen, r)
        THEN "getForDeletion" ELSE "initializeDeletion"
<1>1. DataOK /\ SynchronizeThen(seen, next)
  BY DEF InitializeDeletion, TypeOK
<1>2. next \in Steps
  BY DEF Steps
<1> HIDE DEF next
<1>3. /\ pc' \in Steps
      /\ resolved' \in SUBSET Expr
      /\ state' \in InstanceStates
      /\ err' \in Outcomes
  BY <1>1, <1>2, SynchronizeTypes
<1> QED
  BY <1>3, OrderAssumption DEF InitializeDeletion, world, cluster,
     instanceVars, objectVars, view, Current, queueVars, boundVars, TypeOK,
     DataOK, ResourceStates

\* A Create that returns an error (handleResourceCreation).
LEMMA CreateResourceFailsTypes ==
    ASSUME TypeOK, NEW r \in Resource, CreateResourceFails(r)
    PROVE  DataOK'
<1>1. /\ DataOK
      /\ RemoveObject(r) \/ StoreObject(r) \/ UNCHANGED objectVars
  BY DEF CreateResourceFails, TypeOK
<1>2. /\ UNCHANGED <<instanceVars, queueVars, view, runtimeVars, idx, edits>>
      /\ rstate' = [rstate EXCEPT ![r] = "ERROR"]
      /\ Finish("err") \/ Finish("notFound")
      /\ CanFail("createResource") \/ CanFail("createNotFound")
  BY DEF CreateResourceFails
<1> QED
  BY <1>1, <1>2, ObjectTypes, EnvironmentAssumption DEF CanFail, Finish,
     instanceVars, queueVars, view, runtimeVars, DataOK, Steps, InstanceStates, ResourceStates, Outcomes

\* A Delete that returns an error (deleteResource).
LEMMA DeleteResourceFailsTypes ==
    ASSUME TypeOK, NEW r \in Resource, DeleteResourceFails(r)
    PROVE  DataOK'
<1>1. /\ DataOK
      /\ RemoveObject(r) \/ StoreObject(r) \/ UNCHANGED objectVars
  BY DEF DeleteResourceFails, TypeOK
<1>2. /\ UNCHANGED <<instanceVars, queueVars, view, runtimeVars, idx, edits>>
      /\ rstate' = [rstate EXCEPT ![r] = "ERROR"]
      /\ Finish("err")
      /\ CanFail("deleteResource")
  BY DEF DeleteResourceFails
<1> QED
  BY <1>1, <1>2, ObjectTypes, EnvironmentAssumption DEF CanFail, Finish,
     instanceVars, queueVars, view, runtimeVars, DataOK, Steps, InstanceStates, ResourceStates, Outcomes

-----------------------------------------------------------------------------
\* Every step keeps the flags Boolean.
LEMMA FlagsStep == TypeOK /\ [Next]_vars => FlagsOK'
<1> SUFFICES ASSUME TypeOK, [Next]_vars PROVE FlagsOK'
  OBVIOUS
<1> USE DEF TypeOK, FlagsOK, instanceVars, objectVars, queueVars, boundVars, view, runtimeVars,
     result, cluster, world, local
<1>1. CASE ProcessNextWorkItem
  BY <1>1, Zenon DEF ProcessNextWorkItem
<1>2. CASE GetInstanceNotFound
  BY <1>2, Zenon DEF GetInstanceNotFound, Return, NoReconciliation,
     HandleResult
<1>3. CASE GetInstanceFails
  BY <1>3, Zenon DEF GetInstanceFails, CanFail, Return, NoReconciliation,
     HandleResult
<1>4. CASE CreateRuntimeFails
  BY <1>4, Zenon DEF CreateRuntimeFails, CanFail, Return, NoReconciliation,
     HandleResult
<1>5. CASE GetInstanceFound
  BY <1>5, Zenon DEF GetInstanceFound
<1>6. CASE AlreadyManaged
  BY <1>6, Zenon DEF AlreadyManaged, StartResources
<1>7. CASE SetManaged
  BY <1>7, Zenon DEF SetManaged, StartResources
<1>8. CASE SetManagedRefused
  BY <1>8, Zenon DEF SetManagedRefused, FinishUnchanged, Finish
<1>9. CASE SetManagedFails
  BY <1>9, Zenon DEF SetManagedFails, CanFail, Finish
<1>10. CASE AllReconciled
  BY <1>10, Zenon DEF AllReconciled, FinishUnchanged, Finish
<1>11. CASE StartDeleting
  BY <1>11, Zenon DEF StartDeleting
<1>12. CASE AllDeleted
  BY <1>12, Zenon DEF AllDeleted
<1>13. CASE NothingToFinalize
  BY <1>13, Zenon DEF NothingToFinalize, FinishUnchanged, Finish
<1>14. CASE SetUnmanaged
  BY <1>14, Zenon DEF SetUnmanaged, Finish, DropFinalizer
<1>15. CASE SetUnmanagedRefused
  BY <1>15, Zenon DEF SetUnmanagedRefused, FinishUnchanged, Finish
<1>16. CASE SetUnmanagedFails
  BY <1>16, Zenon DEF SetUnmanagedFails, CanFail, Finish, DropFinalizer
<1>17. CASE PatchStatus
  BY <1>17, Zenon DEF PatchStatus, Return, NoReconciliation, HandleResult
<1>18. CASE PatchStatusFails
  BY <1>18, Zenon DEF PatchStatusFails, CanFail, Return, NoReconciliation,
     HandleResult
<1>19. ASSUME NEW r \in Resource, SkipResource(r) PROVE FlagsOK'
  BY <1>19, Zenon DEF SkipResource, SynchronizeThen, Finish
<1>20. ASSUME NEW r \in Resource, ResourceNotResolved(r) PROVE FlagsOK'
  BY <1>20, Zenon DEF ResourceNotResolved, Finish
<1>21. ASSUME NEW r \in Resource, ReconcileResource(r) PROVE FlagsOK'
  BY <1>21, Zenon DEF ReconcileResource
<1>22. ASSUME NEW r \in Resource, GetResourceFails(r) PROVE FlagsOK'
  BY <1>22, Zenon DEF GetResourceFails, CanFail, Finish
<1>23. ASSUME NEW r \in Resource, GetResourceNotFound(r) PROVE FlagsOK'
  BY <1>23, Zenon DEF GetResourceNotFound
<1>24. ASSUME NEW r \in Resource, ResourceNotReady(r) PROVE FlagsOK'
  BY <1>24, Zenon DEF ResourceNotReady, Finish
<1>25. ASSUME NEW r \in Resource, ResourceSynced(r) PROVE FlagsOK'
  BY <1>25, Zenon DEF ResourceSynced, SynchronizeThen, Finish
<1>26. ASSUME NEW r \in Resource, CreateResource(r) PROVE FlagsOK'
  BY <1>26, Zenon DEF CreateResource, Finish, StoreObject
<1>27. ASSUME NEW r \in Resource, CreateResourceFails(r) PROVE FlagsOK'
  BY <1>27, Zenon DEF CreateResourceFails, CanFail, Finish, StoreObject
<1>28. ASSUME NEW r \in Resource, InitializeDeletion(r) PROVE FlagsOK'
  BY <1>28, Zenon DEF InitializeDeletion, SynchronizeThen, Finish
<1>29. ASSUME NEW r \in Resource, GetForDeletionFails(r) PROVE FlagsOK'
  BY <1>29, Zenon DEF GetForDeletionFails, CanFail, FinishUnchanged, Finish
<1>30. ASSUME NEW r \in Resource, GetForDeletionNotFound(r) PROVE FlagsOK'
  BY <1>30, Zenon DEF GetForDeletionNotFound
<1>31. ASSUME NEW r \in Resource, GetForDeletionFound(r) PROVE FlagsOK'
  BY <1>31, Zenon DEF GetForDeletionFound
<1>32. ASSUME NEW r \in Resource, NothingToDelete(r) PROVE FlagsOK'
  BY <1>32, Zenon DEF NothingToDelete
<1>33. ASSUME NEW r \in Resource, DeleteResourceNotFound(r) PROVE FlagsOK'
  BY <1>33, Zenon DEF DeleteResourceNotFound
<1>34. ASSUME NEW r \in Resource, DeleteResource(r) PROVE FlagsOK'
  BY <1>34, Zenon DEF DeleteResource, Finish, RemoveObject
<1>35. ASSUME NEW r \in Resource, DeleteResourceFails(r) PROVE FlagsOK'
  BY <1>35, Zenon DEF DeleteResourceFails, CanFail, Finish, RemoveObject
<1>36. CASE DeliverEvent
  BY <1>36, Zenon DEF DeliverEvent
<1>37. CASE CreateInstance
  BY <1>37, Zenon DEF CreateInstance
<1>38. CASE EditSpec
  BY <1>38, Zenon DEF EditSpec
<1>39. CASE TouchInstance
  BY <1>39, Zenon DEF TouchInstance, CanFail
<1>40. CASE DeleteInstance
  BY <1>40, Zenon DEF DeleteInstance
<1>41. CASE RemoveOtherFinalizer
  BY <1>41, Zenon DEF RemoveOtherFinalizer
<1>42. CASE Restart
  BY <1>42, Zenon DEF Restart, CanFail, NoReconciliation
<1>43. ASSUME NEW r \in Resource, Populate(r) PROVE FlagsOK'
  BY <1>43, Zenon DEF Populate
<1>44. ASSUME NEW r \in Resource, BecomeReady(r) PROVE FlagsOK'
  BY <1>44, Zenon DEF BecomeReady
<1>45. ASSUME NEW r \in Resource, BecomeUnready(r) PROVE FlagsOK'
  BY <1>45, Zenon DEF BecomeUnready
<1>46. ASSUME NEW r \in Resource, Vanish(r) PROVE FlagsOK'
  BY <1>46, Zenon DEF Vanish
<1>47. ASSUME NEW r \in Resource, DeleteExternally(r) PROVE FlagsOK'
  BY <1>47, Zenon DEF DeleteExternally, RemoveObject
<1>48. CASE UNCHANGED vars
  BY <1>48, Zenon DEF vars
<1> QED
  BY <1>1, <1>2, <1>3, <1>4, <1>5, <1>6, <1>7, <1>8, <1>9, <1>10, <1>11,
     <1>12, <1>13, <1>14, <1>15, <1>16, <1>17, <1>18, <1>19, <1>20, <1>21,
     <1>22, <1>23, <1>24, <1>25, <1>26, <1>27, <1>28, <1>29, <1>30, <1>31,
     <1>32, <1>33, <1>34, <1>35, <1>36, <1>37, <1>38, <1>39, <1>40, <1>41,
     <1>42, <1>43, <1>44, <1>45, <1>46, <1>47, <1>48 DEF Next, Reconcile,
     InstanceStep, ReconcileStep, DeletionStep, Environment, ObjectStep

\* Every step keeps the other variables in their types.
LEMMA DataStep == TypeOK /\ [Next]_vars => DataOK'
<1> SUFFICES ASSUME TypeOK, [Next]_vars PROVE DataOK'
  OBVIOUS
<1>0. DataOK
  BY DEF TypeOK
<1> USE <1>0, OrderAssumption, EnvironmentAssumption, LocalTypes
<1> USE DEF instanceVars, objectVars, queueVars, boundVars, view, runtimeVars,
     result, cluster, world, local
<1>1. CASE ProcessNextWorkItem
  BY <1>1 DEF ProcessNextWorkItem, DataOK, Steps, InstanceStates,
     ResourceStates, Outcomes
<1>2. CASE GetInstanceNotFound
  BY <1>2 DEF GetInstanceNotFound, Return, NoReconciliation, HandleResult,
     DataOK, Steps, InstanceStates, ResourceStates, Outcomes
<1>3. CASE GetInstanceFails
  BY <1>3 DEF GetInstanceFails, CanFail, Return, NoReconciliation,
     HandleResult, DataOK, Steps, InstanceStates, ResourceStates, Outcomes
<1>4. CASE CreateRuntimeFails
  BY <1>4 DEF CreateRuntimeFails, CanFail, Return, NoReconciliation,
     HandleResult, DataOK, Steps, InstanceStates, ResourceStates, Outcomes
<1>5. CASE GetInstanceFound
  BY <1>5, GetInstanceFoundTypes DEF TypeOK
<1>6. CASE AlreadyManaged
  BY <1>6 DEF AlreadyManaged, StartResources, DataOK, Steps, InstanceStates,
     ResourceStates, Outcomes
<1>7. CASE SetManaged
  BY <1>7, SetManagedTypes DEF TypeOK
<1>8. CASE SetManagedRefused
  BY <1>8 DEF SetManagedRefused, Refusal, FinishUnchanged, Finish, DataOK,
     Steps, InstanceStates, ResourceStates, Outcomes
<1>9. CASE SetManagedFails
  BY <1>9 DEF SetManagedFails, CanFail, Finish, DataOK, Steps,
     InstanceStates, ResourceStates, Outcomes
<1>10. CASE AllReconciled
  BY <1>10 DEF AllReconciled, FinishUnchanged, Finish, DataOK, Steps,
     InstanceStates, ResourceStates, Outcomes
<1>11. CASE StartDeleting
  BY <1>11 DEF StartDeleting, DataOK, Steps, InstanceStates, ResourceStates,
     Outcomes
<1>12. CASE AllDeleted
  BY <1>12 DEF AllDeleted, DataOK, Steps, InstanceStates, ResourceStates,
     Outcomes
<1>13. CASE NothingToFinalize
  BY <1>13 DEF NothingToFinalize, FinishUnchanged, Finish, ReadyToFinalize,
     DataOK, Steps, InstanceStates, ResourceStates, Outcomes
<1>14. CASE SetUnmanaged
  BY <1>14, SetUnmanagedTypes DEF TypeOK
<1>15. CASE SetUnmanagedRefused
  BY <1>15 DEF SetUnmanagedRefused, Refusal, FinishUnchanged, Finish,
     ReadyToFinalize, DataOK, Steps, InstanceStates, ResourceStates,
     Outcomes
<1>16. CASE SetUnmanagedFails
  BY <1>16 DEF SetUnmanagedFails, CanFail, Finish, DropFinalizer,
     ReadyToFinalize, DataOK, Steps, InstanceStates, ResourceStates,
     Outcomes
<1>17. CASE PatchStatus
  BY <1>17 DEF PatchStatus, Return, NoReconciliation, HandleResult, DataOK,
     Steps, InstanceStates, ResourceStates, Outcomes
<1>18. CASE PatchStatusFails
  BY <1>18 DEF PatchStatusFails, CanFail, Return, NoReconciliation,
     HandleResult, DataOK, Steps, InstanceStates, ResourceStates, Outcomes
<1>19. ASSUME NEW r \in Resource, SkipResource(r) PROVE DataOK'
  BY <1>19, SkipResourceTypes DEF TypeOK
<1>20. ASSUME NEW r \in Resource, ResourceNotResolved(r) PROVE DataOK'
  BY <1>20 DEF ResourceNotResolved, Finish, Current, DataOK, Steps,
     InstanceStates, ResourceStates, Outcomes
<1>21. ASSUME NEW r \in Resource, ReconcileResource(r) PROVE DataOK'
  BY <1>21 DEF ReconcileResource, Current, DataOK, Steps, InstanceStates,
     ResourceStates, Outcomes
<1>22. ASSUME NEW r \in Resource, GetResourceFails(r) PROVE DataOK'
  BY <1>22 DEF GetResourceFails, CanFail, Finish, Current, DataOK, Steps,
     InstanceStates, ResourceStates, Outcomes
<1>23. ASSUME NEW r \in Resource, GetResourceNotFound(r) PROVE DataOK'
  BY <1>23 DEF GetResourceNotFound, Current, DataOK, Steps, InstanceStates,
     ResourceStates, Outcomes
<1>24. ASSUME NEW r \in Resource, ResourceNotReady(r) PROVE DataOK'
  BY <1>24 DEF ResourceNotReady, Finish, Observation, Current,
     IsResourceReady, DataOK, Steps, InstanceStates, ResourceStates,
     Outcomes
<1>25. ASSUME NEW r \in Resource, ResourceSynced(r) PROVE DataOK'
  BY <1>25, ResourceSyncedTypes DEF TypeOK
<1>26. ASSUME NEW r \in Resource, CreateResource(r) PROVE DataOK'
  BY <1>26 DEF CreateResource, Finish, Current, StoreObject, DataOK, Steps,
     InstanceStates, ResourceStates, Outcomes
<1>27. ASSUME NEW r \in Resource, CreateResourceFails(r) PROVE DataOK'
  BY <1>27, CreateResourceFailsTypes DEF TypeOK
<1>28. ASSUME NEW r \in Resource, InitializeDeletion(r) PROVE DataOK'
  BY <1>28, InitializeDeletionTypes DEF TypeOK
<1>29. ASSUME NEW r \in Resource, GetForDeletionFails(r) PROVE DataOK'
  BY <1>29 DEF GetForDeletionFails, CanFail, FinishUnchanged, Finish,
     Current, DataOK, Steps, InstanceStates, ResourceStates, Outcomes
<1>30. ASSUME NEW r \in Resource, GetForDeletionNotFound(r) PROVE DataOK'
  BY <1>30 DEF GetForDeletionNotFound, Current, DataOK, Steps,
     InstanceStates, ResourceStates, Outcomes
<1>31. ASSUME NEW r \in Resource, GetForDeletionFound(r) PROVE DataOK'
  BY <1>31 DEF GetForDeletionFound, Observation, Current, DataOK, Steps,
     InstanceStates, ResourceStates, Outcomes
<1>32. ASSUME NEW r \in Resource, NothingToDelete(r) PROVE DataOK'
  BY <1>32 DEF NothingToDelete, Current, DataOK, Steps, InstanceStates,
     ResourceStates, Outcomes
<1>33. ASSUME NEW r \in Resource, DeleteResourceNotFound(r) PROVE DataOK'
  BY <1>33 DEF DeleteResourceNotFound, Current, DataOK, Steps,
     InstanceStates, ResourceStates, Outcomes
<1>34. ASSUME NEW r \in Resource, DeleteResource(r) PROVE DataOK'
  BY <1>34 DEF DeleteResource, Finish, Current, RemoveObject, DataOK, Steps,
     InstanceStates, ResourceStates, Outcomes
<1>35. ASSUME NEW r \in Resource, DeleteResourceFails(r) PROVE DataOK'
  BY <1>35, DeleteResourceFailsTypes DEF TypeOK
<1>36. CASE DeliverEvent
  BY <1>36 DEF DeliverEvent, DataOK, Steps, InstanceStates, ResourceStates,
     Outcomes
<1>37. CASE CreateInstance
  BY <1>37 DEF CreateInstance, DataOK, Steps, InstanceStates,
     ResourceStates, Outcomes
<1>38. CASE EditSpec
  BY <1>38 DEF EditSpec, DataOK, Steps, InstanceStates, ResourceStates,
     Outcomes
<1>39. CASE TouchInstance
  BY <1>39 DEF TouchInstance, CanFail, DataOK, Steps, InstanceStates,
     ResourceStates, Outcomes
<1>40. CASE DeleteInstance
  BY <1>40 DEF DeleteInstance, DataOK, Steps, InstanceStates,
     ResourceStates, Outcomes
<1>41. CASE RemoveOtherFinalizer
  BY <1>41 DEF RemoveOtherFinalizer, DataOK, Steps, InstanceStates,
     ResourceStates, Outcomes
<1>42. CASE Restart
  BY <1>42 DEF Restart, CanFail, NoReconciliation, DataOK, Steps,
     InstanceStates, ResourceStates, Outcomes
<1>43. ASSUME NEW r \in Resource, Populate(r) PROVE DataOK'
  BY <1>43 DEF Populate, DataOK, Steps, InstanceStates, ResourceStates,
     Outcomes
<1>44. ASSUME NEW r \in Resource, BecomeReady(r) PROVE DataOK'
  BY <1>44 DEF BecomeReady, DataOK, Steps, InstanceStates, ResourceStates,
     Outcomes
<1>45. ASSUME NEW r \in Resource, BecomeUnready(r) PROVE DataOK'
  BY <1>45 DEF BecomeUnready, DataOK, Steps, InstanceStates, ResourceStates,
     Outcomes
<1>46. ASSUME NEW r \in Resource, Vanish(r) PROVE DataOK'
  BY <1>46 DEF Vanish, DataOK, Steps, InstanceStates, ResourceStates,
     Outcomes
<1>47. ASSUME NEW r \in Resource, DeleteExternally(r) PROVE DataOK'
  BY <1>47 DEF DeleteExternally, RemoveObject, DataOK, Steps,
     InstanceStates, ResourceStates, Outcomes
<1>48. CASE UNCHANGED vars
  BY <1>48 DEF vars, DataOK
<1> QED
  BY <1>1, <1>2, <1>3, <1>4, <1>5, <1>6, <1>7, <1>8, <1>9, <1>10, <1>11,
     <1>12, <1>13, <1>14, <1>15, <1>16, <1>17, <1>18, <1>19, <1>20, <1>21,
     <1>22, <1>23, <1>24, <1>25, <1>26, <1>27, <1>28, <1>29, <1>30, <1>31,
     <1>32, <1>33, <1>34, <1>35, <1>36, <1>37, <1>38, <1>39, <1>40, <1>41,
     <1>42, <1>43, <1>44, <1>45, <1>46, <1>47, <1>48 DEF Next, Reconcile,
     InstanceStep, ReconcileStep, DeletionStep, Environment, ObjectStep

\* The initial state is typed.
LEMMA InitTypes == Init => TypeOK
<1> SUFFICES ASSUME Init PROVE TypeOK
  OBVIOUS
<1>1. FlagsOK
  BY DEF Init, FlagsOK
<1>2. DataOK
  BY OrderAssumption, EnvironmentAssumption, LocalTypes DEF Init, DataOK, Steps,
     InstanceStates, ResourceStates, Outcomes
<1> QED
  BY <1>1, <1>2 DEF TypeOK

\* The variables of the controller, of its work queue and of the cluster stay
\* in their types; in particular NumRequeues never passes QueueMaxRetries
\* (processNextWorkItem) and positions stay in the topological order.
THEOREM TypeCorrect == SafetySpec => []TypeOK
<1>1. TypeOK /\ [Next]_vars => TypeOK'
  BY FlagsStep, DataStep DEF TypeOK
<1> QED
  BY InitTypes, <1>1, PTL DEF SafetySpec

-----------------------------------------------------------------------------
(***************************************************************************)
(* The objects are removed in order, and before the finalizer.             *)
(***************************************************************************)

\* Observing one more resource keeps what was computed from observations.
LEMMA ObservingMore ==
    ASSUME NEW R, NEW s \in [Resource -> {"none", "partial", "full"}],
           NEW r \in Resource, NEW v, v # "none", R \subseteq Cached,
           ReadsObserved(R, s)
    PROVE  ReadsObserved(R, [s EXCEPT ![r] = v])
<1>1. \A e \in R : \A d \in Refs[e] : d \in Resource
  BY DerivedTypes, RuntimeAssumption
<1> QED
  BY <1>1 DEF ReadsObserved

\* A Synchronize that succeeds keeps the invariant of the runtime.
LEMMA SynchronizeKeeps ==
    ASSUME NEW s, NEW next, SynchronizeThen(s, next),
           ReadsObserved(resolved, s), next # "patchStatus"
    PROVE  \/ pc' = "patchStatus"
           \/ /\ pc' = next
              /\ ReadsObserved(resolved', s)
              /\ PropagateResourceVariables(rank, resolved')
<1>1. CASE SynchronizeSucceeds(rank, resolved, s)
  <2>1. pc' = next /\ resolved' = SynchronizedExprs(rank, resolved, s)
    BY <1>1 DEF SynchronizeThen
  <2>2. ReadsObserved(resolved', s)
    BY <1>1, <2>1, SynchronizeReadsObserved
  <2>3. PropagateResourceVariables(rank, resolved')
    BY <1>1, <2>1 DEF SynchronizeSucceeds
  <2> QED
    BY <2>1, <2>2, <2>3
<1>2. CASE ~SynchronizeSucceeds(rank, resolved, s)
  BY <1>2 DEF SynchronizeThen, Finish
<1> QED
  BY <1>1, <1>2

\* A step that ends the pass and writes no more than objects, resource states
\* and the runtime keeps the invariant, if it keeps what is said of objects.
LEMMA FinishCore ==
    ASSUME Core, pc' = "patchStatus",
           UNCHANGED <<instance, finalizer, otherFinalizer, snap, fresh>>,
           DependenciesOutlive', NoOrphans',
           instance = "live" => \A r \in Resource : phase'[r] # "terminating"
    PROVE  Core'
  BY DEF Core, Finalizers, FreshView, CreatingIsManaged, DeletingIsFinal,
     NothingSeenYet, SeenIsLive, RuntimeInv, DependenciesLive,
     DeletionProgress, Creating, Deleting

\* Controller.Reconcile: a pass starts with a fresh view of the instance.
LEMMA GetInstanceFoundCore ==
    ASSUME TypeOK, Core, GetInstanceFound
    PROVE  Core'
<1>1. /\ UNCHANGED <<instance, finalizer, otherFinalizer, phase, seen>>
      /\ instance # "absent"
      /\ pc = "getInstance"
      /\ snap'.finalizer = finalizer
      /\ pc' = IF instance = "deleting" THEN "initializeDeletion"
                                        ELSE "setManaged"
      /\ instance = "deleting" => idx' = 1
  BY DEF GetInstanceFound, world, cluster, instanceVars, objectVars
<1>2. PICK f \in Rankings : /\ NewRuntimeSucceeds(f)
                            /\ rank' = f
                            /\ resolved' = StaticExprs(f)
  BY DEF GetInstanceFound
<1>3. /\ ReadsObserved(resolved', seen')
      /\ PropagateResourceVariables(rank', resolved')
  BY <1>2, NewRuntimeReadsObserved DEF NewRuntimeSucceeds
<1>4. DependenciesOutlive' /\ NoOrphans' /\ Finalizers'
  BY <1>1 DEF Core, DependenciesOutlive, NoOrphans, Finalizers
<1>5. FreshView' /\ CreatingIsManaged'
  BY <1>1, Zenon DEF FreshView, CreatingIsManaged, Creating
<1>6. DeletingIsFinal' /\ NothingSeenYet' /\ SeenIsLive'
  BY <1>1 DEF TypeOK, DataOK, Core, DeletingIsFinal, NothingSeenYet,
     SeenIsLive, Creating, Deleting
<1>7. RuntimeInv'
  BY <1>3 DEF RuntimeInv
<1>8. DependenciesLive' /\ DeletionProgress'
  BY <1>1 DEF TypeOK, DataOK, DependenciesLive, DeletionProgress
<1> QED
  BY <1>4, <1>5, <1>6, <1>7, <1>8 DEF Core

\* reconcileInstance, when the instance it read carries the finalizer.
LEMMA AlreadyManagedCore ==
    ASSUME TypeOK, Core, AlreadyManaged
    PROVE  Core'
<1>1. /\ UNCHANGED <<instance, finalizer, otherFinalizer, snap, fresh, phase,
                     seen, rank, resolved>>
      /\ pc = "setManaged" /\ pc' = "reconcileResource"
      /\ snap.finalizer
  BY DEF AlreadyManaged, StartResources, world, cluster, instanceVars,
     objectVars, view, runtimeVars
<1>2. CreatingIsManaged' /\ FreshView'
  BY <1>1, Zenon DEF Core, CreatingIsManaged, FreshView, Creating
<1> QED
  BY <1>1, <1>2 DEF Core, DependenciesOutlive, NoOrphans, Finalizers,
     DeletingIsFinal, NothingSeenYet, SeenIsLive, RuntimeInv,
     DependenciesLive, DeletionProgress, Creating, Deleting

\* setManaged, with an error of the Update, applied or not.
LEMMA SetManagedFailsCore ==
    ASSUME TypeOK, Core, SetManagedFails
    PROVE  Core'
<1>1. /\ UNCHANGED <<instance, otherFinalizer, snap, phase>>
      /\ pc = "setManaged" /\ pc' = "patchStatus"
      /\ finalizer => finalizer'
      /\ finalizer' => finalizer \/ fresh
      /\ fresh' => fresh
  BY Zenon DEF SetManagedFails, Finish, objectVars
<1>2. fresh' => finalizer' = finalizer
  BY Zenon DEF SetManagedFails, TypeOK, FlagsOK
<1>3. FreshView'
  BY <1>1, <1>2, Zenon DEF Core, FreshView
<1>4. Finalizers'
  BY <1>1, Zenon DEF Core, Finalizers, FreshView
<1>5. NoOrphans'
  BY <1>1, Zenon DEF Core, NoOrphans
<1> QED
  BY <1>1, <1>3, <1>4, <1>5 DEF Core, DependenciesOutlive, CreatingIsManaged,
     DeletingIsFinal, NothingSeenYet, SeenIsLive, RuntimeInv,
     DependenciesLive, DeletionProgress, Creating, Deleting

\* reconcileResource, for a resource that the conditions leave out.
LEMMA SkipResourceCore ==
    ASSUME TypeOK, Core, NEW r \in Resource, SkipResource(r)
    PROVE  Core'
<1>1. /\ UNCHANGED <<instance, finalizer, otherFinalizer, snap, fresh, phase,
                     seen, rank>>
      /\ pc = "reconcileResource"
      /\ SynchronizeThen(seen, "reconcileResource")
  BY DEF SkipResource, world, cluster, instanceVars, objectVars, view
<1>2. ReadsObserved(resolved, seen)
  BY <1>1 DEF Core, RuntimeInv, Creating
<1>3. \/ pc' = "patchStatus"
      \/ /\ pc' = "reconcileResource"
         /\ ReadsObserved(resolved', seen)
         /\ PropagateResourceVariables(rank, resolved')
  BY <1>1, <1>2, SynchronizeKeeps
<1> QED
  BY <1>1, <1>3 DEF Core, DependenciesOutlive, NoOrphans, Finalizers,
     FreshView, CreatingIsManaged, DeletingIsFinal, NothingSeenYet,
     SeenIsLive, RuntimeInv, DependenciesLive, DeletionProgress, Creating,
     Deleting

\* reconcileResource: a resource is treated once the runtime has resolved it,
\* and so once its dependencies were observed.
LEMMA ReconcileResourceCore ==
    ASSUME TypeOK, Core, NEW r \in Resource, ReconcileResource(r)
    PROVE  Core'
<1>1. /\ UNCHANGED <<instance, finalizer, otherFinalizer, snap, fresh, phase,
                     seen, rank, resolved, idx>>
      /\ pc = "reconcileResource" /\ pc' = "getResource"
      /\ idx \in 1..N /\ r = Order[idx]
      /\ IsResolved(rank, resolved, seen, r)
  BY DEF ReconcileResource, Current, world, cluster, instanceVars, objectVars,
     view, runtimeVars
<1>2. /\ ReadsObserved(resolved, seen)
      /\ PropagateResourceVariables(rank, resolved)
      /\ \A q \in Resource : seen[q] # "none" => phase[q] = "live"
  BY <1>1 DEF Core, RuntimeInv, SeenIsLive, Creating
<1>3. \A d \in GetDependencies[r] : d \in Resource /\ phase[d] = "live"
  <2>1. CASE seen[r] = "none"
    BY <1>1, <1>2, <2>1, ResolvedNeedsDependencies, DerivedTypes
  <2>2. CASE seen[r] # "none"
    BY <1>2, <2>2, DerivedTypes DEF Core, DependenciesOutlive
  <2> QED
    BY <2>1, <2>2
<1>4. DependenciesLive'
  BY <1>1, <1>3 DEF DependenciesLive
<1> QED
  BY <1>1, <1>4 DEF Core, DependenciesOutlive, NoOrphans, Finalizers,
     FreshView, CreatingIsManaged, DeletingIsFinal, NothingSeenYet,
     SeenIsLive, RuntimeInv, DeletionProgress, Creating, Deleting

\* handleResourceReconciliation, for an object that is there and ready.
LEMMA ResourceSyncedCore ==
    ASSUME TypeOK, Core, NEW r \in Resource, ResourceSynced(r)
    PROVE  Core'
<1>1. /\ UNCHANGED <<instance, finalizer, otherFinalizer, snap, fresh, phase,
                     rank>>
      /\ pc = "getResource"
      /\ phase[r] # "absent"
      /\ SynchronizeThen(seen', "reconcileResource")
      /\ \E v : v # "none" /\ seen' = [seen EXCEPT ![r] = v]
  BY DEF ResourceSynced, Observation, world, cluster, instanceVars,
     objectVars, view
<1>2. phase[r] = "live"
  BY <1>1 DEF TypeOK, DataOK, Core, DeletingIsFinal, Creating
<1>3. \A q \in Resource : seen'[q] # "none" => phase[q] = "live"
  BY <1>1, <1>2 DEF TypeOK, DataOK, Core, SeenIsLive, Creating
<1>4. ReadsObserved(resolved, seen)
  BY <1>1 DEF Core, RuntimeInv, Creating
<1>5. ReadsObserved(resolved, seen')
  BY <1>1, <1>4, ObservingMore DEF TypeOK, DataOK, ReadsObserved
<1>6. \/ pc' = "patchStatus"
      \/ /\ pc' = "reconcileResource"
         /\ ReadsObserved(resolved', seen')
         /\ PropagateResourceVariables(rank, resolved')
  BY <1>1, <1>5, SynchronizeKeeps
<1> QED
  BY <1>1, <1>3, <1>6 DEF Core, DependenciesOutlive, NoOrphans, Finalizers,
     FreshView, CreatingIsManaged, DeletingIsFinal, NothingSeenYet,
     SeenIsLive, RuntimeInv, DependenciesLive, DeletionProgress, Creating,
     Deleting

\* handleResourceCreation, with an error of the Create, applied or not.
LEMMA CreateResourceFailsCore ==
    ASSUME TypeOK, Core, NEW r \in Resource, CreateResourceFails(r)
    PROVE  Core'
<1>1. /\ UNCHANGED <<instance, finalizer, otherFinalizer, snap, fresh>>
      /\ pc = "createResource" /\ pc' = "patchStatus"
      /\ idx \in 1..N /\ r = Order[idx]
      /\ StoreObject(r) \/ UNCHANGED objectVars
  BY DEF CreateResourceFails, Finish, Current, instanceVars, view
<1>2. phase' = [phase EXCEPT ![r] = "live"] \/ phase' = phase
  BY <1>1 DEF StoreObject, objectVars
<1>3. finalizer /\ instance # "absent"
  <2>1. finalizer
    BY <1>1 DEF Core, CreatingIsManaged, Creating
  <2> QED
    BY <2>1 DEF Core, Finalizers
<1>4. \A d \in GetDependencies[r] : d \in Resource /\ phase[d] = "live"
  BY <1>1, DerivedTypes DEF Core, DependenciesLive
<1>5. DependenciesOutlive'
  BY <1>2, <1>4, DerivedTypes DEF TypeOK, DataOK, Core, DependenciesOutlive
<1>6. NoOrphans'
  BY <1>1, <1>3 DEF NoOrphans
<1>7. instance = "live" => \A q \in Resource : phase'[q] # "terminating"
  BY <1>2 DEF TypeOK, DataOK, Core, DeletingIsFinal
<1> QED
  BY <1>1, <1>5, <1>6, <1>7, FinishCore

\* initializeDeletionState: a resource that cannot be resolved was never
\* created.  If it existed, so would the resources it depends on and theirs;
\* they come before it in the topological order, so they have been observed,
\* and then it can be resolved.
LEMMA InitializeDeletionCore ==
    ASSUME Unaliased, TypeOK, Core, NEW r \in Resource, InitializeDeletion(r)
    PROVE  Core'
<1> DEFINE can ==
      IsResolved(rank, SynchronizedExprs(rank, resolved, seen), seen, r)
<1> DEFINE next == IF can THEN "getForDeletion" ELSE "initializeDeletion"
<1>1. /\ UNCHANGED <<instance, finalizer, otherFinalizer, snap, fresh, phase,
                     seen, rank>>
      /\ pc = "initializeDeletion"
      /\ idx \in 1..N /\ r = Order[idx]
      /\ SynchronizeThen(seen, next)
      /\ pc' = "initializeDeletion" => /\ rstate' = [rstate EXCEPT ![r] = "SKIPPED"]
                                       /\ idx' = idx + 1
      /\ pc' # "initializeDeletion" => UNCHANGED <<idx, rstate>>
  BY DEF InitializeDeletion, Current, world, cluster, instanceVars,
     objectVars, view
<1>2. \A j \in 1..N : j < idx => Examined(Order[j])
  BY <1>1 DEF Core, DeletionProgress
<1>3. \A q \in Resource : q \in {Order[j] : j \in 1..(idx - 1)} /\ phase[q] # "absent"
         => seen[q] # "none"
  BY <1>1, <1>2, OrderAssumption DEF Examined
<1>4. \A j \in 1..N : \A d \in GetDependencies[Order[j]] :
         d \in {Order[i] : i \in 1..(j - 1)}
  BY OrderAssumption
<1>5. phase[r] # "absent" => can
  <2> SUFFICES ASSUME phase[r] # "absent"
               PROVE  can
    OBVIOUS
  <2>1. \A q \in Resource : phase[q] # "absent" =>
           \A d \in GetDependencies[q] : d \in Resource /\ phase[d] # "absent"
    BY DerivedTypes DEF Core, DependenciesOutlive
  <2>2. ASSUME NEW d \in GetDependencies[r]
        PROVE  /\ seen[d] # "none"
               /\ \A c \in GetDependencies[d] : seen[c] # "none"
    <3>1. PICK i \in 1..(idx - 1) : Order[i] = d
      BY <1>1, <1>4
    <3>2. d \in Resource /\ phase[d] # "absent"
      BY <2>1
    <3>3. \A c \in GetDependencies[d] : c \in {Order[j] : j \in 1..(i - 1)}
      BY <1>1, <1>4, <3>1, OrderAssumption
    <3>4. \A c \in GetDependencies[d] : c \in {Order[j] : j \in 1..(idx - 1)}
      BY <3>3, <1>1, OrderAssumption
    <3> QED
      BY <1>3, <2>1, <3>1, <3>2, <3>4
  <2>3. rank \in Rankings
    BY DEF TypeOK, DataOK
  <2> QED
    BY <2>2, <2>3, ObservedIsResolved
<1>6. ReadsObserved(resolved, seen)
  BY <1>1 DEF Core, RuntimeInv, Deleting
<1>7. \/ pc' = "patchStatus"
      \/ /\ pc' = next
         /\ ReadsObserved(resolved', seen)
         /\ PropagateResourceVariables(rank, resolved')
  BY <1>1, <1>6, SynchronizeKeeps
<1>8. pc' = "initializeDeletion" => phase[r] = "absent"
  BY <1>5, <1>7
<1>9. pc' \in {"patchStatus", "getForDeletion", "initializeDeletion"}
  BY <1>7
<1> HIDE DEF next, can
<1>10. DeletionProgress'
  <2>1. CASE pc' = "initializeDeletion"
    <3>1. idx' = idx + 1 /\ rstate' = [rstate EXCEPT ![r] = "SKIPPED"]
      BY <1>1, <2>1
    <3>2. rstate'[r] = "SKIPPED" /\ phase'[r] = "absent"
      BY <1>1, <1>8, <2>1, <3>1 DEF TypeOK, DataOK
    <3>3. ASSUME NEW j \in 1..N, j < idx'
          PROVE  Examined(Order[j])'
      <4>1. CASE j = idx
        BY <1>1, <3>2, <4>1 DEF Examined
      <4>2. CASE j # idx
        <5>1. Order[j] \in Resource /\ Order[j] # r /\ j < idx
          BY <1>1, <3>1, <3>3, <4>2, OrderAssumption
        <5> QED
          BY <1>1, <1>2, <3>1, <5>1 DEF Examined, TypeOK, DataOK
      <4> QED
        BY <4>1, <4>2
    <3> QED
      BY <2>1, <3>3 DEF DeletionProgress
  <2>2. CASE pc' # "initializeDeletion"
    BY <1>1, <1>2, <1>9, <2>2 DEF DeletionProgress, Examined
  <2> QED
    BY <2>1, <2>2
<1>11. RuntimeInv'
  BY <1>1, <1>7, <1>9 DEF RuntimeInv, Creating, Deleting
<1> QED
  BY <1>1, <1>9, <1>10, <1>11 DEF Core, DependenciesOutlive, NoOrphans,
     Finalizers, FreshView, CreatingIsManaged, DeletingIsFinal,
     NothingSeenYet, SeenIsLive, DependenciesLive, Creating, Deleting

\* initializeDeletionState, for an object that is there.
LEMMA GetForDeletionFoundCore ==
    ASSUME TypeOK, Core, NEW r \in Resource, GetForDeletionFound(r)
    PROVE  Core'
<1>1. /\ UNCHANGED <<instance, finalizer, otherFinalizer, snap, fresh, phase,
                     rank, resolved>>
      /\ pc = "getForDeletion" /\ pc' = "initializeDeletion"
      /\ idx \in 1..N /\ r = Order[idx] /\ idx' = idx + 1
      /\ rstate' = [rstate EXCEPT ![r] = "PENDING_DELETION"]
      /\ \E v : v # "none" /\ seen' = [seen EXCEPT ![r] = v]
  BY DEF GetForDeletionFound, Observation, Current, world, cluster,
     instanceVars, objectVars, view
<1>2. ReadsObserved(resolved, seen) /\ PropagateResourceVariables(rank, resolved)
  BY <1>1 DEF Core, RuntimeInv, Deleting
<1>3. ReadsObserved(resolved', seen')
  BY <1>1, <1>2, ObservingMore DEF TypeOK, DataOK, ReadsObserved
<1>4. rstate'[r] = "PENDING_DELETION" /\ seen'[r] # "none"
  BY <1>1 DEF TypeOK, DataOK
<1>5. ASSUME NEW j \in 1..N, j < idx'
      PROVE  Examined(Order[j])'
  <2>1. CASE j = idx
    BY <1>1, <1>4, <2>1 DEF Examined
  <2>2. CASE j # idx
    <3>1. Order[j] \in Resource /\ Order[j] # r /\ j < idx
      BY <1>1, <1>5, <2>2, OrderAssumption
    <3>2. Examined(Order[j])
      BY <1>1, <3>1 DEF Core, DeletionProgress
    <3> QED
      BY <1>1, <3>1, <3>2 DEF Examined, TypeOK, DataOK
  <2> QED
    BY <2>1, <2>2
<1>6. DeletionProgress'
  BY <1>1, <1>5 DEF DeletionProgress
<1> QED
  BY <1>1, <1>2, <1>3, <1>6 DEF Core, DependenciesOutlive, NoOrphans,
     Finalizers, FreshView, CreatingIsManaged, DeletingIsFinal,
     NothingSeenYet, SeenIsLive, RuntimeInv, DependenciesLive, Creating,
     Deleting

\* The finalizer is dropped only when no object is left.
LEMMA DropFinalizerCore ==
    ASSUME TypeOK, Core, pc = "finalizeDeletion", pc' = "patchStatus", fresh,
           UNCHANGED <<phase, otherFinalizer>>, DropFinalizer,
           fresh' => /\ otherFinalizer
                     /\ ~snap'.finalizer
                     /\ snap'.finalizer \in BOOLEAN
    PROVE  Core'
<1>1. \A r \in Resource : phase[r] = "absent"
  BY DEF Core, DeletionProgress
<1>2. /\ ~finalizer' /\ finalizer' = FALSE
      /\ otherFinalizer => instance' = instance
      /\ ~otherFinalizer => instance' = "absent"
  BY Zenon DEF DropFinalizer
<1>3. instance # "absent"
  BY DEF Core, FreshView
<1>4. FreshView'
  BY <1>2, <1>3, Zenon DEF FreshView
<1>5. Finalizers'
  BY <1>2, <1>3 DEF Core, Finalizers
<1> QED
  BY <1>1, <1>2, <1>3, <1>4, <1>5 DEF Core, DependenciesOutlive, NoOrphans,
     CreatingIsManaged, DeletingIsFinal, NothingSeenYet, SeenIsLive,
     RuntimeInv, DependenciesLive, DeletionProgress, Creating, Deleting

\* setUnmanaged.
LEMMA SetUnmanagedCore ==
    ASSUME TypeOK, Core, SetUnmanaged
    PROVE  Core'
<1>1. /\ UNCHANGED <<phase, otherFinalizer>>
      /\ pc = "finalizeDeletion" /\ pc' = "patchStatus"
      /\ fresh
      /\ DropFinalizer
  BY Zenon DEF SetUnmanaged, Finish, objectVars
<1>2. snap'.finalizer = FALSE
  BY DEF SetUnmanaged, TypeOK, DataOK, Snapshots
<1>3. fresh' => otherFinalizer
  BY Zenon DEF SetUnmanaged
<1> QED
  BY <1>1, <1>2, <1>3, DropFinalizerCore, Zenon

\* setUnmanaged, with an error of the Update, applied or not.
LEMMA SetUnmanagedFailsCore ==
    ASSUME TypeOK, Core, SetUnmanagedFails
    PROVE  Core'
<1>1. /\ UNCHANGED <<phase, otherFinalizer, snap>>
      /\ pc = "finalizeDeletion" /\ pc' = "patchStatus"
  BY DEF SetUnmanagedFails, Finish, objectVars
<1>2. CASE fresh /\ DropFinalizer /\ fresh' = FALSE
  BY <1>1, <1>2, DropFinalizerCore, Zenon
<1>3. CASE UNCHANGED <<instance, finalizer, status, notify, fresh>>
  BY <1>1, <1>3 DEF Core, DependenciesOutlive, NoOrphans, Finalizers,
     FreshView, CreatingIsManaged, DeletingIsFinal, NothingSeenYet,
     SeenIsLive, RuntimeInv, DependenciesLive, DeletionProgress, Creating,
     Deleting
<1> QED
  BY <1>2, <1>3 DEF SetUnmanagedFails

-----------------------------------------------------------------------------
\* Every step keeps the invariant.
LEMMA CoreStep ==
    ASSUME Unaliased, ~ExternalDeletion, TypeOK, Core, [Next]_vars
    PROVE  Core'
<1> USE OrderAssumption, DerivedTypes
<1> USE DEF TypeOK, DataOK, Core, DependenciesOutlive, NoOrphans, Finalizers, FreshView, CreatingIsManaged,
     DeletingIsFinal, NothingSeenYet, SeenIsLive, RuntimeInv, DependenciesLive,
     DeletionProgress, Examined, Creating, Deleting
<1> USE DEF instanceVars, objectVars, queueVars, boundVars, view, runtimeVars,
     result, cluster, world, local
<1>1. CASE ProcessNextWorkItem
  BY <1>1 DEF ProcessNextWorkItem
<1>2. CASE GetInstanceNotFound
  BY <1>2 DEF GetInstanceNotFound, Return, NoReconciliation, HandleResult
<1>3. CASE GetInstanceFails
  BY <1>3 DEF GetInstanceFails, CanFail, Return, NoReconciliation,
     HandleResult
<1>4. CASE CreateRuntimeFails
  BY <1>4 DEF CreateRuntimeFails, CanFail, Return, NoReconciliation,
     HandleResult
<1>5. CASE GetInstanceFound
  BY <1>5, GetInstanceFoundCore
<1>6. CASE AlreadyManaged
  BY <1>6, AlreadyManagedCore
<1>7. CASE SetManaged
  BY <1>7 DEF SetManaged, StartResources
<1>8. CASE SetManagedRefused
  BY <1>8 DEF SetManagedRefused, Refusal, FinishUnchanged, Finish
<1>9. CASE SetManagedFails
  BY <1>9, SetManagedFailsCore
<1>10. CASE AllReconciled
  BY <1>10 DEF AllReconciled, FinishUnchanged, Finish
<1>11. CASE StartDeleting
  BY <1>11 DEF StartDeleting
<1>12. CASE AllDeleted
  BY <1>12 DEF AllDeleted
<1>13. CASE NothingToFinalize
  BY <1>13 DEF NothingToFinalize, FinishUnchanged, Finish, ReadyToFinalize
<1>14. CASE SetUnmanaged
  BY <1>14, SetUnmanagedCore
<1>15. CASE SetUnmanagedRefused
  BY <1>15 DEF SetUnmanagedRefused, Refusal, FinishUnchanged, Finish,
     ReadyToFinalize
<1>16. CASE SetUnmanagedFails
  BY <1>16, SetUnmanagedFailsCore
<1>17. CASE PatchStatus
  BY <1>17 DEF PatchStatus, Return, NoReconciliation, HandleResult
<1>18. CASE PatchStatusFails
  BY <1>18 DEF PatchStatusFails, CanFail, Return, NoReconciliation,
     HandleResult
<1>19. ASSUME NEW r \in Resource, SkipResource(r) PROVE Core'
  BY <1>19, SkipResourceCore
<1>20. ASSUME NEW r \in Resource, ResourceNotResolved(r) PROVE Core'
  BY <1>20 DEF ResourceNotResolved, Finish, Current
<1>21. ASSUME NEW r \in Resource, ReconcileResource(r) PROVE Core'
  BY <1>21, ReconcileResourceCore
<1>22. ASSUME NEW r \in Resource, GetResourceFails(r) PROVE Core'
  BY <1>22 DEF GetResourceFails, CanFail, Finish, Current
<1>23. ASSUME NEW r \in Resource, GetResourceNotFound(r) PROVE Core'
  BY <1>23 DEF GetResourceNotFound, Current
<1>24. ASSUME NEW r \in Resource, ResourceNotReady(r) PROVE Core'
  BY <1>24 DEF ResourceNotReady, Finish, Observation, Current,
     IsResourceReady
<1>25. ASSUME NEW r \in Resource, ResourceSynced(r) PROVE Core'
  BY <1>25, ResourceSyncedCore
<1>26. ASSUME NEW r \in Resource, CreateResource(r) PROVE Core'
  BY <1>26 DEF CreateResource, Finish, Current, StoreObject
<1>27. ASSUME NEW r \in Resource, CreateResourceFails(r) PROVE Core'
  BY <1>27, CreateResourceFailsCore
<1>28. ASSUME NEW r \in Resource, InitializeDeletion(r) PROVE Core'
  BY <1>28, InitializeDeletionCore
<1>29. ASSUME NEW r \in Resource, GetForDeletionFails(r) PROVE Core'
  BY <1>29 DEF GetForDeletionFails, CanFail, FinishUnchanged, Finish,
     Current
<1>30. ASSUME NEW r \in Resource, GetForDeletionNotFound(r) PROVE Core'
  BY <1>30 DEF GetForDeletionNotFound, Current
<1>31. ASSUME NEW r \in Resource, GetForDeletionFound(r) PROVE Core'
  BY <1>31, GetForDeletionFoundCore
<1>32. ASSUME NEW r \in Resource, NothingToDelete(r) PROVE Core'
  BY <1>32 DEF NothingToDelete, Current
<1>33. ASSUME NEW r \in Resource, DeleteResourceNotFound(r) PROVE Core'
  BY <1>33 DEF DeleteResourceNotFound, Current
<1>34. ASSUME NEW r \in Resource, DeleteResource(r) PROVE Core'
  BY <1>34 DEF DeleteResource, Finish, Current, RemoveObject
<1>35. ASSUME NEW r \in Resource, DeleteResourceFails(r) PROVE Core'
  BY <1>35 DEF DeleteResourceFails, CanFail, Finish, Current, RemoveObject
<1>36. CASE DeliverEvent
  BY <1>36 DEF DeliverEvent
<1>37. CASE CreateInstance
  BY <1>37 DEF CreateInstance
<1>38. CASE EditSpec
  BY <1>38 DEF EditSpec
<1>39. CASE TouchInstance
  BY <1>39 DEF TouchInstance, CanFail
<1>40. CASE DeleteInstance
  BY <1>40 DEF DeleteInstance
<1>41. CASE RemoveOtherFinalizer
  BY <1>41 DEF RemoveOtherFinalizer
<1>42. CASE Restart
  BY <1>42 DEF Restart, CanFail, NoReconciliation
<1>43. ASSUME NEW r \in Resource, Populate(r) PROVE Core'
  BY <1>43 DEF Populate
<1>44. ASSUME NEW r \in Resource, BecomeReady(r) PROVE Core'
  BY <1>44 DEF BecomeReady
<1>45. ASSUME NEW r \in Resource, BecomeUnready(r) PROVE Core'
  BY <1>45 DEF BecomeUnready
<1>46. ASSUME NEW r \in Resource, Vanish(r) PROVE Core'
  BY <1>46 DEF Vanish
<1>47. ASSUME NEW r \in Resource, DeleteExternally(r) PROVE Core'
  BY <1>47 DEF DeleteExternally, RemoveObject
<1>48. CASE UNCHANGED vars
  BY <1>48 DEF vars
<1> QED
  BY <1>1, <1>2, <1>3, <1>4, <1>5, <1>6, <1>7, <1>8, <1>9, <1>10, <1>11,
     <1>12, <1>13, <1>14, <1>15, <1>16, <1>17, <1>18, <1>19, <1>20, <1>21,
     <1>22, <1>23, <1>24, <1>25, <1>26, <1>27, <1>28, <1>29, <1>30, <1>31,
     <1>32, <1>33, <1>34, <1>35, <1>36, <1>37, <1>38, <1>39, <1>40, <1>41,
     <1>42, <1>43, <1>44, <1>45, <1>46, <1>47, <1>48 DEF Next, Reconcile,
     InstanceStep, ReconcileStep, DeletionStep, Environment, ObjectStep

\* The invariant holds initially.
LEMMA InitCore == Init => Core
  BY OrderAssumption DEF Init, Core, DependenciesOutlive, NoOrphans, Finalizers,
     FreshView, CreatingIsManaged,
     DeletingIsFinal, NothingSeenYet, SeenIsLive, RuntimeInv, DependenciesLive,
     DeletionProgress, Examined, Creating, Deleting

\* The invariant holds in every state (reconcileInstance,
\* handleInstanceDeletion).
THEOREM CoreHolds ==
    ASSUME Unaliased, ~ExternalDeletion
    PROVE  SafetySpec => []IndInv
<1>1. Init => IndInv
  BY InitTypes, InitCore DEF IndInv
<1>2. IndInv /\ [Next]_vars => IndInv'
  BY FlagsStep, DataStep, CoreStep DEF IndInv, TypeOK
<1> QED
  BY <1>1, <1>2, PTL DEF SafetySpec

\* While a sub-resource exists the instance exists and carries the finalizer of
\* kro (setManaged before any Create, finalizeDeletion after the last object is
\* gone).
THEOREM ObjectsAreManaged ==
    ASSUME Unaliased, ~ExternalDeletion
    PROVE  SafetySpec => []NoOrphans
<1>1. IndInv => NoOrphans
  BY DEF IndInv, Core
<1> QED
  BY <1>1, CoreHolds, PTL

\* A sub-resource outlives the ones that depend on it, and is not even marked
\* for deletion before they are gone (reconcileInstance,
\* deleteResourcesInOrder).
THEOREM DependenciesAreKept ==
    ASSUME Unaliased, ~ExternalDeletion
    PROVE  SafetySpec => []DependenciesOutlive
<1>1. IndInv => DependenciesOutlive
  BY DEF IndInv, Core
<1> QED
  BY <1>1, CoreHolds, PTL
=============================================================================
