--------------------------- MODULE RegistryProofs ---------------------------
(***************************************************************************)
(* Facts about the registry of the dynamic controller that its users,      *)
(* ResourceGroupController and DynamicController, share: its variables     *)
(* stay in their types, whatever operations interleave.  The one thing     *)
(* that takes an argument is the bound on the informers of a GVR: calls    *)
(* are admitted by counting the callers that may still start one.          *)
(***************************************************************************)
EXTENDS Registry, FiniteSetTheorems, TLAPS

\* The callers that may start an informer for g, and those of them that
\* certainly will.
Starters(g) == {c \in Caller : Starting(c, g)}
Committed(g) == {c \in Starters(g) : call[c].at # "start"}

\* There are informers left for those who will start one, and, while none is
\* registered, for those who may.
Admitted(g) ==
    /\ started[g] + Cardinality(Committed(g)) <= MaxCalls
    /\ informers[g] = 0 => started[g] + Cardinality(Starters(g)) <= MaxCalls

\* A caller that waits for an informer has started one.
Numbered(c) ==
    call[c].at \in {"waitForCacheSync", "storeInformer"} => call[c].informer # 0

RegistryInv ==
    /\ RegistryTypeOK
    /\ \A g \in GVR : Admitted(g)
    /\ \A c \in Caller : Numbered(c)

\* What is known of a caller.
CallRecords == [at : Operations, gvr : GVR, handler : Handler \cup {NoHandler},
                informer : 0..MaxCalls]

\* A caller that is in no operation is typed.
LEMMA IdleType == Idle \in CallRecords
<1>1. (CHOOSE g \in GVR : TRUE) \in GVR
  BY RegistryAssumption
<1> QED
  BY <1>1, RegistryAssumption DEF Idle, Operations, CallRecords

\* The counts are natural numbers, and those who will are among those who may.
LEMMA Counts ==
    ASSUME NEW g
    PROVE  /\ IsFiniteSet(Starters(g)) /\ Cardinality(Starters(g)) \in Nat
           /\ IsFiniteSet(Committed(g)) /\ Cardinality(Committed(g)) \in Nat
           /\ Cardinality(Committed(g)) <= Cardinality(Starters(g))
<1>1. IsFiniteSet(Starters(g))
  BY RegistryAssumption, FS_Subset DEF Starters
<1>2. /\ IsFiniteSet(Committed(g))
      /\ Cardinality(Committed(g)) <= Cardinality(Starters(g))
  BY <1>1, FS_Subset DEF Committed
<1> QED
  BY <1>1, <1>2, FS_CardinalityType

\* The same counts, in the next state.
LEMMA CountsPrime ==
    ASSUME NEW g
    PROVE  /\ IsFiniteSet(Starters(g)') /\ Cardinality(Starters(g)') \in Nat
           /\ IsFiniteSet(Committed(g)') /\ Cardinality(Committed(g)') \in Nat
           /\ Cardinality(Committed(g)') <= Cardinality(Starters(g)')
<1>1. IsFiniteSet(Starters(g)')
  BY RegistryAssumption, FS_Subset DEF Starters
<1>2. /\ IsFiniteSet(Committed(g)')
      /\ Cardinality(Committed(g)') <= Cardinality(Starters(g)')
  BY <1>1, FS_Subset DEF Committed
<1> QED
  BY <1>1, <1>2, FS_CardinalityType

\* A step that starts no informer, adds nobody to those who will start one,
\* and nobody to those who may unless one is registered, keeps the bound.
LEMMA AdmittedStays ==
    ASSUME RegistryTypeOK, NEW g \in GVR, Admitted(g),
           started'[g] = started[g],
           Committed(g)' \subseteq Committed(g),
           informers'[g] = 0 =>
               informers[g] = 0 /\ Starters(g)' \subseteq Starters(g)
    PROVE  Admitted(g)'
<1>1. Cardinality(Committed(g)') <= Cardinality(Committed(g))
  BY Counts, FS_Subset
<1>2. informers'[g] = 0 => Cardinality(Starters(g)') <= Cardinality(Starters(g))
  BY Counts, FS_Subset
<1>3. started[g] \in Nat
  BY RegistryAssumption DEF RegistryTypeOK
<1> QED
  BY <1>1, <1>2, <1>3, Counts, CountsPrime, RegistryAssumption DEF Admitted

-----------------------------------------------------------------------------
\* The steps inside an operation keep the types and the numbers, given that
\* there is a number left for an informer that is started.
LEMMA OperationTypes ==
    ASSUME RegistryInv, NEW c \in Caller, OperationStep(c)
    PROVE  RegistryTypeOK' /\ \A d \in Caller : Numbered(d)'
<1> USE RegistryAssumption
<1>1. CASE LoadForStart(c)
  BY <1>1 DEF LoadForStart, Continue, RegistryInv, RegistryTypeOK,
     Operations, Numbered
<1>2. CASE UpdateHandler(c)
  BY <1>2, IdleType DEF UpdateHandler, Done, Idle, CallRecords, RegistryInv,
     RegistryTypeOK, Operations, Numbered
<1>3. CASE StoreHandler(c)
  BY <1>3 DEF StoreHandler, Continue, RegistryInv, RegistryTypeOK,
     Operations, Numbered
<1>4. CASE RunInformer(c)
  <2> DEFINE g == call[c].gvr
  <2>1. c \in Committed(g) /\ g \in GVR
    BY <1>4 DEF RunInformer, Committed, Starters, Starting, RegistryInv,
       RegistryTypeOK
  <2>2. Cardinality(Committed(g)) # 0
    BY <2>1, Counts, FS_EmptySet
  <2>3. started[g] + 1 \in 1..MaxCalls
    BY <2>1, <2>2, Counts DEF RegistryInv, RegistryTypeOK, Admitted
  <2>4. call' \in [Caller -> CallRecords]
    <3>1. call \in [Caller -> CallRecords]
      BY DEF RegistryInv, RegistryTypeOK, CallRecords
    <3>2. ASSUME NEW n \in 0..MaxCalls
          PROVE  [call[c] EXCEPT !.at = "waitForCacheSync", !.informer = n]
                   \in CallRecords
      BY <3>1 DEF CallRecords, Operations
    <3>3. started[g] + 1 \in 0..MaxCalls
      BY <2>3
    <3> QED
      BY <1>4, <3>1, <3>2, <3>3 DEF RunInformer
  <2>5. started' \in [GVR -> 0..MaxCalls]
    BY <1>4, <2>1, <2>3 DEF RunInformer, RegistryInv, RegistryTypeOK
  <2>6. live' \subseteq {<<x, n>> : x \in GVR, n \in 1..MaxCalls}
    BY <1>4, <2>1, <2>3 DEF RunInformer, RegistryInv, RegistryTypeOK
  <2>7. \A d \in Caller : Numbered(d)'
    BY <1>4, <2>3 DEF RunInformer, RegistryInv, RegistryTypeOK, Numbered
  <2> QED
    BY <1>4, <2>4, <2>5, <2>6, <2>7 DEF RunInformer, RegistryInv,
       RegistryTypeOK, CallRecords
<1>5. CASE WaitForCacheSync(c)
  BY <1>5 DEF WaitForCacheSync, Continue, RegistryInv, RegistryTypeOK,
     Operations, Numbered
<1>6. CASE StoreInformer(c)
  BY <1>6, IdleType DEF StoreInformer, Done, Idle, CallRecords, RegistryInv,
     RegistryTypeOK, Operations, Numbered
<1>7. CASE NotRegistered(c)
  BY <1>7, IdleType DEF NotRegistered, Done, Idle, CallRecords, RegistryInv,
     RegistryTypeOK, Operations, Numbered
<1>8. CASE LoadForStop(c)
  <2>1. call' \in [Caller -> CallRecords]
    <3>1. call \in [Caller -> CallRecords]
      BY DEF RegistryInv, RegistryTypeOK, CallRecords
    <3>2. informers[call[c].gvr] \in 0..MaxCalls
      BY <3>1 DEF RegistryInv, RegistryTypeOK, CallRecords
    <3>3. [call[c] EXCEPT !.at = "shutdown", !.informer = informers[call[c].gvr]]
            \in CallRecords
      BY <3>1, <3>2 DEF CallRecords, Operations
    <3> QED
      BY <1>8, <3>1, <3>3 DEF LoadForStop
  <2>2. \A d \in Caller : Numbered(d)'
    BY <1>8 DEF LoadForStop, RegistryInv, RegistryTypeOK, Numbered
  <2> QED
    BY <1>8, <2>1, <2>2 DEF LoadForStop, RegistryInv, RegistryTypeOK,
       CallRecords
<1>9. CASE Shutdown(c)
  BY <1>9 DEF Shutdown, Continue, RegistryInv, RegistryTypeOK, Operations,
     Numbered
<1>10. CASE DeleteInformer(c)
  BY <1>10 DEF DeleteInformer, Continue, RegistryInv, RegistryTypeOK,
     Operations, Numbered
<1>11. CASE DeleteHandler(c)
  BY <1>11, IdleType DEF DeleteHandler, Done, Idle, CallRecords, RegistryInv,
     RegistryTypeOK, Operations, Numbered
<1> QED
  BY <1>1, <1>2, <1>3, <1>4, <1>5, <1>6, <1>7, <1>8, <1>9, <1>10, <1>11 DEF
     OperationStep

\* They keep the bound, if nobody may start an informer for the GVR of one
\* that is deleted from the map.
LEMMA OperationAdmits ==
    ASSUME RegistryInv, NEW c \in Caller, OperationStep(c),
           call[c].at = "deleteInformer" => Starters(call[c].gvr) = {},
           NEW g \in GVR
    PROVE  Admitted(g)'
<1> USE RegistryAssumption
<1>1. RegistryTypeOK /\ Admitted(g) /\ started[g] \in Nat
  BY DEF RegistryInv, RegistryTypeOK
<1>2. CASE LoadForStart(c)
  <2>1. CASE informers[g] = 0
    <3>1. Starters(g)' \subseteq Starters(g)
      BY <1>2 DEF LoadForStart, Continue, Starters, Starting, RegistryInv,
         RegistryTypeOK
    <3>2. Cardinality(Starters(g)') <= Cardinality(Starters(g))
      BY <3>1, Counts, FS_Subset
    <3>3. informers'[g] = 0 /\ started'[g] = started[g]
      BY <1>2, <2>1 DEF LoadForStart
    <3> QED
      BY <1>1, <2>1, <3>2, <3>3, Counts, CountsPrime DEF Admitted
  <2>2. CASE informers[g] # 0
    <3>1. Committed(g)' \subseteq Committed(g)
      BY <1>2, <2>2 DEF LoadForStart, Continue, Committed, Starters, Starting,
         RegistryInv,
         RegistryTypeOK
    <3> QED
      BY <1>1, <1>2, <2>2, <3>1, AdmittedStays DEF LoadForStart
  <2> QED
    BY <2>1, <2>2
<1>3. CASE UpdateHandler(c)
  <2>1. /\ Committed(g)' \subseteq Committed(g)
        /\ Starters(g)' \subseteq Starters(g)
        /\ started'[g] = started[g]
        /\ informers'[g] = 0 => informers[g] = 0
    BY <1>3 DEF UpdateHandler, Done, Idle, Committed, Starters, Starting,
       RegistryInv, RegistryTypeOK
  <2> QED
    BY <1>1, <2>1, AdmittedStays
<1>4. CASE StoreHandler(c)
  <2>1. /\ Committed(g)' \subseteq Committed(g)
        /\ Starters(g)' \subseteq Starters(g)
        /\ started'[g] = started[g]
        /\ informers'[g] = 0 => informers[g] = 0
    BY <1>4 DEF StoreHandler, Continue, Committed, Starters, Starting,
       RegistryInv, RegistryTypeOK
  <2> QED
    BY <1>1, <2>1, AdmittedStays
<1>5. CASE RunInformer(c)
  <2>1. CASE g = call[c].gvr
    <3>1. /\ c \in Starters(g) /\ Starters(g)' = Starters(g) \ {c}
          /\ c \in Committed(g) /\ Committed(g)' = Committed(g) \ {c}
      BY <1>5, <2>1 DEF RunInformer, Committed, Starters, Starting,
         RegistryInv, RegistryTypeOK
    <3>2. /\ Cardinality(Starters(g)') = Cardinality(Starters(g)) - 1
          /\ Cardinality(Committed(g)') = Cardinality(Committed(g)) - 1
      BY <3>1, Counts, FS_RemoveElement
    <3>3. started'[g] = started[g] + 1 /\ informers'[g] = informers[g]
      BY <1>5, <2>1 DEF RunInformer, RegistryInv, RegistryTypeOK
    <3> QED
      BY <1>1, <3>2, <3>3, Counts DEF Admitted
  <2>2. CASE g # call[c].gvr
    <3>1. /\ Committed(g)' \subseteq Committed(g)
          /\ Starters(g)' \subseteq Starters(g)
          /\ started'[g] = started[g] /\ informers'[g] = informers[g]
      BY <1>5, <2>2 DEF RunInformer, Committed, Starters, Starting,
         RegistryInv, RegistryTypeOK
    <3> QED
      BY <1>1, <3>1, AdmittedStays
  <2> QED
    BY <2>1, <2>2
<1>6. CASE WaitForCacheSync(c)
  <2>1. /\ Committed(g)' \subseteq Committed(g)
        /\ Starters(g)' \subseteq Starters(g)
        /\ started'[g] = started[g]
        /\ informers'[g] = 0 => informers[g] = 0
    BY <1>6 DEF WaitForCacheSync, Continue, Committed, Starters, Starting,
       RegistryInv, RegistryTypeOK
  <2> QED
    BY <1>1, <2>1, AdmittedStays
<1>7. CASE StoreInformer(c)
  <2>1. /\ Committed(g)' \subseteq Committed(g)
        /\ Starters(g)' \subseteq Starters(g)
        /\ started'[g] = started[g]
        /\ informers'[g] = 0 => informers[g] = 0
    BY <1>7 DEF StoreInformer, Done, Idle, Numbered, Committed, Starters,
       Starting, RegistryInv, RegistryTypeOK
  <2> QED
    BY <1>1, <2>1, AdmittedStays
<1>8. CASE NotRegistered(c)
  <2>1. /\ Committed(g)' \subseteq Committed(g)
        /\ Starters(g)' \subseteq Starters(g)
        /\ started'[g] = started[g]
        /\ informers'[g] = 0 => informers[g] = 0
    BY <1>8 DEF NotRegistered, Done, Idle, Committed, Starters, Starting,
       RegistryInv, RegistryTypeOK
  <2> QED
    BY <1>1, <2>1, AdmittedStays
<1>9. CASE LoadForStop(c)
  <2>1. /\ Committed(g)' \subseteq Committed(g)
        /\ Starters(g)' \subseteq Starters(g)
        /\ started'[g] = started[g]
        /\ informers'[g] = 0 => informers[g] = 0
    BY <1>9 DEF LoadForStop, Committed, Starters, Starting, RegistryInv,
       RegistryTypeOK
  <2> QED
    BY <1>1, <2>1, AdmittedStays
<1>10. CASE Shutdown(c)
  <2>1. /\ Committed(g)' \subseteq Committed(g)
        /\ Starters(g)' \subseteq Starters(g)
        /\ started'[g] = started[g]
        /\ informers'[g] = 0 => informers[g] = 0
    BY <1>10 DEF Shutdown, Continue, Committed, Starters, Starting,
       RegistryInv, RegistryTypeOK
  <2> QED
    BY <1>1, <2>1, AdmittedStays
<1>11. CASE DeleteInformer(c)
  <2>1. /\ Committed(g)' \subseteq Committed(g)
        /\ Starters(g)' \subseteq Starters(g)
        /\ started'[g] = started[g]
        /\ g # call[c].gvr => informers'[g] = informers[g]
        /\ g = call[c].gvr => informers'[g] = 0 /\ Starters(g) = {}
    BY <1>11 DEF DeleteInformer, Continue, Committed, Starters, Starting,
       RegistryInv,
       RegistryTypeOK
  <2>2. CASE g = call[c].gvr
    <3>1. Starters(g)' = {} /\ Committed(g)' = {}
      BY <2>1, <2>2 DEF Committed
    <3>2. Cardinality(Starters(g)') = 0 /\ Cardinality(Committed(g)') = 0
      BY <3>1, FS_EmptySet
    <3>3. started[g] <= MaxCalls
      BY <1>1 DEF RegistryTypeOK
    <3> QED
      BY <1>1, <2>1, <3>2, <3>3 DEF Admitted
  <2>3. CASE g # call[c].gvr
    BY <1>1, <2>1, <2>3, AdmittedStays
  <2> QED
    BY <2>2, <2>3
<1>12. CASE DeleteHandler(c)
  <2>1. /\ Committed(g)' \subseteq Committed(g)
        /\ Starters(g)' \subseteq Starters(g)
        /\ started'[g] = started[g]
        /\ informers'[g] = 0 => informers[g] = 0
    BY <1>12 DEF DeleteHandler, Done, Idle, Committed, Starters, Starting,
       RegistryInv, RegistryTypeOK
  <2> QED
    BY <1>1, <2>1, AdmittedStays
<1> QED
  BY <1>2, <1>3, <1>4, <1>5, <1>6, <1>7, <1>8, <1>9, <1>10, <1>11, <1>12 DEF
     OperationStep

\* Together: the steps inside an operation preserve the invariant.
LEMMA OperationSafe ==
    ASSUME RegistryInv, NEW c \in Caller, OperationStep(c),
           call[c].at = "deleteInformer" => Starters(call[c].gvr) = {}
    PROVE  RegistryInv'
  BY OperationTypes, OperationAdmits DEF RegistryInv

\* A call of StartServingGVK is admitted if there is an informer left for it.
LEMMA StartSafe ==
    ASSUME RegistryInv, NEW c \in Caller, NEW g \in GVR, NEW h,
           StartServingGVK(c, g, h)
    PROVE  RegistryInv'
<1>1. RegistryTypeOK'
  <2>1. [at |-> "start", gvr |-> g, handler |-> h, informer |-> 0] \in CallRecords
    BY RegistryAssumption DEF StartServingGVK, CallRecords, Operations
  <2> QED
    BY <2>1 DEF StartServingGVK, RegistryInv, RegistryTypeOK, CallRecords
<1>2. \A d \in Caller : Numbered(d)'
  BY DEF StartServingGVK, RegistryInv, RegistryTypeOK, Numbered
<1>3. ASSUME NEW x \in GVR
      PROVE  Admitted(x)'
  <2>1. /\ RegistryTypeOK /\ Admitted(x)
        /\ started[x] \in Nat
        /\ started' = started /\ informers' = informers
    BY RegistryAssumption DEF RegistryInv, RegistryTypeOK, StartServingGVK
  <2>2. Committed(x)' \subseteq Committed(x)
    BY DEF StartServingGVK, Committed, Starters, Starting, RegistryInv,
       RegistryTypeOK
  <2>3. CASE x # g \/ informers[x] # 0
    <3>1. x # g => Starters(x)' \subseteq Starters(x)
      BY DEF StartServingGVK, Starters, Starting, RegistryInv, RegistryTypeOK
    <3> QED
      BY <2>1, <2>2, <2>3, <3>1, AdmittedStays
  <2>4. CASE x = g /\ informers[x] = 0
    <3>1. Starters(x)' \subseteq Starters(x) \cup {c}
      BY DEF StartServingGVK, Starters, Starting, RegistryInv, RegistryTypeOK
    <3>2. Cardinality(Starters(x)') <= Cardinality(Starters(x)) + 1
      <4>1. /\ IsFiniteSet(Starters(x) \cup {c})
            /\ Cardinality(Starters(x) \cup {c})
                 \in {Cardinality(Starters(x)), Cardinality(Starters(x)) + 1}
        BY Counts, FS_AddElement
      <4>2. Cardinality(Starters(x)') <= Cardinality(Starters(x) \cup {c})
        BY <3>1, <4>1, FS_Subset
      <4> QED
        BY <4>1, <4>2, Counts, CountsPrime
    <3>3. started[x] + Cardinality(Starters(x)) < MaxCalls
      BY <2>4 DEF StartServingGVK, Starters
    <3> QED
      BY <2>1, <3>2, <3>3, Counts, CountsPrime, RegistryAssumption DEF Admitted
  <2> QED
    BY <2>3, <2>4
<1> QED
  BY <1>1, <1>2, <1>3 DEF RegistryInv

\* A call of StopServiceGVK, and the initial list of an informer, start none.
LEMMA StopSafe ==
    ASSUME RegistryInv, NEW c \in Caller, NEW g \in GVR, StopServiceGVK(c, g)
    PROVE  RegistryInv'
<1>1. RegistryTypeOK'
  <2>1. [at |-> "stop", gvr |-> g, handler |-> NoHandler, informer |-> 0]
          \in CallRecords
    BY RegistryAssumption DEF CallRecords, Operations
  <2> QED
    BY <2>1 DEF StopServiceGVK, RegistryInv, RegistryTypeOK, CallRecords
<1>2. \A d \in Caller : Numbered(d)'
  BY DEF StopServiceGVK, RegistryInv, RegistryTypeOK, Numbered
<1>3. ASSUME NEW x \in GVR
      PROVE  Admitted(x)'
  <2>1. /\ Committed(x)' \subseteq Committed(x)
        /\ Starters(x)' \subseteq Starters(x)
        /\ started' = started /\ informers' = informers
    BY DEF StopServiceGVK, Committed, Starters, Starting, RegistryInv,
       RegistryTypeOK
  <2> QED
    BY <2>1, AdmittedStays DEF RegistryInv
<1> QED
  BY <1>1, <1>2, <1>3 DEF RegistryInv

\* An informer that finishes its first listing keeps RegistryInv.
LEMMA SyncSafe ==
    ASSUME RegistryInv, NEW g, NEW n, Sync(g, n)
    PROVE  RegistryInv'
<1>1. RegistryTypeOK' /\ \A c \in Caller : Numbered(c)'
  BY DEF Sync, RegistryInv, RegistryTypeOK, Numbered
<1>2. ASSUME NEW x \in GVR
      PROVE  Admitted(x)'
  <2>1. /\ Committed(x)' = Committed(x) /\ Starters(x)' = Starters(x)
        /\ started' = started /\ informers' = informers
    BY DEF Sync, Committed, Starters, Starting
  <2> QED
    BY <2>1, AdmittedStays DEF RegistryInv
<1> QED
  BY <1>1, <1>2 DEF RegistryInv

\* So does a step that leaves the registry alone.
LEMMA UnchangedSafe ==
    ASSUME RegistryInv, UNCHANGED registryVars
    PROVE  RegistryInv'
<1>1. RegistryTypeOK' /\ \A c \in Caller : Numbered(c)'
  BY DEF registryVars, RegistryInv, RegistryTypeOK, Numbered
<1>2. ASSUME NEW x \in GVR
      PROVE  Admitted(x)'
  <2>1. /\ Committed(x)' = Committed(x) /\ Starters(x)' = Starters(x)
        /\ started' = started /\ informers' = informers
    BY DEF registryVars, Committed, Starters, Starting
  <2> QED
    BY <2>1, AdmittedStays DEF RegistryInv
<1> QED
  BY <1>1, <1>2 DEF RegistryInv

\* An empty registry satisfies the invariant: the one of the first process,
\* and that of every other.
LEMMA EmptySafe == RegistryInit => RegistryInv
<1> SUFFICES ASSUME RegistryInit PROVE RegistryInv
  OBVIOUS
<1>1. RegistryTypeOK
  BY IdleType, RegistryAssumption DEF RegistryInit, RegistryTypeOK, CallRecords
<1>2. \A c \in Caller : Numbered(c)
  BY DEF RegistryInit, Idle, Numbered
<1>3. ASSUME NEW g \in GVR PROVE Admitted(g)
  <2>1. Starters(g) = {} /\ Committed(g) = {}
    BY DEF RegistryInit, Idle, Starters, Starting, Committed
  <2>2. Cardinality(Starters(g)) = 0 /\ Cardinality(Committed(g)) = 0
    BY <2>1, FS_EmptySet
  <2> QED
    BY <2>2, RegistryAssumption DEF RegistryInit, Admitted
<1> QED
  BY <1>1, <1>2, <1>3 DEF RegistryInv

\* A restart empties the registry, and RegistryInv holds after it.
LEMMA EmptySafeNext == RegistryInit' => RegistryInv'
  BY EmptySafe, PTL

-----------------------------------------------------------------------------
(***************************************************************************)
(* Callers that keep apart.  ResourceGroups are reconciled one after the   *)
(* other unless resource-group-concurrent-reconciles says otherwise, and   *)
(* then those of different kinds register different GVRs: either way the   *)
(* operations of one GVR do not interleave.                                *)
(***************************************************************************)

\* No two operations of one GVR are under way.
Apart ==
    \A c, d \in Caller :
        ~Resting(c) /\ ~Resting(d) /\ call[c].gvr = call[d].gvr => c = d

\* Nobody is in an operation of g.
Free(g) == \A c \in Caller : Resting(c) \/ call[c].gvr # g

Running(g) == {n \in 1..MaxCalls : <<g, n>> \in live}

\* The maps, and the informers that run for g, agree.
Agreed(g) ==
    /\ Running(g) = IF informers[g] = 0 THEN {} ELSE {informers[g]}
    /\ informers[g] # 0 <=> handlers[g] # NoHandler

\* What of g the caller has changed when it comes to a step.
Advanced(c, g) ==
    CASE call[c].at = "update" -> Agreed(g) /\ informers[g] # 0
      [] call[c].at = "storeHandler" -> Agreed(g) /\ informers[g] = 0
      [] call[c].at = "runInformer" ->
            /\ informers[g] = 0 /\ handlers[g] # NoHandler
            /\ Running(g) = {}
      [] call[c].at \in {"waitForCacheSync", "storeInformer"} ->
            /\ informers[g] = 0 /\ handlers[g] # NoHandler
            /\ Running(g) = {call[c].informer}
      [] call[c].at = "shutdown" ->
            /\ Agreed(g) /\ informers[g] # 0
            /\ call[c].informer = informers[g]
      [] call[c].at = "deleteInformer" ->
            /\ informers[g] # 0 /\ handlers[g] # NoHandler
            /\ Running(g) = {}
      [] call[c].at = "deleteHandler" ->
            /\ informers[g] = 0 /\ handlers[g] # NoHandler
            /\ Running(g) = {}
      [] OTHER -> Agreed(g)

\* Who starts serving brings a handler.
BringsHandler(c) ==
    call[c].at \in {"start", "update", "storeHandler", "runInformer",
                   "waitForCacheSync", "storeInformer"} =>
        call[c].handler # NoHandler

AgreedInv ==
    /\ \A c \in Caller : BringsHandler(c)
    /\ \A c \in Caller : ~Resting(c) => Advanced(c, call[c].gvr)
    /\ \A g \in GVR : Free(g) => Agreed(g)

\* A step of c leaves the maps and the informers of other GVRs alone, and the
\* operations of other callers.
Within(c, g) ==
    /\ \A d \in Caller \ {c} : call'[d] = call[d]
    /\ \A x \in GVR \ {g} : /\ informers'[x] = informers[x]
                            /\ handlers'[x] = handlers[x]
                            /\ Running(x)' = Running(x)

\* Then what is known of other GVRs stays known.
LEMMA WithinKeeps ==
    ASSUME NEW c \in Caller, NEW g \in GVR, Within(c, g)
    PROVE  /\ \A x \in GVR \ {g} : Agreed(x) => Agreed(x)'
           /\ \A d \in Caller \ {c} : \A x \in GVR \ {g} :
                 Advanced(d, x) => Advanced(d, x)'
<1>1. ASSUME NEW x \in GVR \ {g}
      PROVE  Agreed(x)' <=> Agreed(x)
  BY DEF Within, Agreed
<1>2. ASSUME NEW d \in Caller \ {c}, NEW x \in GVR \ {g}, Advanced(d, x)
      PROVE  Advanced(d, x)'
  <2>1. /\ call'[d] = call[d] /\ (Agreed(x)' <=> Agreed(x))
        /\ informers'[x] = informers[x] /\ handlers'[x] = handlers[x]
        /\ Running(x)' = Running(x)
    BY <1>1 DEF Within
  <2> QED
    BY <1>2, <2>1 DEF Advanced
<1> QED
  BY <1>1, <1>2

\* So the invariant is kept if the step of c takes its own operation on.
LEMMA OwnStepAgrees ==
    ASSUME Apart, AgreedInv, NEW c \in Caller, NEW g \in GVR,
           ~Resting(c), call[c].gvr = g, Within(c, g), BringsHandler(c)',
           \/ Resting(c)' /\ Agreed(g)'
           \/ ~Resting(c)' /\ call'[c].gvr = g /\ Advanced(c, g)',
           \A d \in Caller : call[d].gvr \in GVR
    PROVE  AgreedInv'
<1>1. \A d \in Caller \ {c} : call'[d] = call[d]
  BY DEF Within
<1>2. ASSUME NEW d \in Caller
      PROVE  BringsHandler(d)'
  <2>1. CASE d = c
    BY <2>1
  <2>2. CASE d # c
    BY <1>1, <2>2 DEF AgreedInv, BringsHandler
  <2> QED
    BY <2>1, <2>2
<1>3. ASSUME NEW d \in Caller, ~Resting(d)'
      PROVE  Advanced(d, call[d].gvr)'
  <2>1. CASE d = c
    BY <1>3, <2>1
  <2>2. CASE d # c
    <3>1. call'[d] = call[d] /\ ~Resting(d)
      BY <1>1, <1>3, <2>2 DEF Resting
    <3>2. call[d].gvr # g /\ call[d].gvr \in GVR
      BY <2>2, <3>1 DEF Apart
    <3>3. Advanced(d, call[d].gvr)
      BY <3>1 DEF AgreedInv
    <3>4. \A x \in GVR \ {g} : Advanced(d, x) => Advanced(d, x)'
      BY <2>2, WithinKeeps
    <3>5. PICK x \in GVR \ {g} : x = call[d].gvr
      BY <3>2
    <3>6. Advanced(d, x)'
      BY <3>3, <3>4, <3>5
    <3>7. x = call'[d].gvr
      BY <3>1, <3>5
    <3> QED
      BY <3>6, <3>7 DEF Advanced
  <2> QED
    BY <2>1, <2>2
<1>4. ASSUME NEW x \in GVR, Free(x)'
      PROVE  Agreed(x)'
  <2>1. CASE x = g
    BY <1>4, <2>1 DEF Free
  <2>2. CASE x # g
    <3>1. Free(x)
      BY <1>1, <1>4, <2>2 DEF Free, Resting
    <3> QED
      BY <2>2, <3>1, WithinKeeps DEF AgreedInv
  <2> QED
    BY <2>1, <2>2
<1> QED
  BY <1>2, <1>3, <1>4 DEF AgreedInv

\* The steps of an operation lead from step to step.
LEMMA OperationAgrees ==
    ASSUME Apart, RegistryInv, RegistryTypeOK', AgreedInv, NEW c \in Caller,
           OperationStep(c)
    PROVE  AgreedInv'
<1>1. /\ RegistryTypeOK /\ Numbered(c) /\ ~Resting(c)
      /\ \A d \in Caller : call[d].gvr \in GVR
  BY DEF RegistryInv, RegistryTypeOK, OperationStep, Resting, LoadForStart,
     UpdateHandler, StoreHandler, RunInformer, WaitForCacheSync, StoreInformer,
     NotRegistered, LoadForStop, Shutdown, DeleteInformer, DeleteHandler
<1>0. PICK g \in GVR : g = call[c].gvr
  BY <1>1
<1>2. Advanced(c, g) /\ BringsHandler(c)
  BY <1>1, <1>0 DEF AgreedInv
<1> DEFINE Led == /\ Within(c, g)
                  /\ BringsHandler(c)'
                  /\ \/ Resting(c)' /\ Agreed(g)'
                     \/ ~Resting(c)' /\ call'[c].gvr = g /\ Advanced(c, g)'
<1> USE RegistryAssumption
<1>3. LoadForStart(c) => Led
  BY <1>1, <1>0, <1>2 DEF LoadForStart, Continue, Within,
     BringsHandler, Advanced, Agreed, Running, RegistryTypeOK, Numbered, Resting
<1>4. UpdateHandler(c) => Led
  BY <1>1, <1>0, <1>2 DEF UpdateHandler, Done, Idle, Within,
     BringsHandler, Advanced, Agreed, Running, RegistryTypeOK, Numbered, Resting
<1>5. StoreHandler(c) => Led
  BY <1>1, <1>0, <1>2 DEF StoreHandler, Continue, Within,
     BringsHandler, Advanced, Agreed, Running, RegistryTypeOK, Numbered, Resting
<1>6. ASSUME RunInformer(c)
      PROVE  Led
  <2> DEFINE n == started[g] + 1
  <2>1. /\ call' = [call EXCEPT ![c] = [@ EXCEPT !.at = "waitForCacheSync",
                                                 !.informer = n]]
        /\ live' = live \cup {<<g, n>>} /\ started'[g] = n
        /\ UNCHANGED <<informers, handlers>> /\ call[c].at = "runInformer"
    BY <1>0, <1>1, <1>6 DEF RunInformer, RegistryTypeOK
  <2>2. n \in 1..MaxCalls
    BY <1>1, <2>1, <1>6 DEF RegistryTypeOK
  <2>3. informers[g] = 0 /\ handlers[g] # NoHandler /\ Running(g) = {}
    BY <1>2, <2>1 DEF Advanced
  <2>4. Running(g)' = {n}
    BY <2>1, <2>2, <2>3 DEF Running
  <2>5. \A x \in GVR \ {g} : Running(x)' = Running(x)
    BY <2>1 DEF Running
  <2>6. /\ call'[c].at = "waitForCacheSync" /\ call'[c].gvr = g
        /\ call'[c].informer = n /\ call'[c].handler = call[c].handler
        /\ \A d \in Caller \ {c} : call'[d] = call[d]
    BY <1>0, <1>1, <2>1 DEF RegistryTypeOK
  <2>7. Within(c, g)
    BY <2>1, <2>5, <2>6 DEF Within
  <2>8. BringsHandler(c)' /\ ~Resting(c)'
    BY <1>2, <2>1, <2>6 DEF BringsHandler, Resting
  <2>9. Advanced(c, g)'
    BY <2>1, <2>3, <2>4, <2>6 DEF Advanced
  <2> QED
    BY <2>6, <2>7, <2>8, <2>9
<1>7. WaitForCacheSync(c) => Led
  BY <1>1, <1>0, <1>2 DEF WaitForCacheSync, Continue, Within,
     BringsHandler, Advanced, Agreed, Running, RegistryTypeOK, Numbered, Resting
<1>8. StoreInformer(c) => Led
  BY <1>1, <1>0, <1>2 DEF StoreInformer, Done, Idle, Within,
     BringsHandler, Advanced, Agreed, Running, RegistryTypeOK, Numbered, Resting
<1>9. NotRegistered(c) => Led
  BY <1>1, <1>0, <1>2 DEF NotRegistered, Done, Idle, Within,
     BringsHandler, Advanced, Agreed, Running, RegistryTypeOK, Numbered, Resting
<1>10. LoadForStop(c) => Led
  BY <1>1, <1>0, <1>2 DEF LoadForStop, Within,
     BringsHandler, Advanced, Agreed, Running, RegistryTypeOK, Numbered, Resting
<1>11. Shutdown(c) => Led
  BY <1>1, <1>0, <1>2 DEF Shutdown, Continue, Within,
     BringsHandler, Advanced, Agreed, Running, RegistryTypeOK, Numbered, Resting
<1>12. DeleteInformer(c) => Led
  BY <1>1, <1>0, <1>2 DEF DeleteInformer, Continue, Within,
     BringsHandler, Advanced, Agreed, Running, RegistryTypeOK, Numbered, Resting
<1>13. DeleteHandler(c) => Led
  BY <1>1, <1>0, <1>2 DEF DeleteHandler, Done, Idle, Within,
     BringsHandler, Advanced, Agreed, Running, RegistryTypeOK, Numbered, Resting
<1>14. Led
  BY <1>3, <1>4, <1>5, <1>6, <1>7, <1>8, <1>9, <1>10, <1>11, <1>12, <1>13
     DEF OperationStep
<1> QED
  BY <1>1, <1>0, <1>14, OwnStepAgrees


\* An operation begins at a GVR nobody else is at.
LEMMA CallAgrees ==
    ASSUME Apart', RegistryInv, AgreedInv, NEW c \in Caller, NEW g \in GVR,
           Resting(c), ~Resting(c)', BringsHandler(c)',
           call'[c].gvr = g, call'[c].at \in {"start", "stop"},
           \A d \in Caller \ {c} : call'[d] = call[d],
           UNCHANGED <<informers, handlers, live>>
    PROVE  AgreedInv'
<1>1. \A x \in GVR : /\ Agreed(x)' <=> Agreed(x)
                     /\ Running(x)' = Running(x)
  BY DEF Agreed, Running
<1>2. Agreed(g)
  <2>1. Free(g)
    BY DEF Apart, Free, Resting
  <2> QED
    BY <2>1 DEF AgreedInv
<1>3. ASSUME NEW d \in Caller
      PROVE  BringsHandler(d)' /\ (~Resting(d)' => Advanced(d, call[d].gvr)')
  <2>1. CASE d = c
    BY <1>1, <1>2, <2>1 DEF Advanced
  <2>2. CASE d # c
    <3>1. call'[d] = call[d] /\ call[d].gvr \in GVR
      BY <2>2 DEF RegistryInv, RegistryTypeOK
    <3>2. BringsHandler(d) /\ (~Resting(d) => Advanced(d, call[d].gvr))
      BY DEF AgreedInv
    <3> QED
      BY <1>1, <3>1, <3>2 DEF BringsHandler, Resting, Advanced
  <2> QED
    BY <2>1, <2>2
<1>4. ASSUME NEW x \in GVR, Free(x)'
      PROVE  Agreed(x)'
  <2>1. Free(x)
    BY <1>4 DEF Free, Resting
  <2> QED
    BY <1>1, <2>1 DEF AgreedInv
<1> QED
  BY <1>3, <1>4 DEF AgreedInv

\* So StartServingGVK begins in agreement.
LEMMA StartAgrees ==
    ASSUME Apart', RegistryInv, AgreedInv, NEW c \in Caller, NEW g \in GVR,
           NEW h \in Handler, StartServingGVK(c, g, h)
    PROVE  AgreedInv'
<1>1. /\ Resting(c) /\ call'[c].at = "start" /\ call'[c].gvr = g
      /\ call'[c].handler = h /\ UNCHANGED <<informers, handlers, live>>
      /\ \A d \in Caller \ {c} : call'[d] = call[d]
  BY DEF StartServingGVK, RegistryInv, RegistryTypeOK
<1>2. BringsHandler(c)' /\ ~Resting(c)'
  BY <1>1, RegistryAssumption DEF BringsHandler, Resting
<1> QED
  BY <1>1, <1>2, CallAgrees

\* And so does StopServiceGVK.
LEMMA StopAgrees ==
    ASSUME Apart', RegistryInv, AgreedInv, NEW c \in Caller, NEW g \in GVR,
           StopServiceGVK(c, g)
    PROVE  AgreedInv'
<1>1. /\ Resting(c) /\ call'[c].at = "stop" /\ call'[c].gvr = g
      /\ UNCHANGED <<informers, handlers, live>>
      /\ \A d \in Caller \ {c} : call'[d] = call[d]
  BY DEF StopServiceGVK, RegistryInv, RegistryTypeOK
<1>2. BringsHandler(c)' /\ ~Resting(c)'
  BY <1>1 DEF BringsHandler, Resting
<1> QED
  BY <1>1, <1>2, CallAgrees

\* A step that changes neither the maps nor the calls keeps the agreement.
LEMMA StandsAgrees ==
    ASSUME AgreedInv, UNCHANGED <<informers, handlers, live, call>>
    PROVE  AgreedInv'
  BY DEF AgreedInv, BringsHandler, Advanced, Agreed, Running, Free, Resting

\* The empty maps agree.
LEMMA EmptyAgrees == RegistryInit => AgreedInv
  BY DEF RegistryInit, Idle, AgreedInv, BringsHandler, Advanced, Agreed, Running,
     Free, Resting

\* At rest, the maps and the informers that run agree.
LEMMA AgreedIsConsistent ==
    ASSUME RegistryTypeOK, AgreedInv
    PROVE  RegistryConsistent
<1> SUFFICES ASSUME \A c \in Caller : Resting(c)
             PROVE  /\ live = {<<g, informers[g]>> :
                                 g \in {x \in GVR : informers[x] # 0}}
                    /\ \A g \in GVR : informers[g] # 0 <=> handlers[g] # NoHandler
  BY DEF RegistryConsistent
<1>1. \A g \in GVR : Agreed(g)
  BY DEF AgreedInv, Free
<1> QED
  BY <1>1, RegistryAssumption DEF Agreed, Running, RegistryTypeOK

-----------------------------------------------------------------------------
(***************************************************************************)
(* Any number of callers.  The bound on informers can be passed when a     *)
(* GVR is stopped and started at the same time, so here they have any      *)
(* number.                                                                 *)
(***************************************************************************)

RegistryShape ==
    /\ informers \in [GVR -> Nat]
    /\ handlers \in [GVR -> Handler \cup {NoHandler}]
    /\ started \in [GVR -> Nat]
    /\ synced \subseteq live
    /\ call \in [Caller -> [at : Operations, gvr : GVR,
                            handler : Handler \cup {NoHandler},
                            informer : Nat]]
    /\ \A c \in Caller : BringsHandler(c)

\* Each access to the maps keeps the shape of informers and calls.
LEMMA OperationShape ==
    ASSUME RegistryShape, NEW c \in Caller, OperationStep(c)
    PROVE  RegistryShape'
<1> USE RegistryAssumption
<1>1. Idle \in [at : Operations, gvr : GVR, handler : Handler \cup {NoHandler},
                informer : Nat]
  BY IdleType DEF CallRecords
<1>2. CASE LoadForStart(c)
  BY <1>1, <1>2 DEF LoadForStart, Continue, RegistryShape, Operations,
     BringsHandler
<1>3. CASE UpdateHandler(c)
  BY <1>1, <1>3 DEF UpdateHandler, Done, Idle, RegistryShape, Operations,
     BringsHandler
<1>4. CASE StoreHandler(c)
  BY <1>1, <1>4 DEF StoreHandler, Continue, RegistryShape, Operations,
     BringsHandler
<1>5. CASE RunInformer(c)
  <2>1. ASSUME NEW n \in Nat
        PROVE  [call[c] EXCEPT !.at = "waitForCacheSync", !.informer = n]
                 \in [at : Operations, gvr : GVR,
                      handler : Handler \cup {NoHandler}, informer : Nat]
    BY DEF RegistryShape, Operations
  <2>2. started[call[c].gvr] + 1 \in Nat
    BY DEF RegistryShape
  <2> QED
    BY <1>5, <2>1, <2>2 DEF RunInformer, RegistryShape, BringsHandler
<1>6. CASE WaitForCacheSync(c)
  BY <1>1, <1>6 DEF WaitForCacheSync, Continue, RegistryShape, Operations,
     BringsHandler
<1>7. CASE StoreInformer(c)
  BY <1>1, <1>7 DEF StoreInformer, Done, Idle, RegistryShape, Operations,
     BringsHandler
<1>8. CASE NotRegistered(c)
  BY <1>1, <1>8 DEF NotRegistered, Done, Idle, RegistryShape, Operations,
     BringsHandler
<1>9. CASE LoadForStop(c)
  <2>1. ASSUME NEW n \in Nat
        PROVE  [call[c] EXCEPT !.at = "shutdown", !.informer = n]
                 \in [at : Operations, gvr : GVR,
                      handler : Handler \cup {NoHandler}, informer : Nat]
    BY DEF RegistryShape, Operations
  <2>2. informers[call[c].gvr] \in Nat
    BY DEF RegistryShape
  <2> QED
    BY <1>9, <2>1, <2>2 DEF LoadForStop, RegistryShape, BringsHandler
<1>10. CASE Shutdown(c)
  BY <1>1, <1>10 DEF Shutdown, Continue, RegistryShape, Operations,
     BringsHandler
<1>11. CASE DeleteInformer(c)
  BY <1>1, <1>11 DEF DeleteInformer, Continue, RegistryShape, Operations,
     BringsHandler
<1>12. CASE DeleteHandler(c)
  BY <1>1, <1>12 DEF DeleteHandler, Done, Idle, RegistryShape, Operations,
     BringsHandler
<1> QED
  BY <1>2, <1>3, <1>4, <1>5, <1>6, <1>7, <1>8, <1>9, <1>10, <1>11, <1>12
     DEF OperationStep

\* The beginning of an operation keeps it.
LEMMA CallShape ==
    ASSUME RegistryShape, NEW c \in Caller, NEW g \in GVR,
           StopServiceGVK(c, g) \/ \E h \in Handler : StartServingGVK(c, g, h)
    PROVE  RegistryShape'
<1>1. CASE StopServiceGVK(c, g)
  BY <1>1 DEF StopServiceGVK, RegistryShape, Operations, BringsHandler
<1>2. ASSUME NEW h \in Handler, StartServingGVK(c, g, h)
      PROVE  RegistryShape'
  BY <1>2, RegistryAssumption DEF StartServingGVK, RegistryShape, Operations,
     BringsHandler
<1> QED
  BY <1>1, <1>2

\* An informer that finishes its first listing keeps it.
LEMMA SyncShape ==
    ASSUME RegistryShape, NEW g, NEW n, Sync(g, n)
    PROVE  RegistryShape'
  BY DEF Sync, RegistryShape, BringsHandler

\* A step that leaves the registry alone keeps it.
LEMMA UnchangedShape ==
    ASSUME RegistryShape, UNCHANGED registryVars
    PROVE  RegistryShape'
  BY DEF registryVars, RegistryShape, BringsHandler

\* The empty registry has it.
LEMMA EmptyShape == RegistryInit => RegistryShape
<1> SUFFICES ASSUME RegistryInit PROVE RegistryShape
  OBVIOUS
<1>1. Idle \in [at : Operations, gvr : GVR, handler : Handler \cup {NoHandler},
                informer : Nat]
  BY IdleType, RegistryAssumption DEF CallRecords
<1> QED
  BY <1>1 DEF RegistryInit, RegistryShape, BringsHandler, Idle
=============================================================================
