---------------------------- MODULE BuilderProofs ----------------------------
(***************************************************************************)
(* Theorems about NewResourceGroup, for every ResourceGroup and every      *)
(* order in which its maps can be iterated: what is accepted is sound,     *)
(* what is rejected cannot always be executed, and the order serves the    *)
(* instances.                                                              *)
(*                                                                         *)
(* The graph under construction is an INSTANCE of DAG, so that the         *)
(* invariant of DAGProofs is part of the one below.  A cycle it reports is *)
(* a circle of reads, which no ranking of the resources can respect; an    *)
(* order it returns is such a ranking.                                     *)
(***************************************************************************)
EXTENDS GraphBuilder, FiniteSetTheorems, SequenceTheorems,
        WellFoundedInduction, TLAPS

D == INSTANCE DAGProofs

-----------------------------------------------------------------------------
(***************************************************************************)
(* The inductive invariant.                                                *)
(***************************************************************************)

\* The parts of NewResourceGroup from some point on.
Graphing == {"vertices", "edges", "sort"}
Checking == {"expressions"} \cup Graphing
Built == {"instance"} \cup Checking
Named == {"resources"} \cup Built

\* A status field refers to a resource.
Refers(f) == CanExtract(f.exprs[1], Ids) /\ Extract(f.exprs[1], Ids) # {}

\* What the parts of NewResourceGroup that are done have checked.
CheckedInv ==
    /\ step \in Named => def.kindValid /\ ValidateResourceIDs
    /\ step \in Built => \A r \in Resources : BuildsRGResource(r)
    /\ step \in Checking =>
          /\ def.specValid /\ StatusMayPass
          /\ \A f \in def.status : Refers(f)
    /\ step = "expressions" => \A r \in Resources : r.id \in work \/ MayBeValid(r)
    /\ step \in Graphing => \A r \in Resources : MayBeValid(r)

\* The vertices are the resources that the loop has visited, and the graph
\* changes in its own parts only.
VertexInv ==
    /\ step \notin {"edges", "sort", "done"} =>
          /\ edges = {} /\ pending = <<>> /\ cycle = <<>>
          /\ \A n \in Ids : dependencies[n] = {}
    /\ step \notin {"edges", "sort"} => op = "idle"
    /\ step \notin Graphing \cup {"done"} => vertices = {}
    /\ step = "vertices" => vertices = Ids \ work
    /\ step \in {"edges", "sort"} => vertices = Ids

\* An edge, the one that AddEdge took back included, is a read.
EdgesAreReads ==
    \A m, n \in Node :
        <<m, n>> \in edges \/ pending = <<m, n>> =>
            m \in Ids /\ n \in Reads(Resource(m))

\* The resources that the loop has visited have their edges, except that the
\* current one lacks those that are still to be added.
EdgeInv ==
    step = "edges" =>
        /\ op \in {"idle", "addEdge"}
        /\ current \notin work
        /\ unconnected # {} => current \in Ids
        /\ \A n \in unconnected : n \in Reads(Resource(current))
        /\ \A n \in work : dependencies[n] = {}
        /\ \A n \in Ids \ work : dependencies[n] = Reads(Resource(n))
        /\ cycle = <<>> =>
              \A n \in Ids \ work : \A m \in Reads(Resource(n)) :
                  <<n, m>> \in edges \/ (n = current /\ m \in unconnected)

\* When the graph is complete, the sort is all that is left.
SortInv ==
    step = "sort" =>
        /\ op # "addEdge"
        /\ \A n \in Ids : /\ dependencies[n] = Reads(Resource(n))
                          /\ \A m \in Reads(Resource(n)) : <<n, m>> \in edges
        /\ op = "idle" /\ cycle = <<>> =>
              \A n \in Ids : \E i \in 1..Len(order) : order[i] = n

Core ==
    /\ TypeOK
    /\ def \in Definitions
    /\ outcome # "none" => step = "done"
    /\ D!DAGInv
    /\ CheckedInv /\ VertexInv /\ EdgesAreReads /\ EdgeInv /\ SortInv

BuilderInv ==
    Core /\ AcceptedIsSound /\ RejectedIsNotExecutable /\ OrderFollowsReads

\* The graph of the builder is the one that DAGProofs is about.
LEMMA SameGraph ==
    /\ G!Init <=> D!Init
    /\ G!TypeOK <=> D!TypeOK
    /\ \A n : G!AddVertex(n) <=> D!AddVertex(n)
    /\ \A m, n : G!AddEdge(m, n) <=> D!AddEdge(m, n)
    /\ G!TopologicalSort <=> D!TopologicalSort
    /\ G!Search <=> D!Search
    /\ UNCHANGED dagVars => UNCHANGED D!vars
<1>1. G!Init <=> D!Init
  BY DEF G!Init, D!Init
<1>2. G!TypeOK <=> D!TypeOK
  BY DEF G!TypeOK, D!TypeOK
<1>3. \A n : G!AddVertex(n) <=> D!AddVertex(n)
  BY DEF G!AddVertex, D!AddVertex, G!NoResult, D!NoResult, G!search, D!search
<1>4. \A m, n : G!AddEdge(m, n) <=> D!AddEdge(m, n)
  BY DEF G!AddEdge, D!AddEdge, G!StartSearch, D!StartSearch
<1>5. G!TopologicalSort <=> D!TopologicalSort
  BY DEF G!TopologicalSort, D!TopologicalSort, G!NoResult, D!NoResult,
     G!StartSearch, D!StartSearch
<1>6. G!Search <=> D!Search
  <2>1. (G!Leave <=> D!Leave) /\ (G!SortLeave <=> D!SortLeave)
    BY DEF G!Leave, D!Leave, G!SortLeave, D!SortLeave, G!Searching, D!Searching,
       G!Top, D!Top
  <2>2. (G!NoCycle <=> D!NoCycle) /\ (G!SortDone <=> D!SortDone)
    BY DEF G!NoCycle, D!NoCycle, G!SortDone, D!SortDone, G!Searching,
       D!Searching,
       G!StartSearch, D!StartSearch
  <2>3. \A n : G!VisitRoot(n) <=> D!VisitRoot(n)
    BY DEF G!VisitRoot, D!VisitRoot, G!Searching, D!Searching, G!Enter, D!Enter,
       G!Call, D!Call, G!Edges, D!Edges
  <2>4. \A n : G!VisitNeighbor(n) <=> D!VisitNeighbor(n)
    BY DEF G!VisitNeighbor, D!VisitNeighbor, G!Searching, D!Searching, G!Enter,
       D!Enter, G!Call, D!Call, G!Edges, D!Edges, G!Top, D!Top
  <2>5. \A n : G!PassNeighbor(n) <=> D!PassNeighbor(n)
    BY DEF G!PassNeighbor, D!PassNeighbor, G!Searching, D!Searching, G!Top,
       D!Top
  <2>6. \A n : G!FindCycle(n) <=> D!FindCycle(n)
    BY DEF G!FindCycle, D!FindCycle, G!Searching, D!Searching, G!Top, D!Top,
       G!ClosedBy, D!ClosedBy, G!StartSearch, D!StartSearch
  <2>7. \A n : G!SortRoot(n) <=> D!SortRoot(n)
    BY DEF G!SortRoot, D!SortRoot, G!Call, D!Call, G!Edges, D!Edges
  <2>8. \A n : G!SortNeighbor(n) <=> D!SortNeighbor(n)
    BY DEF G!SortNeighbor, D!SortNeighbor, G!Call, D!Call, G!Edges, D!Edges,
       G!Top, D!Top
  <2> QED
    BY <2>1, <2>2, <2>3, <2>4, <2>5, <2>6, <2>7, <2>8 DEF G!Search, D!Search
<1>7. UNCHANGED dagVars => UNCHANGED D!vars
  BY DEF D!vars, D!search, dagVars
<1> QED
  BY <1>1, <1>2, <1>3, <1>4, <1>5, <1>6, <1>7

\* What DAG assumes about the vertices.
LEMMA NodesAreNumbers == D!NodeAssumption
  BY BuilderAssumption DEF D!NodeAssumption

\* A nonempty set of numbers has a least one.
LEMMA Smallest ==
    ASSUME NEW T, T \subseteq Nat, T # {}
    PROVE  \E x \in T : \A y \in T : x <= y
<1> DEFINE Below == {1..x : x \in T}
<1>1. Below \subseteq FiniteSubsetsOf(Nat) /\ Below # {}
  <2>1. \A x \in T : 1..x \subseteq Nat /\ IsFiniteSet(1..x)
    BY FS_Interval
  <2> QED
    BY <2>1 DEF FiniteSubsetsOf
<1>2. PICK b \in Below : \A c \in Below : <<c, b>> \notin StrictSubsetOrdering(Nat)
  BY <1>1, FS_StrictSubsetOrderingWellFounded, WFMin
<1>3. PICK x \in T : b = 1..x
  OBVIOUS
<1>4. ASSUME NEW y \in T, y < x
      PROVE  FALSE
  <2>1. 1..y \in Below /\ 1..y \subseteq 1..x /\ x \in 1..x /\ x \notin 1..y
    BY <1>4
  <2> QED
    BY <1>1, <1>2, <1>3, <2>1 DEF StrictSubsetOrdering, FiniteSubsetsOf
<1> QED
  BY <1>4

\* The parts of a ResourceGroup are typed, and Resource finds what has an id.
LEMMA DefinitionFacts ==
    ASSUME def \in Definitions
    PROVE  /\ Resources \subseteq ResourceDefs
           /\ Ids \subseteq Node /\ Schema \notin Ids
           /\ \A r \in Resources : r.id \in Ids
           /\ \A n \in Ids : Resource(n) \in Resources /\ Resource(n).id = n
           /\ \A r \in Resources : \A e \in UNION r.fields : e \in Exprs
           /\ \A f \in def.status :
                 /\ IsStatusField(f)
                 /\ f.exprs[1] \in Exprs /\ f.exprs[1] \in ToSet(f.exprs)
<1>1. def.resources \in Seq(ResourceDefs)
  BY DefinitionsAssumption
<1>2. Resources \subseteq ResourceDefs
  BY <1>1 DEF Resources, ToSet
<1>3. Ids \subseteq Node /\ Schema \notin Ids
  BY <1>2, BuilderAssumption DEF Ids, ResourceDefs
<1>4. \A r \in Resources : r.id \in Ids
  BY DEF Ids
<1>5. \A n \in Ids : \E r \in Resources : r.id = n
  BY DEF Ids
<1>6. \A n \in Ids : Resource(n) \in Resources /\ Resource(n).id = n
  BY <1>5 DEF Resource
<1>7. \A r \in Resources : \A e \in UNION r.fields : e \in Exprs
  BY <1>2 DEF ResourceDefs
<1>8. ASSUME NEW f \in def.status
      PROVE  /\ IsStatusField(f)
             /\ f.exprs[1] \in Exprs /\ f.exprs[1] \in ToSet(f.exprs)
  <2>1. IsStatusField(f)
    BY <1>8, DefinitionsAssumption
  <2>2. 1 \in DOMAIN f.exprs /\ f.exprs \in Seq(Exprs)
    BY <2>1 DEF IsStatusField
  <2> QED
    BY <2>1, <2>2 DEF ToSet
<1> QED
  BY <1>2, <1>3, <1>4, <1>6, <1>7, <1>8

\* The ids of the resources are distinct.
Distinct == \A k, l \in 1..Len(def.resources) :
               def.resources[k].id = def.resources[l].id => k = l

\* The resources are as many as their ids if and only if the ids are distinct.
LEMMA IdsCount ==
    ASSUME def \in Definitions
    PROVE  /\ IsFiniteSet(Ids) /\ Cardinality(Ids) \in Nat
           /\ Cardinality(Ids) = Len(def.resources) <=> Distinct
<1> DEFINE N == Len(def.resources)
           id == [k \in 1..N |-> def.resources[k].id]
<1>1. def.resources \in Seq(ResourceDefs)
  BY DefinitionsAssumption
<1>2. N \in Nat /\ DOMAIN def.resources = 1..N
  BY <1>1, LenProperties
<1>3. Ids = {id[k] : k \in 1..N}
  BY <1>2 DEF Ids, Resources, ToSet
<1>4. id \in Surjection(1..N, Ids)
  <2>1. id \in [1..N -> Ids]
    BY <1>3
  <2>2. \A n \in Ids : \E k \in 1..N : id[k] = n
    BY <1>3
  <2> QED
    BY <2>1, <2>2 DEF Surjection
<1>5. IsFiniteSet(1..N) /\ Cardinality(1..N) = N
  BY <1>2, FS_Interval
<1>6. /\ IsFiniteSet(Ids)
      /\ Cardinality(Ids) = N <=> id \in Injection(1..N, Ids)
  BY <1>4, <1>5, FS_Surjection
<1>7. id \in Injection(1..N, Ids) <=> Distinct
  BY <1>3 DEF Injection, IsInjective, Distinct
<1> QED
  BY <1>6, <1>7, FS_CardinalityType

\* Then an id belongs to one resource.
LEMMA ResourceOfId ==
    ASSUME def \in Definitions, Distinct
    PROVE  \A q, r \in Resources : q.id = r.id => q = r
<1>1. def.resources \in Seq(ResourceDefs)
  BY DefinitionsAssumption
<1> QED
  BY <1>1 DEF Resources, ToSet, Distinct

-----------------------------------------------------------------------------
(***************************************************************************)
(* Expressions.                                                            *)
(***************************************************************************)

\* What a dry run can return; what passes compiles, and has all it reads
\* unless it is lazy; what runs whatever the values are is not rejected.
LEMMA DryRunDecides ==
    ASSUME NEW e \in Exprs, NEW declared, NEW context
    PROVE  /\ DryRun(e, declared, context)
                 \subseteq {"bool", "other", "rejected", "panicked"}
           /\ MayPass(DryRun(e, declared, context)) =>
                 /\ CanRun(e, declared)
                 /\ e.lazy \/ CanRun(e, context)
           /\ "bool" \in DryRun(e, declared, context) => "bool" \in e.gives
           /\ Runs(e, declared) /\ Runs(e, context) =>
                 /\ "rejected" \notin DryRun(e, declared, context)
                 /\ e.gives = {"bool"} => "other" \notin DryRun(e, declared, context)
<1> DEFINE R == Results(e, context)
<1>1. e.gives \subseteq {"bool", "other", "fault"} /\ e.gives # {}
  BY DEF Exprs
<1>2. /\ R \subseteq {"bool", "other", "fault"}
      /\ R # {"fault"} /\ R # {} =>
            /\ e.gives # {"fault"}
            /\ e.lazy \/ LooksUp(e.ast) \subseteq context
      /\ "bool" \in R => "bool" \in e.gives
      /\ LooksUp(e.ast) \subseteq context => R = e.gives
  BY <1>1 DEF Results
<1> HIDE DEF R
<1> DEFINE X == {IF x = "fault" THEN "rejected" ELSE x : x \in R}
<1>3. /\ X \subseteq {"bool", "other", "rejected"}
      /\ "bool" \in X => "bool" \in R
      /\ "other" \in X => "other" \in R
      /\ "rejected" \in X => "fault" \in R
  BY <1>2
<1>4. \/ DryRun(e, declared, context) = {"rejected"}
         /\ ~(LooksUp(e.ast) \subseteq declared)
      \/ DryRun(e, declared, context) = {"panicked"}
      \/ DryRun(e, declared, context) = X /\ LooksUp(e.ast) \subseteq declared
  BY DEF DryRun, R
<1> HIDE DEF X
<1>5. CASE DryRun(e, declared, context) = {"rejected"}
           /\ ~(LooksUp(e.ast) \subseteq declared)
  BY <1>5 DEF MayPass, Failures, Runs
<1>6. CASE DryRun(e, declared, context) = {"panicked"}
  BY <1>6 DEF MayPass, Failures, Runs
<1>7. CASE DryRun(e, declared, context) = X /\ LooksUp(e.ast) \subseteq declared
  <2>1. ASSUME MayPass(X)
        PROVE  CanRun(e, declared) /\ (e.lazy \/ CanRun(e, context))
    <3>1. "bool" \in R \/ "other" \in R
      BY <1>3, <2>1 DEF MayPass, Failures
    <3> QED
      BY <1>2, <1>7, <3>1 DEF CanRun
  <2>2. ASSUME Runs(e, context)
        PROVE  /\ "rejected" \notin X
               /\ e.gives = {"bool"} => "other" \notin X
    BY <1>2, <1>3, <2>2 DEF Runs
  <2> QED
    BY <1>2, <1>3, <1>7, <2>1, <2>2
<1> QED
  BY <1>4, <1>5, <1>6, <1>7

\* A condition is rejected if its dry run is, or is not boolean.
LEMMA OnlyBoolDecides ==
    ASSUME NEW results, results \subseteq {"bool", "other", "rejected", "panicked"}
    PROVE  /\ OnlyBool(results) \subseteq {"bool", "rejected", "panicked"}
           /\ MayPass(OnlyBool(results)) => "bool" \in results /\ MayPass(results)
           /\ "rejected" \in OnlyBool(results) =>
                 "rejected" \in results \/ "other" \in results
  BY DEF OnlyBool, MayPass, Failures

\* The fields of a validated resource compile with all names, and have what
\* they read unless they are lazy; its conditions can be boolean if it has
\* fields.
LEMMA ValidatedRuns ==
    ASSUME def \in Definitions, NEW r \in Resources, MayBeValid(r)
    PROVE  /\ \A e \in UNION r.fields :
                 /\ CanRun(e, Ids \cup {Schema})
                 /\ e.lazy \/ CanRun(e, (Ids \ {r.id}) \cup {Schema})
           /\ r.fields # {} =>
                 /\ \A e \in r.readyWhen : CanRun(e, {r.id}) /\ "bool" \in e.gives
                 /\ \A e \in r.includeWhen :
                       /\ CanRun(e, IF e.lazy THEN Ids \cup {Schema} ELSE {Schema})
                       /\ "bool" \in e.gives
<1>1. /\ \A e \in UNION r.fields : e \in Exprs
      /\ \A e \in r.readyWhen \cup r.includeWhen : e \in Exprs
  BY DefinitionFacts DEF ResourceDefs
<1>2. ASSUME NEW e \in UNION r.fields
      PROVE  /\ CanRun(e, Ids \cup {Schema})
             /\ e.lazy \/ CanRun(e, (Ids \ {r.id}) \cup {Schema})
  <2>1. MayPass(DryRunField(r, e))
    BY DEF MayBeValid, FieldMayPass
  <2> QED
    BY <1>1, <2>1, DryRunDecides DEF DryRunField
<1>3. ASSUME r.fields # {}, NEW e \in r.readyWhen
      PROVE  CanRun(e, {r.id}) /\ "bool" \in e.gives
  <2>1. MayPass(OnlyBool(DryRun(e, {r.id}, {r.id})))
    BY <1>3 DEF MayBeValid, DryRunReadyWhen
  <2>2. /\ MayPass(DryRun(e, {r.id}, {r.id}))
        /\ "bool" \in DryRun(e, {r.id}, {r.id})
    BY <1>1, <2>1, DryRunDecides, OnlyBoolDecides
  <2> QED
    BY <1>1, <2>2, DryRunDecides
<1>4. ASSUME r.fields # {}, NEW e \in r.includeWhen
      PROVE  /\ CanRun(e, IF e.lazy THEN Ids \cup {Schema} ELSE {Schema})
             /\ "bool" \in e.gives
  <2>1. MayPass(OnlyBool(DryRun(e, Ids \cup {Schema}, {Schema})))
    BY <1>4 DEF MayBeValid, DryRunIncludeWhen
  <2>2. /\ MayPass(DryRun(e, Ids \cup {Schema}, {Schema}))
        /\ "bool" \in DryRun(e, Ids \cup {Schema}, {Schema})
    BY <1>1, <2>1, DryRunDecides, OnlyBoolDecides
  <2> QED
    BY <1>1, <2>2, DryRunDecides
<1> QED
  BY <1>2, <1>3, <1>4

\* A resource reads n if an expression in its fields does.
LEMMA ReadsWhat ==
    ASSUME NEW r, NEW n
    PROVE  n \in Reads(r) <=>
              n # Schema /\ \E e \in UNION r.fields : n \in LooksUp(e.ast)
<1> DEFINE L == {LooksUp(e.ast) : e \in UNION r.fields}
<1>1. n \in UNION L <=> \E e \in UNION r.fields : n \in LooksUp(e.ast)
  <2>1. ASSUME n \in UNION L PROVE \E e \in UNION r.fields : n \in LooksUp(e.ast)
    BY <2>1, Zenon
  <2>2. ASSUME NEW e \in UNION r.fields, n \in LooksUp(e.ast) PROVE n \in UNION L
    BY <2>2, Zenon
  <2> QED
    BY <2>1, <2>2
<1>2. \A S : n \in S \ {Schema} <=> n # Schema /\ n \in S
  OBVIOUS
<1>3. n \in (UNION L) \ {Schema} <=> n # Schema /\ n \in UNION L
  BY <1>2, Zenon
<1> QED
  BY <1>1, <1>3, Zenon DEF Reads

\* A validated resource reads resources of the ResourceGroup.
LEMMA ReadsResources ==
    ASSUME def \in Definitions, NEW r \in Resources, MayBeValid(r)
    PROVE  Reads(r) \subseteq Ids
<1>1. \A e \in UNION r.fields : LooksUp(e.ast) \subseteq Ids \cup {Schema}
  BY ValidatedRuns DEF CanRun
<1> QED
  BY <1>1, ReadsWhat

\* What is extracted from the fields of a validated resource is what they
\* read, and nothing is refused but what the inspector refuses.
LEMMA ExtractsReads ==
    ASSUME def \in Definitions, NEW r \in Resources, MayBeValid(r)
    PROVE  /\ \A e \in UNION r.fields :
                 e.ast \notin Refused => CanExtract(e, FieldNames)
           /\ (\A e \in UNION r.fields : CanExtract(e, FieldNames)) =>
                 ExtractDependencies(r) = Reads(r)
<1>1. FieldNames \in SUBSET (Node \cup {Schema})
  BY DefinitionFacts DEF FieldNames
<1>2. ASSUME NEW e \in UNION r.fields
      PROVE  /\ e.ast \notin Refused => CanExtract(e, FieldNames)
             /\ CanExtract(e, FieldNames) =>
                   Extract(e, FieldNames) = LooksUp(e.ast) \ {Schema}
  <2>1. e \in Exprs
    BY DefinitionFacts
  <2>2. LooksUp(e.ast) \subseteq FieldNames
    BY ValidatedRuns DEF CanRun, FieldNames
  <2> QED
    BY <1>1, <2>1, <2>2, InspectorAssumption
<1>3. ASSUME \A e \in UNION r.fields : CanExtract(e, FieldNames)
      PROVE  ExtractDependencies(r) = Reads(r)
  <2>1. \A e \in UNION r.fields : Extract(e, FieldNames) = LooksUp(e.ast) \ {Schema}
    BY <1>2, <1>3
  <2> SUFFICES ASSUME NEW n
               PROVE  n \in ExtractDependencies(r) <=> n \in Reads(r)
    BY Zenon
  <2>2. n \in ExtractDependencies(r) <=>
           \E e \in UNION r.fields : n \in Extract(e, FieldNames)
    <3>1. ASSUME n \in ExtractDependencies(r)
          PROVE  \E e \in UNION r.fields : n \in Extract(e, FieldNames)
      BY <3>1, Zenon DEF ExtractDependencies
    <3>2. ASSUME NEW e \in UNION r.fields, n \in Extract(e, FieldNames)
          PROVE  n \in ExtractDependencies(r)
      BY <3>2, Zenon DEF ExtractDependencies
    <3> QED
      BY <3>1, <3>2
  <2> QED
    BY <2>1, <2>2, ReadsWhat
<1> QED
  BY <1>2, <1>3

\* The same for the status: what is extracted from a status field is what it
\* looks up.
LEMMA ExtractsStatus ==
    ASSUME def \in Definitions, NEW f \in def.status,
           LooksUp(f.exprs[1].ast) \subseteq Ids
    PROVE  /\ f.exprs[1].ast \notin Refused => CanExtract(f.exprs[1], Ids)
           /\ CanExtract(f.exprs[1], Ids) =>
                 Extract(f.exprs[1], Ids) = LooksUp(f.exprs[1].ast)
<1>1. /\ f.exprs[1] \in Exprs /\ Ids \in SUBSET (Node \cup {Schema})
      /\ Schema \notin Ids
  BY DefinitionFacts
<1> QED
  BY <1>1, InspectorAssumption

-----------------------------------------------------------------------------
(***************************************************************************)
(* What is accepted and what is rejected.                                  *)
(***************************************************************************)

\* A graph whose edges decrease a number has no cycle.
LEMMA RankedIsAcyclic ==
    ASSUME NEW V, NEW E, NEW rank \in [V -> Nat],
           \A m, n \in V : <<m, n>> \in E => rank[n] < rank[m]
    PROVE  D!AcyclicOn(V, E)
<1> SUFFICES ASSUME NEW S \in SUBSET V, S # {}
             PROVE  \E n \in S : \A m \in S : <<n, m>> \notin E
  BY DEF D!AcyclicOn
<1> DEFINE T == {rank[n] : n \in S}
<1>1. T \subseteq Nat /\ T # {}
  OBVIOUS
<1>2. PICK x \in T : \A y \in T : x <= y
  BY <1>1, Smallest
<1>3. PICK n \in S : x = rank[n]
  OBVIOUS
<1>4. \A m \in S : rank[n] <= rank[m]
  BY <1>2, <1>3
<1>5. ASSUME NEW m \in S, <<n, m>> \in E
      PROVE  FALSE
  <2>1. rank[m] < rank[n] /\ rank[n] <= rank[m] /\ rank[m] \in Nat /\ rank[n] \in Nat
    BY <1>4, <1>5
  <2> QED
    BY <2>1
<1> QED
  BY <1>5

\* Resources that read each other in a circle cannot be executed.
LEMMA CycleIsNotExecutable ==
    ASSUME Core, step \in {"edges", "sort"}, cycle # <<>>, Executable
    PROVE  FALSE
<1>1. PICK rank \in [Ids -> 1..Cardinality(Ids)] :
          \A r \in Resources : \A n \in Reads(r) : rank[n] < rank[r.id]
  BY DEF Executable, Ranked
<1>2. Cardinality(Ids) \in Nat
  BY IdsCount DEF Core
<1>3. rank \in [Ids -> Nat]
  BY <1>1, <1>2
<1> DEFINE E == {p \in Ids \X Ids : p[2] \in Reads(Resource(p[1]))}
<1>4. \A m, n \in Ids : <<m, n>> \in E <=> n \in Reads(Resource(m))
  OBVIOUS
<1> HIDE DEF E
<1>5. \A m, n \in Ids : <<m, n>> \in E => rank[n] < rank[m]
  BY <1>1, <1>4, DefinitionFacts DEF Core
<1>6. D!AcyclicOn(Ids, E)
  BY <1>3, <1>5, RankedIsAcyclic
<1>7. cycle \in Seq(Ids)
  BY DEF Core, VertexInv, D!DAGInv, D!TypeOK
<1> DEFINE L == Len(cycle)
<1>8. /\ L \in Nat /\ L > 2
      /\ cycle[1] = cycle[L]
      /\ \A k \in 1..(L - 1) : <<cycle[k], cycle[k + 1]>> \in edges \cup {pending}
  BY <1>7, LenProperties DEF Core, D!DAGInv, D!ReportedCycle
<1>9. ASSUME NEW k \in 1..(L - 1)
      PROVE  <<cycle[k], cycle[k + 1]>> \in E
  <2>1. k \in 1..L /\ k + 1 \in 1..L
    BY <1>8
  <2>2. cycle[k] \in Ids /\ cycle[k + 1] \in Ids
    BY <1>7, <2>1
  <2>3. cycle[k] \in Node /\ cycle[k + 1] \in Node
    BY <2>2, DefinitionFacts DEF Core
  <2>4. <<cycle[k], cycle[k + 1]>> \in edges \/ pending = <<cycle[k], cycle[k + 1]>>
    BY <1>8
  <2>5. cycle[k + 1] \in Reads(Resource(cycle[k]))
    BY <2>3, <2>4 DEF Core, EdgesAreReads
  <2> QED
    BY <1>4, <2>2, <2>5
<1>10. <<cycle[L], cycle[2]>> \in E
  <2>1. 1 \in 1..(L - 1) /\ 1 + 1 = 2
    BY <1>8
  <2> QED
    BY <1>8, <1>9, <2>1
<1>11. 2 \in 1..L
  BY <1>8
<1>12. \A k \in 2..(L - 1) : <<cycle[k], cycle[k + 1]>> \in E
  <2>1. \A k \in 2..(L - 1) : k \in 1..(L - 1)
    BY <1>8
  <2> QED
    BY <1>9, <2>1
<1>13. ~D!AcyclicOn(Ids, E)
  BY <1>7, <1>10, <1>11, <1>12, NodesAreNumbers, D!BackEdge
<1> QED
  BY <1>6, <1>13

\* The order that TopologicalSort returned.
LEMMA SortedOrder ==
    ASSUME Core, step = "sort", op = "idle", cycle = <<>>
    PROVE  /\ order \in Bijection(1..Cardinality(Ids), Ids)
           /\ Len(order) = Cardinality(Ids) /\ Len(order) \in Nat
           /\ \A r \in Resources : /\ Resource(r.id) = r
                                   /\ dependencies[r.id] = Reads(r)
                                   /\ Reads(r) \subseteq Ids
           /\ \A k, l \in 1..Len(order) :
                 order[l] \in Reads(Resource(order[k])) => l < k
<1>1. vertices = Ids /\ order \in Seq(Ids)
  BY DEF Core, VertexInv, D!DAGInv, D!TypeOK
<1>2. Len(order) \in Nat /\ order \in [1..Len(order) -> Ids]
  BY <1>1, LenProperties
<1>3. \A k, l \in 1..Len(order) : order[k] = order[l] => k = l
  BY DEF Core, D!DAGInv, D!OrderInv
<1>4. \A n \in Ids : \E k \in 1..Len(order) : order[k] = n
  BY DEF Core, SortInv
<1>5. order \in Bijection(1..Len(order), Ids)
  BY <1>2, <1>3, <1>4 DEF Bijection, Injection, Surjection, IsInjective
<1>6. Len(order) = Cardinality(Ids)
  BY <1>2, <1>5, FS_CountingElements DEF ExistsBijection
<1>7. ASSUME NEW r \in Resources
      PROVE  /\ Resource(r.id) = r
             /\ dependencies[r.id] = Reads(r)
             /\ Reads(r) \subseteq Ids
  <2>1. Distinct
    BY DEF Core, CheckedInv, Named, Built, Checking, Graphing,
       ValidateResourceIDs,
       Distinct
  <2>2. r.id \in Ids /\ Resource(r.id) \in Resources /\ Resource(r.id).id = r.id
    BY DefinitionFacts DEF Core
  <2>3. Resource(r.id) = r
    BY <2>1, <2>2, ResourceOfId DEF Core
  <2>4. dependencies[r.id] = Reads(r) /\ \A m \in Reads(r) : <<r.id, m>> \in edges
    BY <2>2, <2>3 DEF Core, SortInv
  <2>5. edges \subseteq vertices \X vertices
    BY DEF Core, D!DAGInv, D!TypeOK
  <2> QED
    BY <1>1, <2>3, <2>4, <2>5
<1>8. ASSUME NEW k \in 1..Len(order), NEW l \in 1..Len(order),
             order[l] \in Reads(Resource(order[k]))
      PROVE  l < k
  <2>1. order[k] \in Ids /\ order[l] \in Ids
    BY <1>2
  <2>2. order[l] \in D!Edges(order[k])
    BY <1>1, <1>8, <2>1 DEF Core, SortInv, D!Edges
  <2>3. PICK m \in 1..(k - 1) : order[m] = order[l]
    BY <2>2 DEF Core, D!DAGInv, D!OrderInv
  <2>4. m \in 1..Len(order) /\ m < k
    BY <1>2
  <2> QED
    BY <1>3, <2>3, <2>4
<1> QED
  BY <1>2, <1>5, <1>6, <1>7, <1>8

\* The position in the order is a rank.
LEMMA RankExists ==
    ASSUME Core, step = "sort", op = "idle", cycle = <<>>
    PROVE  Ranked
<1> DEFINE N == Cardinality(Ids)
           rank == [n \in Ids |-> CHOOSE k \in 1..N : order[k] = n]
<1>1. \A n \in Ids : \E k \in 1..N : order[k] = n
  BY SortedOrder DEF Bijection, Surjection
<1>2. \A n \in Ids : rank[n] \in 1..N /\ order[rank[n]] = n
  BY <1>1
<1>3. rank \in [Ids -> 1..N]
  BY <1>2
<1> HIDE DEF rank
<1>4. ASSUME NEW r \in Resources, NEW n \in Reads(r)
      PROVE  rank[n] < rank[r.id]
  <2>1. r.id \in Ids /\ Resource(r.id) = r
    BY SortedOrder, DefinitionFacts DEF Core
  <2>2. n \in Ids
    BY ReadsResources DEF Core, CheckedInv, Graphing
  <2>3. order[rank[n]] \in Reads(Resource(order[rank[r.id]]))
    BY <1>2, <1>4, <2>1, <2>2
  <2> QED
    BY <1>2, <2>1, <2>2, <2>3, SortedOrder
<1> QED
  BY <1>3, <1>4 DEF Ranked

\* Ranked resources do not read themselves.
LEMMA RankedReadsOthers ==
    ASSUME def \in Definitions, Ranked, NEW r \in Resources
    PROVE  r.id \notin Reads(r)
<1>1. PICK rank \in [Ids -> 1..Cardinality(Ids)] :
          \A q \in Resources : \A n \in Reads(q) : rank[n] < rank[q.id]
  BY DEF Ranked
<1>2. Cardinality(Ids) \in Nat /\ r.id \in Ids
  BY IdsCount, DefinitionFacts
<1>3. rank[r.id] \in Int
  BY <1>1, <1>2
<1> QED
  BY <1>1, <1>3

\* What has passed every check is sound.
LEMMA CheckedIsSound ==
    ASSUME Core, step = "sort", op = "idle", cycle = <<>>
    PROVE  /\ NamesValid
           /\ \A r \in Resources : Sound(r)
           /\ \A f \in def.status : /\ \A e \in ToSet(f.exprs) : CanRun(e, Ids)
                                    /\ LooksUp(f.exprs[1].ast) # {}
           /\ Ranked
<1>1. /\ def \in Definitions /\ def.kindValid /\ def.specValid
      /\ ValidateResourceIDs /\ StatusMayPass
      /\ \A f \in def.status : Refers(f)
      /\ \A r \in Resources : BuildsRGResource(r) /\ MayBeValid(r)
  BY DEF Core, CheckedInv, Named, Built, Checking, Graphing
<1>2. NamesValid
  BY <1>1, IdsCount DEF NamesValid, ValidateResourceIDs, Distinct
<1>3. Ranked
  BY RankExists
<1>4. ASSUME NEW r \in Resources
      PROVE  Sound(r)
  <2>1. ASSUME NEW e \in UNION r.fields
        PROVE  CanRun(e, (Ids \ {r.id}) \cup {Schema})
    <3>1. CanRun(e, Ids \cup {Schema})
      BY <1>1, ValidatedRuns
    <3>2. r.id \notin Reads(r) /\ r.id # Schema
      BY <1>1, <1>3, RankedReadsOthers, DefinitionFacts
    <3>3. r.id \notin LooksUp(e.ast)
      BY <3>2, ReadsWhat
    <3> QED
      BY <3>1, <3>3 DEF CanRun
  <2>2. BuildsRGResource(r)
    BY <1>1
  <2> QED
    BY <1>1, <2>1, <2>2, ValidatedRuns DEF Sound
<1>5. ASSUME NEW f \in def.status
      PROVE  /\ \A e \in ToSet(f.exprs) : CanRun(e, Ids)
             /\ LooksUp(f.exprs[1].ast) # {}
  <2>1. f.exprs \in Seq(Exprs) /\ f.exprs[1] \in ToSet(f.exprs)
    BY <1>1, DefinitionFacts DEF IsStatusField
  <2>2. ASSUME NEW e \in ToSet(f.exprs)
        PROVE  CanRun(e, Ids)
    <3>1. e \in StatusExprs
      BY <2>2, Zenon DEF StatusExprs
    <3>2. e \in Exprs
      BY <2>1 DEF ToSet
    <3>3. MayPass(DryRun(e, Ids, Ids))
      BY <1>1, <3>1 DEF StatusMayPass
    <3> QED
      BY <3>2, <3>3, DryRunDecides
  <2>3. LooksUp(f.exprs[1].ast) \subseteq Ids
    BY <2>1, <2>2 DEF CanRun
  <2>4. Refers(f)
    BY <1>1
  <2>5. LooksUp(f.exprs[1].ast) # {}
    BY <1>1, <2>3, <2>4, ExtractsStatus DEF Refers
  <2> QED
    BY <2>2, <2>5
<1> QED
  BY <1>2, <1>3, <1>4, <1>5

\* Each way to be rejected, for a ResourceGroup that could be executed: names,
LEMMA NamesRejected ==
    ASSUME def \in Definitions, ~(def.kindValid /\ ValidateResourceIDs)
    PROVE  ~Executable
  BY IdsCount DEF Executable, NamesValid, ValidateResourceIDs, Distinct

\* status expressions that do not always run, or several in one field,
LEMMA StatusRejected ==
    ASSUME def \in Definitions, "rejected" \in StatusOutcomes
    PROVE  ~Executable
<1> SUFFICES ASSUME Executable PROVE FALSE
  OBVIOUS
<1>1. \A f \in def.status : Len(f.exprs) = 1 /\ Runs(f.exprs[1], Ids)
  BY DEF Executable
<1>2. "rejected" \in UNION {DryRun(e, Ids, Ids) : e \in StatusExprs}
  <2> DEFINE U == UNION {DryRun(e, Ids, Ids) : e \in StatusExprs}
  <2>1. ~\E f \in def.status : Len(f.exprs) > 1
    <3>1. ~(1 > 1)
      OBVIOUS
    <3> QED
      BY <1>1, <3>1, Zenon
  <2>2. StatusOutcomes = (Failures \cap U) \cup {}
    BY <2>1, Zenon DEF StatusOutcomes
  <2> HIDE DEF U
  <2>3. "rejected" \in U
    BY <2>2
  <2> QED
    BY <2>3 DEF U
<1>3. PICK e \in StatusExprs : "rejected" \in DryRun(e, Ids, Ids)
  BY <1>2, Zenon
<1>4. PICK f \in def.status : e \in ToSet(f.exprs)
  BY Zenon DEF StatusExprs
<1>5. f.exprs \in Seq(Exprs) /\ Len(f.exprs) = 1
  BY <1>1, DefinitionFacts DEF IsStatusField
<1>6. e = f.exprs[1] /\ e \in Exprs
  BY <1>4, <1>5 DEF ToSet
<1> QED
  BY <1>1, <1>3, <1>6, DryRunDecides

\* status fields that refer to no resource,
LEMMA InstanceRejected ==
    ASSUME def \in Definitions, NEW f \in def.status, ~Refers(f)
    PROVE  ~Executable \/ HasRefused
<1> SUFFICES ASSUME Executable, ~HasRefused PROVE FALSE
  OBVIOUS
<1>1. LooksUp(f.exprs[1].ast) \subseteq Ids /\ LooksUp(f.exprs[1].ast) # {}
  BY DEF Executable, Runs
<1>2. f.exprs[1].ast \notin Refused
  BY DEF HasRefused
<1> QED
  BY <1>1, <1>2, ExtractsStatus DEF Refers

\* fields and conditions that do not always run,
LEMMA ValidationRejected ==
    ASSUME def \in Definitions, NEW r \in Resources,
           "rejected" \in ValidationOutcomes(r)
    PROVE  ~Executable
<1> SUFFICES ASSUME Executable PROVE FALSE
  OBVIOUS
<1>1. /\ \A e \in UNION r.fields : Runs(e, (Ids \ {r.id}) \cup {Schema})
      /\ \A e \in r.readyWhen : Runs(e, {r.id}) /\ e.gives = {"bool"}
      /\ \A e \in r.includeWhen : Runs(e, {Schema}) /\ e.gives = {"bool"}
  BY DEF Executable
<1>2. /\ \A e \in UNION r.fields : e \in Exprs
      /\ \A e \in r.readyWhen \cup r.includeWhen : e \in Exprs
  BY DefinitionFacts DEF ResourceDefs
<1>3. ASSUME NEW e \in UNION r.fields
      PROVE  "rejected" \notin DryRunField(r, e)
  <2>1. Runs(e, (Ids \ {r.id}) \cup {Schema}) /\ Runs(e, Ids \cup {Schema})
    BY <1>1 DEF Runs
  <2> QED
    BY <1>2, <2>1, DryRunDecides DEF DryRunField
<1>4. ASSUME NEW e \in r.readyWhen
      PROVE  "rejected" \notin DryRunReadyWhen(r, e)
  <2>1. Runs(e, {r.id}) /\ e.gives = {"bool"} /\ e \in Exprs
    BY <1>1, <1>2
  <2>2. DryRun(e, {r.id}, {r.id}) \subseteq {"bool", "panicked"}
    BY <2>1, DryRunDecides
  <2> QED
    BY <2>2, OnlyBoolDecides DEF DryRunReadyWhen
<1>5. ASSUME NEW e \in r.includeWhen
      PROVE  "rejected" \notin DryRunIncludeWhen(r, e)
  <2>1. /\ Runs(e, {Schema}) /\ Runs(e, Ids \cup {Schema})
        /\ e.gives = {"bool"} /\ e \in Exprs
    BY <1>1, <1>2 DEF Runs
  <2>2. DryRun(e, Ids \cup {Schema}, {Schema}) \subseteq {"bool", "panicked"}
    BY <2>1, DryRunDecides
  <2> QED
    BY <2>2, OnlyBoolDecides DEF DryRunIncludeWhen
<1>6. PICK S : /\ "rejected" \in S
               /\ \/ \E e \in UNION r.fields : S = DryRunField(r, e)
                  \/ \E e \in r.readyWhen : S = DryRunReadyWhen(r, e)
                  \/ \E e \in r.includeWhen : S = DryRunIncludeWhen(r, e)
  BY Zenon DEF ValidationOutcomes
<1> QED
  BY <1>3, <1>4, <1>5, <1>6

\* fields that the inspector refuses.
LEMMA InspectionRejected ==
    ASSUME def \in Definitions, NEW r \in Resources, MayBeValid(r),
           ~\A e \in UNION r.fields : CanExtract(e, FieldNames)
    PROVE  HasRefused
  BY ExtractsReads DEF HasRefused

-----------------------------------------------------------------------------
(***************************************************************************)
(* Steps.                                                                  *)
(***************************************************************************)

\* NewResourceGroup does not change the ResourceGroup, nor what it says.
LEMMA SameDefinition ==
    ASSUME def' = def
    PROVE  /\ Resources' = Resources /\ Ids' = Ids
           /\ (\A n : Resource(n)' = Resource(n))
           /\ StatusMayPass' <=> StatusMayPass
           /\ (\A f : Refers(f)' <=> Refers(f))
           /\ ValidateResourceIDs' <=> ValidateResourceIDs
           /\ (\A r : MayBeValid(r)' <=> MayBeValid(r))
           /\ Executable' <=> Executable
           /\ NamesValid' <=> NamesValid
           /\ Ranked' <=> Ranked
           /\ (\A r : Sound(r)' <=> Sound(r))
           /\ HasRefused' <=> HasRefused
<1>1. Resources' = Resources /\ Ids' = Ids
  BY DEF Resources, Ids
<1>2. \A n : Resource(n)' = Resource(n)
  BY <1>1 DEF Resource
<1>3. \A e, d, c : DryRun(e, d, c)' = DryRun(e, d, c)
  BY <1>1 DEF DryRun
<1>4. (StatusMayPass' <=> StatusMayPass) /\ (\A f : Refers(f)' <=> Refers(f))
  BY <1>1, <1>3 DEF StatusMayPass, StatusExprs, Refers
<1>5. ValidateResourceIDs' <=> ValidateResourceIDs
  BY <1>1 DEF ValidateResourceIDs
<1>6. \A r : MayBeValid(r)' <=> MayBeValid(r)
  BY <1>1, <1>3 DEF MayBeValid, FieldMayPass, DryRunField, DryRunReadyWhen,
     DryRunIncludeWhen
<1>7. (NamesValid' <=> NamesValid) /\ (Ranked' <=> Ranked)
  BY <1>1 DEF NamesValid, Ranked, Reads
<1>8. Executable' <=> Executable
  BY <1>1, <1>7 DEF Executable, Runs, BuildsRGResource
<1>9. \A r : Sound(r)' <=> Sound(r)
  BY <1>1 DEF Sound, CanRun, BuildsRGResource
<1>10. HasRefused' <=> HasRefused
  BY <1>1 DEF HasRefused
<1> QED
  BY <1>1, <1>2, <1>4, <1>5, <1>6, <1>7, <1>8, <1>9, <1>10

Steps == {"names", "resources", "instance", "parsing", "expressions",
          "vertices", "edges", "sort", "done"}
Outcomes == {"none", "accepted", "rejected", "unavailable", "panicked"}

\* A step whose new values are typed.
LEMMA TypesKept ==
    ASSUME def \in Definitions, def' = def, D!DAGInv', step' \in Steps,
           work' \subseteq Ids, current' \in Ids \cup {Schema},
           unconnected' \subseteq Ids, dependencies' \in [Node -> SUBSET Ids],
           outcome' \in Outcomes
    PROVE  TypeOK'
<1>1. G!TypeOK'
  BY SameGraph DEF D!DAGInv, G!TypeOK, D!TypeOK
<1>2. Resources' \subseteq ResourceDefs
  BY DefinitionFacts, SameDefinition
<1>3. \A f \in def'.status : IsStatusField(f)
  BY DefinitionFacts
<1>4. Ids' = Ids
  BY SameDefinition
<1> QED
  BY <1>1, <1>2, <1>3, <1>4 DEF TypeOK, Steps, Outcomes

\* A step that leaves the graph alone.
LEMMA GraphKept ==
    ASSUME Core, def' = def, UNCHANGED dagVars
    PROVE  D!DAGInv' /\ EdgesAreReads'
<1>1. D!DAGInv'
  BY SameGraph, NodesAreNumbers, D!StutterKeeps DEF Core
<1>2. EdgesAreReads'
  BY SameDefinition DEF Core, EdgesAreReads, dagVars, Reads
<1> QED
  BY <1>1, <1>2

\* The end of NewResourceGroup.
LEMMA EndKeeps ==
    ASSUME Core, NEW o \in Outcomes, End(o), UNCHANGED dagVars, op = "idle"
    PROVE  Core'
<1>1. def' = def /\ step' = "done" /\ outcome' = o /\ op' = "idle"
  BY DEF End, dagVars
<1>2. D!DAGInv' /\ EdgesAreReads'
  BY <1>1, GraphKept
<1>3. TypeOK'
  BY <1>1, <1>2, TypesKept DEF End, loopVars, Core, TypeOK, Steps
<1>4. CheckedInv' /\ VertexInv' /\ EdgeInv' /\ SortInv'
  BY <1>1 DEF CheckedInv, VertexInv, EdgeInv, SortInv, Named, Built, Checking,
     Graphing
<1> QED
  BY <1>1, <1>2, <1>3, <1>4 DEF Core

\* The names, the resources and the instance are checked before the graph is
\* begun.
LEMMA GotoKeeps ==
    ASSUME Core, UNCHANGED dagVars,
           \/ /\ step = "names" /\ Goto("resources")
              /\ def.kindValid /\ ValidateResourceIDs
           \/ /\ step = "resources" /\ Goto("instance")
              /\ \A r \in Resources : BuildsRGResource(r)
           \/ step = "instance" /\ Goto("parsing")
    PROVE  Core'
<1>1. /\ def' = def /\ step' \in {"resources", "instance", "parsing"}
      /\ step \in {"names", "resources", "instance"}
      /\ work' = work /\ current' = current /\ unconnected' = unconnected
      /\ dependencies' = dependencies /\ outcome' = outcome
      /\ edges' = edges /\ pending' = pending /\ cycle' = cycle /\ op' = op
      /\ vertices' = vertices
  BY DEF Goto, loopVars, dagVars
<1>2. D!DAGInv' /\ EdgesAreReads'
  BY <1>1, GraphKept
<1>3. TypeOK'
  BY <1>1, <1>2, TypesKept DEF Core, TypeOK, Steps, Outcomes
<1>4. CheckedInv'
  BY <1>1, SameDefinition DEF Goto, Core, CheckedInv, Named, Built, Checking,
     Graphing, BuildsRGResource
<1>5. VertexInv'
  BY <1>1, SameDefinition DEF Core, VertexInv, Graphing
<1>6. EdgeInv' /\ SortInv' /\ (outcome' # "none" => step' = "done")
  BY <1>1 DEF Core, EdgeInv, SortInv
<1> QED
  BY <1>1, <1>2, <1>3, <1>4, <1>5, <1>6 DEF Core

\* The loops over the resources start.
LEMMA LoopKeeps ==
    ASSUME Core, UNCHANGED dagVars,
           \/ /\ step = "instance" /\ LoopIn("expressions")
              /\ def.specValid /\ StatusMayPass
              /\ \A f \in def.status : Refers(f)
           \/ step = "expressions" /\ work = {} /\ LoopIn("vertices")
           \/ step = "vertices" /\ work = {} /\ LoopIn("edges")
    PROVE  Core'
<1>1. /\ def' = def /\ work' = Ids /\ current' = Schema /\ unconnected' = {}
      /\ dependencies' = dependencies /\ outcome' = outcome
      /\ edges' = edges /\ pending' = pending /\ cycle' = cycle /\ op' = op
      /\ vertices' = vertices /\ order' = order
      /\ step # "done" /\ op = "idle" /\ edges = {} /\ pending = <<>> /\ cycle = <<>>
      /\ \A n \in Ids : dependencies[n] = {}
      /\ \/ step = "instance" /\ step' = "expressions"
         \/ step = "expressions" /\ step' = "vertices"
         \/ step = "vertices" /\ step' = "edges"
  BY DEF LoopIn, dagVars, Core, VertexInv
<1>2. D!DAGInv' /\ EdgesAreReads'
  BY <1>1, GraphKept
<1>3. TypeOK'
  BY <1>1, <1>2, TypesKept DEF Core, TypeOK, Steps, Outcomes
<1>4. CheckedInv'
  BY <1>1, SameDefinition, DefinitionFacts DEF Core, CheckedInv, Named, Built,
     Checking, Graphing, BuildsRGResource
<1>5. VertexInv'
  BY <1>1, SameDefinition DEF Core, VertexInv, Graphing
<1>6. EdgeInv'
  BY <1>1, SameDefinition, DefinitionFacts DEF Core, EdgeInv
<1>7. SortInv' /\ (outcome' # "none" => step' = "done")
  BY <1>1 DEF Core, SortInv
<1> QED
  BY <1>1, <1>2, <1>3, <1>4, <1>5, <1>6, <1>7 DEF Core

\* A resource is validated.
LEMMA ValidateKeeps ==
    ASSUME Core, NEW n \in Node, ValidateResource(n)
    PROVE  Core'
<1>1. /\ def' = def /\ work' = work \ {n} /\ step = "expressions" /\ step' = step
      /\ current' = current /\ unconnected' = unconnected
      /\ dependencies' = dependencies /\ outcome' = outcome
      /\ UNCHANGED dagVars /\ n \in work /\ MayBeValid(Resource(n))
  BY DEF ValidateResource
<1>2. D!DAGInv' /\ EdgesAreReads'
  BY <1>1, GraphKept
<1>3. TypeOK'
  BY <1>1, <1>2, TypesKept DEF Core, TypeOK, Steps, Outcomes
<1>4. \A r \in Resources : r.id = n => r = Resource(n)
  <2>1. Distinct /\ n \in Ids
    BY <1>1 DEF Core, TypeOK, CheckedInv, Named, Built, Checking,
       ValidateResourceIDs, Distinct
  <2> QED
    BY <2>1, DefinitionFacts, ResourceOfId DEF Core
<1>5. \A r \in Resources : r.id \in work' \/ MayBeValid(r)
  BY <1>1, <1>4 DEF Core, CheckedInv
<1>6. CheckedInv'
  BY <1>1, <1>5, SameDefinition DEF Core, CheckedInv, Named, Built, Checking,
     Graphing, BuildsRGResource
<1>7. VertexInv'
  BY <1>1, SameDefinition DEF Core, VertexInv, Graphing, dagVars
<1>8. EdgeInv' /\ SortInv' /\ (outcome' # "none" => step' = "done")
  BY <1>1 DEF Core, EdgeInv, SortInv
<1> QED
  BY <1>1, <1>2, <1>3, <1>6, <1>7, <1>8 DEF Core

\* A vertex is added.
LEMMA VertexKeeps ==
    ASSUME Core, NEW n \in Node, AddResourceVertex(n)
    PROVE  Core'
<1>1. /\ def' = def /\ work' = work \ {n} /\ step = "vertices" /\ step' = step
      /\ current' = current /\ unconnected' = unconnected
      /\ dependencies' = dependencies /\ outcome' = outcome
      /\ n \in work /\ G!AddVertex(n)
  BY DEF AddResourceVertex
<1>2. /\ vertices' = vertices \cup {n} /\ edges' = edges /\ op' = op
      /\ pending' = <<>> /\ cycle' = <<>>
  BY <1>1 DEF G!AddVertex, G!NoResult
<1>3. D!DAGInv'
  BY <1>1, SameGraph, NodesAreNumbers, D!AddVertexKeeps DEF Core
<1>4. TypeOK'
  BY <1>1, <1>3, TypesKept DEF Core, TypeOK, Steps, Outcomes
<1>5. CheckedInv'
  BY <1>1, SameDefinition DEF Core, CheckedInv, Named, Built, Checking,
     Graphing, BuildsRGResource
<1>6. VertexInv'
  <2>1. vertices = Ids \ work /\ n \in Ids
    BY <1>1 DEF Core, VertexInv, TypeOK
  <2> QED
    BY <1>1, <1>2, <2>1, SameDefinition DEF Core, VertexInv, Graphing
<1>7. EdgesAreReads'
  BY <1>1, <1>2 DEF Core, VertexInv, EdgesAreReads
<1>8. EdgeInv' /\ SortInv' /\ (outcome' # "none" => step' = "done")
  BY <1>1 DEF Core, EdgeInv, SortInv
<1> QED
  BY <1>1, <1>3, <1>4, <1>5, <1>6, <1>7, <1>8 DEF Core

\* The dependencies of the next resource are found.
LEMMA InspectKeeps ==
    ASSUME Core, NEW n \in Node, InspectResource(n)
    PROVE  Core'
<1>1. /\ def' = def /\ work' = work \ {n} /\ step = "edges" /\ step' = step
      /\ op = "idle" /\ cycle = <<>> /\ unconnected = {} /\ n \in work
      /\ current' = n /\ unconnected' = ExtractDependencies(Resource(n))
      /\ dependencies' = [dependencies EXCEPT ![n] =
                             @ \cup ExtractDependencies(Resource(n))]
      /\ outcome' = outcome /\ UNCHANGED dagVars
      /\ \A e \in UNION Resource(n).fields : CanExtract(e, FieldNames)
  BY DEF InspectResource
<1>2. /\ n \in Ids /\ Resource(n) \in Resources /\ Resource(n).id = n
      /\ MayBeValid(Resource(n))
  BY <1>1, DefinitionFacts DEF Core, TypeOK, CheckedInv, Graphing
<1>3. ExtractDependencies(Resource(n)) = Reads(Resource(n))
  BY <1>1, <1>2, ExtractsReads DEF Core
<1>4. Reads(Resource(n)) \subseteq Ids
  BY <1>2, ReadsResources DEF Core
<1>5. dependencies \in [Node -> SUBSET Ids] /\ dependencies[n] = {}
  BY <1>1 DEF Core, TypeOK, EdgeInv
<1>6. dependencies' = [dependencies EXCEPT ![n] = Reads(Resource(n))]
  BY <1>1, <1>3, <1>5
<1>7. dependencies' \in [Node -> SUBSET Ids]
  BY <1>4, <1>5, <1>6
<1>8. D!DAGInv' /\ EdgesAreReads'
  BY <1>1, GraphKept
<1>9. TypeOK'
  BY <1>1, <1>2, <1>3, <1>4, <1>7, <1>8, TypesKept DEF Core, TypeOK, Steps,
     Outcomes
<1>10. CheckedInv'
  BY <1>1, SameDefinition DEF Core, CheckedInv, Named, Built, Checking,
     Graphing, BuildsRGResource
<1>11. VertexInv'
  BY <1>1, SameDefinition DEF Core, VertexInv, Graphing, dagVars
<1>12. EdgeInv'
  <2>1. op' = op /\ cycle' = cycle /\ edges' = edges
    BY <1>1 DEF dagVars
  <2>2. \A m \in work' : dependencies'[m] = {}
    BY <1>1, <1>5, <1>6 DEF Core, TypeOK, EdgeInv
  <2>3. \A m \in Ids \ work' : dependencies'[m] = Reads(Resource(m))
    <3>1. \A m \in Ids \ work : dependencies[m] = Reads(Resource(m))
      BY <1>1 DEF Core, EdgeInv
    <3>2. Ids \subseteq Node
      BY DefinitionFacts DEF Core
    <3> QED
      BY <1>1, <1>5, <1>6, <3>1, <3>2
  <2>4. \A k \in Ids \ work' : \A m \in Reads(Resource(k)) :
           <<k, m>> \in edges \/ (k = n /\ m \in Reads(Resource(n)))
    BY <1>1 DEF Core, EdgeInv
  <2> QED
    BY <1>1, <1>2, <1>3, <2>1, <2>2, <2>3, <2>4, SameDefinition DEF EdgeInv,
       Reads
<1>13. SortInv' /\ (outcome' # "none" => step' = "done")
  BY <1>1 DEF Core, SortInv
<1> QED
  BY <1>1, <1>8, <1>9, <1>10, <1>11, <1>12, <1>13 DEF Core

\* The dependencies of the current resource are vertices.
LEMMA DependenciesAreVertices ==
    ASSUME Core, step = "edges", NEW n \in unconnected
    PROVE  /\ current \in Ids /\ n \in vertices
           /\ n \in Reads(Resource(current))
<1>1. current \in Ids /\ n \in Reads(Resource(current))
  BY DEF Core, EdgeInv
<1>2. Resource(current) \in Resources /\ MayBeValid(Resource(current))
  BY <1>1, DefinitionFacts DEF Core, CheckedInv, Graphing
<1>3. n \in Ids
  BY <1>1, <1>2, ReadsResources DEF Core
<1> QED
  BY <1>1, <1>3 DEF Core, VertexInv

\* An edge is added, and the search for a cycle starts.
LEMMA EdgeKeeps ==
    ASSUME Core, NEW n \in Node, AddDependencyEdge(n), n # current
    PROVE  Core' /\ def' = def /\ outcome' = outcome
<1>1. step = "edges" /\ op = "idle" /\ cycle = <<>> /\ n \in unconnected
  BY DEF AddDependencyEdge
<1>2. /\ current \in Ids /\ n \in vertices \ {current}
      /\ n \in Reads(Resource(current))
  BY <1>1, DependenciesAreVertices
<1>3. /\ G!AddEdge(current, n) /\ unconnected' = unconnected \ {n}
      /\ def' = def /\ step' = step /\ work' = work /\ current' = current
      /\ dependencies' = dependencies /\ outcome' = outcome
  BY <1>2 DEF AddDependencyEdge
<1>4. /\ edges' = edges \cup {<<current, n>>} /\ pending' = <<current, n>>
      /\ op' = "addEdge" /\ cycle' = <<>> /\ vertices' = vertices
  BY <1>3 DEF G!AddEdge
<1>5. Ids \subseteq Node
  BY DefinitionFacts DEF Core
<1>6. D!DAGInv'
  BY <1>2, <1>3, <1>5, SameGraph, NodesAreNumbers, D!AddEdgeKeeps DEF Core
<1>7. TypeOK'
  BY <1>1, <1>3, <1>6, TypesKept DEF Core, TypeOK, Steps, Outcomes
<1>8. CheckedInv'
  BY <1>1, <1>3, SameDefinition DEF Core, CheckedInv, Named, Built, Checking,
     Graphing, BuildsRGResource
<1>9. VertexInv'
  BY <1>1, <1>3, <1>4, SameDefinition DEF Core, VertexInv, Graphing
<1>10. EdgesAreReads'
  BY <1>2, <1>3, <1>4, SameDefinition DEF Core, EdgesAreReads, Reads
<1>11. EdgeInv'
  BY <1>1, <1>2, <1>3, <1>4, SameDefinition DEF Core, EdgeInv, Reads
<1>12. SortInv' /\ (outcome' # "none" => step' = "done")
  BY <1>1, <1>3 DEF Core, SortInv
<1> QED
  BY <1>3, <1>6, <1>7, <1>8, <1>9, <1>10, <1>11, <1>12 DEF Core

\* A step of a search.
LEMMA SearchKeepsCore ==
    ASSUME Core, SearchGraph
    PROVE  Core' /\ outcome = "none"
<1>1. /\ D!Search
      /\ def' = def /\ step' = step /\ work' = work /\ current' = current
      /\ unconnected' = unconnected /\ dependencies' = dependencies
      /\ outcome' = outcome
  BY SameGraph DEF SearchGraph, loopVars
<1>2. /\ op # "idle"
      /\ vertices' = vertices /\ pending' = pending
      /\ edges' \subseteq edges
      /\ op # "addEdge" \/ cycle' = <<>> => edges' = edges
      /\ op = "addEdge" => op' \in {"idle", "addEdge"}
      /\ op # "addEdge" => op' # "addEdge"
      /\ op # "addEdge" /\ op' = "idle" =>
            \A n \in vertices : \E k \in 1..Len(order') : order'[k] = n
  BY <1>1, NodesAreNumbers, D!SearchEffects DEF Core
<1>3. step \in {"edges", "sort"} /\ vertices = Ids
  BY <1>2 DEF Core, VertexInv
<1>4. D!DAGInv'
  BY <1>1, NodesAreNumbers, D!SearchKeeps DEF Core
<1>5. TypeOK'
  BY <1>1, <1>4, TypesKept DEF Core, TypeOK, Steps, Outcomes
<1>6. CheckedInv'
  BY <1>1, <1>3, SameDefinition DEF Core, CheckedInv, Named, Built, Checking,
     Graphing, BuildsRGResource
<1>7. VertexInv'
  BY <1>1, <1>2, <1>3, SameDefinition DEF VertexInv, Graphing
<1>8. EdgesAreReads'
  BY <1>1, <1>2, SameDefinition DEF Core, EdgesAreReads, Reads
<1>9. EdgeInv'
  <2>1. op # "idle" => cycle = <<>>
    BY DEF Core, D!DAGInv, D!GraphInv
  <2> QED
    BY <1>1, <1>2, <2>1, SameDefinition DEF Core, EdgeInv, Reads
<1>10. SortInv'
  BY <1>1, <1>2, <1>3, SameDefinition DEF Core, SortInv, Reads
<1>11. outcome = "none"
  BY <1>3 DEF Core
<1> QED
  BY <1>1, <1>4, <1>5, <1>6, <1>7, <1>8, <1>9, <1>10, <1>11 DEF Core

\* The graph is complete, and the sort starts.
LEMMA SortKeeps ==
    ASSUME Core, SortResources
    PROVE  Core'
<1>1. /\ step = "edges" /\ op = "idle" /\ cycle = <<>> /\ unconnected = {}
      /\ work = {} /\ G!TopologicalSort /\ step' = "sort"
      /\ def' = def /\ work' = work /\ current' = current
      /\ unconnected' = unconnected /\ dependencies' = dependencies
      /\ outcome' = outcome
  BY DEF SortResources, Goto, loopVars
<1>2. /\ op' = "checkSort" /\ pending' = <<>> /\ cycle' = <<>>
      /\ vertices' = vertices /\ edges' = edges
  BY <1>1 DEF G!TopologicalSort, G!NoResult
<1>3. D!DAGInv'
  BY <1>1, SameGraph, NodesAreNumbers, D!TopologicalSortKeeps DEF Core
<1>4. TypeOK'
  BY <1>1, <1>3, TypesKept DEF Core, TypeOK, Steps, Outcomes
<1>5. CheckedInv'
  BY <1>1, SameDefinition DEF Core, CheckedInv, Named, Built, Checking,
     Graphing, BuildsRGResource
<1>6. VertexInv'
  BY <1>1, <1>2, SameDefinition DEF Core, VertexInv, Graphing
<1>7. EdgesAreReads'
  BY <1>1, <1>2, SameDefinition DEF Core, EdgesAreReads, Reads
<1>8. EdgeInv' /\ (outcome' # "none" => step' = "done")
  BY <1>1 DEF Core, EdgeInv
<1>9. SortInv'
  BY <1>1, <1>2, SameDefinition DEF Core, EdgeInv, SortInv, Reads
<1> QED
  BY <1>1, <1>3, <1>4, <1>5, <1>6, <1>7, <1>8, <1>9 DEF Core

-----------------------------------------------------------------------------
(***************************************************************************)
(* The invariant.                                                          *)
(***************************************************************************)

\* A step that is not the last one keeps what the outcome says.
LEMMA ContinueKeeps ==
    ASSUME BuilderInv, Core', def' = def, outcome' = outcome,
           outcome = "none" \/ (order' = order /\ dependencies' = dependencies)
    PROVE  BuilderInv'
<1>1. AcceptedIsSound' /\ RejectedIsNotExecutable'
  BY SameDefinition DEF BuilderInv, AcceptedIsSound,
     RejectedIsNotExecutable
<1>2. OrderFollowsReads'
  BY SameDefinition DEF BuilderInv, OrderFollowsReads, Reads
<1> QED
  BY <1>1, <1>2 DEF BuilderInv

\* The ends other than acceptance.
LEMMA FailKeeps ==
    ASSUME BuilderInv, op = "idle", NEW o \in {"rejected", "unavailable", "panicked"},
           End(o), UNCHANGED dagVars, o = "rejected" => ~Executable \/ HasRefused
    PROVE  BuilderInv'
<1>1. Core'
  BY EndKeeps DEF BuilderInv, Outcomes
<1>2. def' = def /\ outcome' = o
  BY DEF End
<1>3. AcceptedIsSound' /\ RejectedIsNotExecutable' /\ OrderFollowsReads'
  BY <1>2, SameDefinition DEF AcceptedIsSound, RejectedIsNotExecutable,
     OrderFollowsReads
<1> QED
  BY <1>1, <1>3 DEF BuilderInv

\* The end by acceptance.
LEMMA AcceptKeeps ==
    ASSUME BuilderInv, Accept
    PROVE  BuilderInv'
<1>1. /\ step = "sort" /\ op = "idle" /\ cycle = <<>> /\ End("accepted")
      /\ UNCHANGED dagVars
  BY DEF Accept
<1>2. Core /\ Core'
  BY <1>1, EndKeeps DEF BuilderInv, Outcomes
<1>3. /\ def' = def /\ outcome' = "accepted" /\ order' = order
      /\ dependencies' = dependencies
  BY <1>1 DEF End, dagVars
<1>4. AcceptedIsSound' /\ RejectedIsNotExecutable'
  BY <1>1, <1>2, <1>3, SameDefinition, CheckedIsSound
     DEF AcceptedIsSound, RejectedIsNotExecutable, CanRun
<1>5. /\ order \in Bijection(1..Len(order), Ids) /\ Len(order) \in Nat
      /\ \A r \in Resources :
            dependencies[r.id] = Reads(r) /\ Reads(r) \subseteq Ids
      /\ \A k, l \in 1..Len(order) :
            order[l] \in Reads(Resource(order[k])) => l < k
  BY <1>1, <1>2, SortedOrder
<1>6. ToSet(order) = Ids /\ IsInjective(order)
  BY <1>5 DEF ToSet, Bijection, Injection, Surjection, IsInjective
<1>7. OrderFollowsReads'
  BY <1>3, <1>5, <1>6, SameDefinition DEF OrderFollowsReads, Reads
<1> QED
  BY <1>2, <1>4, <1>7 DEF BuilderInv

\* The invariant holds before the first part.
LEMMA InitKeeps == Init => BuilderInv
<1> SUFFICES ASSUME Init PROVE BuilderInv
  OBVIOUS
<1>1. D!DAGInv
  BY SameGraph, NodesAreNumbers, D!InitGraph DEF Init
<1>2. /\ def \in Definitions /\ step = "names" /\ outcome = "none"
      /\ work = {} /\ current = Schema /\ unconnected = {}
      /\ dependencies = [n \in Node |-> {}]
      /\ vertices = {} /\ edges = {} /\ pending = <<>> /\ cycle = <<>>
      /\ op = "idle"
  BY DEF Init, G!Init
<1>3. G!TypeOK
  BY <1>1, SameGraph DEF D!DAGInv
<1>4. TypeOK
  BY <1>2, <1>3, DefinitionFacts DEF TypeOK
<1>5. Ids \subseteq Node
  BY <1>2, DefinitionFacts
<1>6. CheckedInv /\ EdgeInv /\ SortInv
  BY <1>2 DEF CheckedInv, EdgeInv, SortInv, Named, Built, Checking, Graphing
<1>7. VertexInv /\ EdgesAreReads
  BY <1>2, <1>5 DEF VertexInv, EdgesAreReads, Graphing
<1>8. AcceptedIsSound /\ RejectedIsNotExecutable /\ OrderFollowsReads
  BY <1>2 DEF AcceptedIsSound, RejectedIsNotExecutable, OrderFollowsReads
<1> QED
  BY <1>1, <1>2, <1>4, <1>6, <1>7, <1>8 DEF BuilderInv, Core

\* The parts before the graph.
LEMMA ChecksKeep ==
    ASSUME BuilderInv,
           \/ ValidateNamingConventions \/ BuildRGResources \/ ServerUnavailable
           \/ BuildStatusSchemaFails \/ ParseStatusPaths
           \/ BuildInstanceResource
           \/ ExpressionsValid \/ VerticesAdded
    PROVE  BuilderInv'
<1> USE DEF BuilderInv
<1>1. CASE ValidateNamingConventions
  <2>1. step = "names" /\ op = "idle" /\ UNCHANGED dagVars
    BY <1>1 DEF ValidateNamingConventions, Core, VertexInv
  <2>2. CASE def.kindValid /\ ValidateResourceIDs
    <3>1. Goto("resources")
      BY <1>1, <2>2 DEF ValidateNamingConventions
    <3> QED
      BY <2>1, <2>2, <3>1, GotoKeeps, ContinueKeeps DEF Goto, dagVars
  <2>3. CASE ~(def.kindValid /\ ValidateResourceIDs)
    <3>1. End("rejected")
      BY <1>1, <2>3 DEF ValidateNamingConventions
    <3>2. ~Executable
      BY <2>3, NamesRejected DEF Core
    <3> QED
      BY <2>1, <3>1, <3>2, FailKeeps
  <2> QED
    BY <2>2, <2>3
<1>2. CASE BuildRGResources
  <2>1. step = "resources" /\ op = "idle" /\ UNCHANGED dagVars
    BY <1>2 DEF BuildRGResources, Core, VertexInv
  <2>2. CASE \A r \in Resources : BuildsRGResource(r)
    <3>1. Goto("instance")
      BY <1>2, <2>2 DEF BuildRGResources
    <3> QED
      BY <2>1, <2>2, <3>1, GotoKeeps, ContinueKeeps DEF Goto, dagVars
  <2>3. CASE ~\A r \in Resources : BuildsRGResource(r)
    <3>1. End("rejected")
      BY <1>2, <2>3 DEF BuildRGResources
    <3>2. ~Executable
      BY <2>3 DEF Executable
    <3> QED
      BY <2>1, <3>1, <3>2, FailKeeps
  <2> QED
    BY <2>2, <2>3
<1>3. CASE ServerUnavailable
  BY <1>3, FailKeeps DEF ServerUnavailable, Core, VertexInv
<1>4. CASE BuildStatusSchemaFails
  <2>1. PICK o \in StatusOutcomes : End(o)
    BY <1>4 DEF BuildStatusSchemaFails
  <2>2. o \in {"rejected", "panicked"}
    BY DEF StatusOutcomes, Failures
  <2>3. o = "rejected" => ~Executable
    BY StatusRejected DEF Core
  <2>4. op = "idle" /\ UNCHANGED dagVars
    BY <1>4 DEF BuildStatusSchemaFails, Core, VertexInv
  <2> QED
    BY <2>1, <2>2, <2>3, <2>4, FailKeeps
<1>5. CASE BuildInstanceResource
  <2>1. step = "instance" /\ op = "idle" /\ UNCHANGED dagVars
    BY <1>5 DEF BuildInstanceResource, Core, VertexInv
  <2>2. CASE def.specValid /\ \A f \in def.status : Refers(f)
    <3>1. LoopIn("expressions") /\ StatusMayPass
      BY <1>5, <2>2 DEF BuildInstanceResource, Refers
    <3> QED
      BY <2>1, <2>2, <3>1, LoopKeeps, ContinueKeeps DEF LoopIn, dagVars
  <2>3. CASE ~(def.specValid /\ \A f \in def.status : Refers(f))
    <3>1. End("rejected")
      BY <1>5, <2>3 DEF BuildInstanceResource, Refers
    <3>2. ~Executable \/ HasRefused
      BY <2>3, InstanceRejected DEF Core, Executable, NamesValid
    <3> QED
      BY <2>1, <3>1, <3>2, FailKeeps
  <2> QED
    BY <2>2, <2>3
<1>6. CASE ExpressionsValid
  BY <1>6, LoopKeeps, ContinueKeeps DEF ExpressionsValid, LoopIn, dagVars
<1>7. CASE VerticesAdded
  BY <1>7, LoopKeeps, ContinueKeeps DEF VerticesAdded, LoopIn, dagVars
<1>8. CASE ParseStatusPaths
  BY <1>8, GotoKeeps, ContinueKeeps DEF ParseStatusPaths, Goto, dagVars
<1> QED
  BY <1>1, <1>2, <1>3, <1>4, <1>5, <1>6, <1>7, <1>8

\* The steps for one resource.
LEMMA ResourceKeeps ==
    ASSUME BuilderInv, NEW n \in Node,
           \/ ValidateResource(n) \/ ValidateResourceFails(n)
           \/ AddResourceVertex(n)
           \/ InspectResource(n) \/ InspectResourceFails(n)
           \/ AddDependencyEdge(n)
    PROVE  BuilderInv'
<1> USE DEF BuilderInv
<1>1. CASE ValidateResource(n)
  BY <1>1, ValidateKeeps, ContinueKeeps DEF ValidateResource, dagVars
<1>2. CASE ValidateResourceFails(n)
  <2>1. PICK o \in ValidationOutcomes(Resource(n)) : End(o)
    BY <1>2 DEF ValidateResourceFails
  <2>2. step = "expressions" /\ n \in work /\ UNCHANGED dagVars /\ op = "idle"
    BY <1>2 DEF ValidateResourceFails, Core, VertexInv
  <2>3. o \in {"rejected", "panicked"}
    BY <2>1 DEF ValidationOutcomes, Failures
  <2>4. o = "rejected" => ~Executable
    <3>1. Resource(n) \in Resources
      BY <2>2, DefinitionFacts DEF Core, TypeOK
    <3> QED
      BY <2>1, <3>1, ValidationRejected DEF Core
  <2> QED
    BY <2>1, <2>2, <2>3, <2>4, FailKeeps
<1>3. CASE AddResourceVertex(n)
  BY <1>3, VertexKeeps, ContinueKeeps DEF AddResourceVertex, Core
<1>4. CASE InspectResource(n)
  BY <1>4, InspectKeeps, ContinueKeeps DEF InspectResource, Core
<1>5. CASE InspectResourceFails(n)
  <2>1. /\ step = "edges" /\ op = "idle" /\ n \in work /\ End("rejected")
        /\ UNCHANGED dagVars
        /\ ~\A e \in UNION Resource(n).fields : CanExtract(e, FieldNames)
    BY <1>5 DEF InspectResourceFails
  <2>2. Resource(n) \in Resources /\ MayBeValid(Resource(n))
    BY <2>1, DefinitionFacts DEF Core, TypeOK, CheckedInv, Graphing
  <2>3. HasRefused
    BY <2>1, <2>2, InspectionRejected DEF Core
  <2> QED
    BY <2>1, <2>3, FailKeeps
<1>6. CASE AddDependencyEdge(n)
  <2>1. step = "edges" /\ op = "idle" /\ n \in unconnected
    BY <1>6 DEF AddDependencyEdge
  <2>2. CASE n # current
    <3>1. Core' /\ def' = def /\ outcome' = outcome /\ outcome = "none"
      BY <1>6, <2>1, <2>2, EdgeKeeps DEF Core
    <3> QED
      BY <3>1, ContinueKeeps
  <2>3. CASE n = current
    <3>1. End("rejected") /\ UNCHANGED dagVars
      BY <1>6, <2>3 DEF AddDependencyEdge
    <3>2. /\ Resource(n) \in Resources /\ Resource(n).id = n
          /\ n \in Reads(Resource(n))
      BY <2>1, <2>3, DependenciesAreVertices, DefinitionFacts DEF Core
    <3>3. ~Executable
      BY <3>2, RankedReadsOthers DEF Core, Executable
    <3> QED
      BY <2>1, <3>1, <3>3, FailKeeps
  <2> QED
    BY <2>2, <2>3
<1> QED
  BY <1>1, <1>2, <1>3, <1>4, <1>5, <1>6

\* A cycle was found: the resources read each other in a circle.
LEMMA CycleFoundKeeps ==
    ASSUME BuilderInv, CycleFound
    PROVE  BuilderInv'
<1>1. /\ step \in {"edges", "sort"} /\ op = "idle" /\ cycle # <<>>
      /\ End("rejected") /\ UNCHANGED dagVars
  BY DEF CycleFound
<1>2. ~Executable
  BY <1>1, CycleIsNotExecutable DEF BuilderInv
<1> QED
  BY <1>1, <1>2, FailKeeps

\* The invariant holds in every state, for every ResourceGroup and in whatever
\* order the maps are iterated (NewResourceGroup).
THEOREM BuilderInvHolds == Spec => []BuilderInv
<1>1. BuilderInv /\ [Next]_vars => BuilderInv'
  <2> SUFFICES ASSUME BuilderInv, [Next]_vars PROVE BuilderInv'
    OBVIOUS
  <2>1. CASE SearchGraph
    BY <2>1, SearchKeepsCore, ContinueKeeps DEF SearchGraph, BuilderInv
  <2>2. CASE SortResources
    BY <2>2, SortKeeps, ContinueKeeps DEF SortResources, Goto, Core, BuilderInv
  <2>3. CASE UNCHANGED vars
    <3>1. Core'
      <4>1. /\ def' = def /\ step' = step /\ work' = work /\ current' = current
            /\ unconnected' = unconnected /\ dependencies' = dependencies
            /\ outcome' = outcome /\ UNCHANGED dagVars
        BY <2>3 DEF vars, loopVars
      <4>2. D!DAGInv' /\ EdgesAreReads'
        BY <4>1, GraphKept DEF BuilderInv
      <4>3. TypeOK'
        BY <4>1, <4>2, TypesKept DEF BuilderInv, Core, TypeOK, Steps, Outcomes
      <4>4. CheckedInv' /\ VertexInv'
        BY <4>1, SameDefinition DEF BuilderInv, Core, CheckedInv, VertexInv,
           BuildsRGResource, dagVars
      <4>5. EdgeInv' /\ SortInv'
        BY <4>1, SameDefinition DEF BuilderInv, Core, EdgeInv, SortInv, Reads,
           dagVars
      <4> QED
        BY <4>1, <4>2, <4>3, <4>4, <4>5 DEF BuilderInv, Core
    <3> QED
      BY <2>3, <3>1, ContinueKeeps DEF vars, dagVars
  <2> QED
    BY <2>1, <2>2, <2>3, ChecksKeep, ResourceKeeps, CycleFoundKeeps, AcceptKeeps
       DEF Next
<1> QED
  BY InitKeeps, <1>1, PTL DEF Spec

\* Every variable of the builder and of its graph stays in its type
\* (NewResourceGroup).
THEOREM BuilderTypeCorrect == Spec => []TypeOK
<1>1. BuilderInv => TypeOK
  BY DEF BuilderInv, Core
<1> QED
  BY <1>1, BuilderInvHolds, PTL

\* A ResourceGroup that is accepted has distinct names, sound resources that
\* wait for no circle of each other and a status whose expressions read the
\* resources, in whatever order the maps are iterated and whatever the emulated
\* values are (NewResourceGroup, builder.go:103-237).
THEOREM AcceptanceIsSound == Spec => []AcceptedIsSound
<1>1. BuilderInv => AcceptedIsSound
  BY DEF BuilderInv
<1> QED
  BY <1>1, BuilderInvHolds, PTL

\* A ResourceGroup that can be executed whatever the values are is not
\* rejected, unless the inspector refuses one of its expressions
\* (NewResourceGroup, builder.go:103-237).
THEOREM AcceptanceIsComplete == Spec => []RejectedIsNotExecutable
<1>1. BuilderInv => RejectedIsNotExecutable
  BY DEF BuilderInv
<1> QED
  BY <1>1, BuilderInvHolds, PTL

\* The order of an accepted ResourceGroup names each resource once, after all
\* that its fields read, and its dependencies are those (buildDependencyGraph
\* and TopologicalSort, builder.go:339-408).
THEOREM OrderIsSound == Spec => []OrderFollowsReads
<1>1. BuilderInv => OrderFollowsReads
  BY DEF BuilderInv
<1> QED
  BY <1>1, BuilderInvHolds, PTL

\* What the reconciler of instances takes for granted about the order
\* (OrderAssumption of InstanceReconciler).
OrderServesInstances ==
    outcome = "accepted" =>
        /\ order \in [1..Len(order) -> Ids]
        /\ \A n \in Ids : \E k \in 1..Len(order) : order[k] = n
        /\ \A k, l \in 1..Len(order) : order[k] = order[l] => k = l
        /\ \A k \in 1..Len(order) : \A n \in dependencies[order[k]] :
              \E l \in 1..(k - 1) : order[l] = n

\* The builder delivers what the instance controller relies on: an accepted
\* ResourceGroup has an order in which every dependency of a resource comes
\* before it (NewResourceGroup, builder.go:230; NewResourceGroupRuntime takes
\* the order over).
THEOREM OrderIsUsable == Spec => []OrderServesInstances
<1>1. BuilderInv => OrderServesInstances
  <2> SUFFICES ASSUME BuilderInv, outcome = "accepted"
               PROVE  OrderServesInstances
    BY DEF OrderServesInstances
  <2>1. /\ ToSet(order) = Ids /\ IsInjective(order)
        /\ \A r \in Resources :
              dependencies[r.id] = Reads(r) /\ Reads(r) \subseteq Ids
        /\ \A k, l \in 1..Len(order) :
              order[l] \in Reads(Resource(order[k])) => l < k
    BY DEF BuilderInv, OrderFollowsReads
  <2>2. order \in Seq(vertices)
    BY DEF BuilderInv, Core, D!DAGInv, D!TypeOK
  <2>3. Len(order) \in Nat /\ DOMAIN order = 1..Len(order)
    BY <2>2, LenProperties
  <2>4. order \in [1..Len(order) -> Ids]
    BY <2>1, <2>2, <2>3, LenProperties DEF ToSet
  <2>5. \A n \in Ids : \E k \in 1..Len(order) : order[k] = n
    BY <2>1, <2>3 DEF ToSet
  <2>6. \A k, l \in 1..Len(order) : order[k] = order[l] => k = l
    BY <2>1, <2>3 DEF IsInjective
  <2>7. ASSUME NEW k \in 1..Len(order), NEW n \in dependencies[order[k]]
        PROVE  \E l \in 1..(k - 1) : order[l] = n
    <3>1. order[k] \in Ids
      BY <2>4
    <3>2. /\ Resource(order[k]) \in Resources
          /\ Resource(order[k]).id = order[k]
      BY <3>1, DefinitionFacts DEF BuilderInv, Core
    <3>3. n \in Reads(Resource(order[k])) /\ n \in Ids
      BY <2>1, <2>7, <3>2
    <3>4. PICK l \in 1..Len(order) : order[l] = n
      BY <2>5, <3>3
    <3>5. l < k
      BY <2>1, <3>3, <3>4
    <3> QED
      BY <2>3, <3>4, <3>5
  <2> QED
    BY <2>4, <2>5, <2>6, <2>7 DEF OrderServesInstances
<1> QED
  BY <1>1, BuilderInvHolds, PTL
=============================================================================
