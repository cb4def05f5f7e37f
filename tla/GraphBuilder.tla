---------------------------- MODULE GraphBuilder ----------------------------
(***************************************************************************)
(* The graph builder (internal/graph/builder.go, validation.go): it        *)
(* decides whether a ResourceGroup is accepted, and finds the dependencies *)
(* of its resources and an order in which they can be created.             *)
(*                                                                         *)
(* NewResourceGroup is sequential, but it ranges over maps, in an order    *)
(* that Go leaves open; a loop over a map is a step per resource, in any   *)
(* order, and the graph is the one of module DAG, search by search.        *)
(*                                                                         *)
(* An expression is its syntax tree and what its evaluation against the    *)
(* emulated objects can give: "bool", "other" or a "fault" (a field that   *)
(* the schema does not have, an index that the emulated list does not      *)
(* have).  The emulated values are random, so there may be several.  What  *)
(* the inspector finds in a tree is a parameter; module Inspector has its  *)
(* walk.                                                                   *)
(***************************************************************************)
EXTENDS Integers, Sequences, FiniteSets, SequencesExt

CONSTANTS
    Node,          \* the names of resources, as numbers in alphabetical order
    Schema,        \* the name "schema", by which expressions read the spec
    Allowed,       \* the names that are lower camel case and not reserved
    Ast,           \* the syntax trees of the expressions
    Refused,       \* those of them that the inspector refuses even if it
                   \* knows their names
    Definitions,   \* the ResourceGroups that are given to the builder
    Inspect(_, _, _),  \* what an inspector that knows the given names finds
                       \* in a tree, by kind
    LooksUp(_)         \* the names that the evaluation of a tree looks up

ASSUME BuilderAssumption ==
    /\ Node \subseteq Nat
    /\ Schema \in Nat \ Node
    /\ Allowed \subseteq Node
    /\ Refused \subseteq Ast

\* lazy: it has an ||, && or ?: whose evaluation can leave out a part, and
\* with it the names in it.
Exprs == [ast : Ast, gives : (SUBSET {"bool", "other", "fault"}) \ {{}},
          lazy : BOOLEAN]

\* wellFormed: the template is a Kubernetes object of a known kind, with
\* expressions where its schema allows them, and the conditions are
\* standalone; crd: its kind is CustomResourceDefinition; fields: the
\* templated fields, each the set of its expressions.
ResourceDefs == [id : Node, wellFormed : BOOLEAN, crd : BOOLEAN,
                 fields : SUBSET SUBSET Exprs,
                 readyWhen : SUBSET Exprs, includeWhen : SUBSET Exprs]

\* exprs: the expressions in the text of the field; endless: its path ends in
\* a name of one letter, which fieldpath.Parse does not get over.
IsStatusField(f) ==
    f.exprs \in Seq(Exprs) /\ f.exprs # <<>> /\ f.endless \in BOOLEAN

ASSUME DefinitionsAssumption ==
    \A d \in Definitions :
        /\ d.resources \in Seq(ResourceDefs)
        /\ \A f \in d.status : IsStatusField(f)
        /\ d.kindValid \in BOOLEAN /\ d.specValid \in BOOLEAN

\* extractDependencies fails when the inspector knows not all it found; the
\* dependencies are the resources, without "schema".
CanExtract(e, names) ==
    /\ Inspect("unknown resource", e.ast, names) = {}
    /\ Inspect("unknown function", e.ast, names) = {}
Extract(e, names) == Inspect("resource", e.ast, names) \ {Schema}

\* The inspector finds what the evaluation looks up, or refuses the tree.
\* Trees that read a resource in a literal, where it does not look, are not in
\* Ast.
ASSUME InspectorAssumption ==
    \A e \in Exprs : \A names \in SUBSET (Node \cup {Schema}) :
        LooksUp(e.ast) \subseteq names =>
            /\ e.ast \notin Refused => CanExtract(e, names)
            /\ CanExtract(e, names) =>
                  Extract(e, names) = LooksUp(e.ast) \ {Schema}

VARIABLES
    \* The graph, as in module DAG.
    vertices, edges, op, pending, visited, recStack, path, todo, order, cycle,
    def,           \* the ResourceGroup
    step,          \* the part of NewResourceGroup that is next
    work,          \* the resources a loop over the map has yet to visit
    current,       \* the resource whose edges are being added
    unconnected,   \* its dependencies that have no edge yet
    dependencies,  \* what addDependencies recorded
    outcome        \* how NewResourceGroup ended

dagVars == <<vertices, edges, op, pending, visited, recStack, path, todo,
             order, cycle>>
loopVars == <<work, current, unconnected>>
vars == <<dagVars, def, step, loopVars, dependencies, outcome>>

G == INSTANCE DAG

Resources == ToSet(def.resources)
Ids == {r.id : r \in Resources}
Resource(n) == CHOOSE r \in Resources : r.id = n

\* The variables stay in their ranges.
TypeOK ==
    /\ G!TypeOK
    /\ Resources \subseteq ResourceDefs
    /\ \A f \in def.status : IsStatusField(f)
    /\ step \in {"names", "resources", "instance", "parsing", "expressions",
                 "vertices", "edges", "sort", "done"}
    /\ work \subseteq Ids
    /\ current \in Ids \cup {Schema}
    /\ unconnected \subseteq Ids
    /\ dependencies \in [Node -> SUBSET Ids]
    /\ outcome \in {"none", "accepted", "rejected", "unavailable", "panicked"}

Init ==
    /\ G!Init
    /\ def \in Definitions
    /\ step = "names"
    /\ work = {}
    /\ current = Schema
    /\ unconnected = {}
    /\ dependencies = [n \in Node |-> {}]
    /\ outcome = "none"

-----------------------------------------------------------------------------
End(o) ==
    /\ step' = "done"
    /\ outcome' = o
    /\ UNCHANGED <<def, loopVars, dependencies>>

\* The next part is a loop over the resources.
LoopIn(s) ==
    /\ step' = s
    /\ work' = Ids
    /\ current' = Schema
    /\ unconnected' = {}
    /\ UNCHANGED <<def, dependencies, outcome>>

Goto(s) ==
    /\ step' = s
    /\ UNCHANGED <<def, loopVars, dependencies, outcome>>

-----------------------------------------------------------------------------
(***************************************************************************)
(* Names, resources and instance.                                          *)
(***************************************************************************)

ValidateResourceIDs ==
    /\ Ids \subseteq Allowed
    /\ \A i, j \in 1..Len(def.resources) :
          def.resources[i].id = def.resources[j].id => i = j

ValidateNamingConventions ==
    /\ step = "names"
    /\ IF def.kindValid /\ ValidateResourceIDs THEN Goto("resources")
                                               ELSE End("rejected")
    /\ UNCHANGED dagVars

\* buildRGResource; expressions are not supported in a CRD.
BuildsRGResource(r) == r.wellFormed /\ (r.crd => r.fields = {})

BuildRGResources ==
    /\ step = "resources"
    /\ IF \A r \in Resources : BuildsRGResource(r) THEN Goto("instance")
                                                   ELSE End("rejected")
    /\ UNCHANGED dagVars

\* Discovery, or the lookup of a schema, fails.
ServerUnavailable ==
    /\ step = "resources"
    /\ End("unavailable")
    /\ UNCHANGED dagVars

\* What e can give when it is evaluated with the resources in the context: a
\* name that is not there is a fault, unless its part is left out.
Results(e, context) ==
    CASE LooksUp(e.ast) \subseteq context -> e.gives
      [] ~(LooksUp(e.ast) \subseteq context) /\ e.lazy -> e.gives \cup {"fault"}
      [] OTHER -> {"fault"}

\* dryRunExpression, what it can return: e must compile with the names
\* declared, and evaluate with the resources in the context.  The emulated
\* object of a CRD is nil, and every resource of the context is dereferenced
\* in between.
DryRun(e, declared, context) ==
    CASE ~(LooksUp(e.ast) \subseteq declared) -> {"rejected"}
      [] /\ LooksUp(e.ast) \subseteq declared
         /\ \E r \in Resources : r.crd /\ r.id \in context -> {"panicked"}
      [] OTHER -> {IF x = "fault" THEN "rejected" ELSE x : x \in Results(e, context)}

Failures == {"rejected", "panicked"}
MayPass(results) == ~(results \subseteq Failures)

\* The status fields come in any order, out of a map.
StatusExprs == UNION {ToSet(f.exprs) : f \in def.status}
StatusMayPass == \A e \in StatusExprs : MayPass(DryRun(e, Ids, Ids))

\* How buildStatusSchema can fail: in a dry run, or afterwards, because the
\* expressions of one field are not all strings.
StatusOutcomes ==
    (Failures \cap UNION {DryRun(e, Ids, Ids) : e \in StatusExprs})
      \cup IF StatusMayPass /\ \E f \in def.status : Len(f.exprs) > 1
              THEN {"rejected"} ELSE {}

BuildStatusSchemaFails ==
    /\ step = "instance"
    /\ def.specValid
    /\ \E o \in StatusOutcomes : End(o)
    /\ UNCHANGED dagVars

HasEndless == \E f \in def.status : f.endless

\* GenerateSchemaFromEvals parses the paths of the status fields, and comes to
\* one that it does not get over.
ParseStatusPaths ==
    /\ step = "instance"
    /\ def.specValid /\ StatusMayPass /\ HasEndless
    /\ Goto("parsing")
    /\ UNCHANGED dagVars

\* The schemas are built; the first expression of a status field must refer to
\* a resource, and is the only one whose dependencies are kept.
BuildInstanceResource ==
    /\ step = "instance"
    /\ def.specValid => StatusMayPass /\ ~HasEndless
    /\ IF /\ def.specValid
          /\ \A f \in def.status : /\ CanExtract(f.exprs[1], Ids)
                                   /\ Extract(f.exprs[1], Ids) # {}
         THEN LoopIn("expressions")
         ELSE End("rejected")
    /\ UNCHANGED dagVars

-----------------------------------------------------------------------------
(***************************************************************************)
(* validateResourceCELExpressions.                                         *)
(***************************************************************************)

\* Mutant: the spec of the instance is not in the context.
DryRunFieldWithoutSchema(r, e) ==
    DryRun(e, Ids \cup {Schema}, Ids \ {r.id})

DryRunField(r, e) ==
    DryRun(e, Ids \cup {Schema}, (Ids \ {r.id}) \cup {Schema})

\* A condition that is not boolean is rejected.
OnlyBool(results) == {IF x = "other" THEN "rejected" ELSE x : x \in results}

\* Mutant: the context of includeWhen has all resources.
ConditionRunsAnywhere(r, e) ==
    OnlyBool(DryRun(e, Ids \cup {Schema}, Ids \cup {Schema}))

\* A readyWhen expression is run with its own resource; an includeWhen
\* expression with the spec, but it may compile with all names.
DryRunReadyWhen(r, e) == OnlyBool(DryRun(e, {r.id}, {r.id}))
DryRunIncludeWhen(r, e) == OnlyBool(DryRun(e, Ids \cup {Schema}, {Schema}))

FieldMayPass(r, f) == \A e \in f : MayPass(DryRunField(r, e))

\* The conditions are validated in the loop over the fields, once per field.
MayBeValid(r) ==
    /\ \A f \in r.fields : FieldMayPass(r, f)
    /\ r.fields # {} =>
          /\ \A e \in r.readyWhen : MayPass(DryRunReadyWhen(r, e))
          /\ \A e \in r.includeWhen : MayPass(DryRunIncludeWhen(r, e))

\* How the validation of r can fail: in a field, or in a condition after the
\* first field.
ValidationOutcomes(r) ==
    Failures \cap
      UNION ({DryRunField(r, e) : e \in UNION r.fields}
             \cup IF \E f \in r.fields : FieldMayPass(r, f)
                   THEN {DryRunReadyWhen(r, e) : e \in r.readyWhen}
                          \cup {DryRunIncludeWhen(r, e) : e \in r.includeWhen}
                   ELSE {})

ValidateResource(n) ==
    /\ step = "expressions"
    /\ n \in work
    /\ MayBeValid(Resource(n))
    /\ work' = work \ {n}
    /\ UNCHANGED <<dagVars, def, step, current, unconnected, dependencies,
                   outcome>>

ValidateResourceFails(n) ==
    /\ step = "expressions"
    /\ n \in work
    /\ \E o \in ValidationOutcomes(Resource(n)) : End(o)
    /\ UNCHANGED dagVars

ExpressionsValid ==
    /\ step = "expressions"
    /\ work = {}
    /\ LoopIn("vertices")
    /\ UNCHANGED dagVars

-----------------------------------------------------------------------------
(***************************************************************************)
(* buildDependencyGraph and TopologicalSort.                               *)
(***************************************************************************)

AddResourceVertex(n) ==
    /\ step = "vertices"
    /\ n \in work
    /\ G!AddVertex(n)
    /\ work' = work \ {n}
    /\ UNCHANGED <<def, step, current, unconnected, dependencies, outcome>>

VerticesAdded ==
    /\ step = "vertices"
    /\ work = {}
    /\ LoopIn("edges")
    /\ UNCHANGED dagVars

\* The names that the fields of a resource may use.
FieldNames == Ids \cup {Schema}

\* Mutant: "schema" counts as a resource.
ExtractAllNames(r) ==
    UNION {Inspect("resource", e.ast, FieldNames) : e \in UNION r.fields}

\* Mutant: only the first expression of a field is inspected.
ExtractFirst(r) ==
    UNION {Extract(CHOOSE e \in f : TRUE, FieldNames) : f \in r.fields \ {{}}}

\* extractDependencies of all the expressions of r.
ExtractDependencies(r) == UNION {Extract(e, FieldNames) : e \in UNION r.fields}

\* The loop comes to the next resource.
InspectResource(n) ==
    /\ step = "edges"
    /\ op = "idle" /\ cycle = <<>> /\ unconnected = {}
    /\ n \in work
    /\ \A e \in UNION Resource(n).fields : CanExtract(e, FieldNames)
    /\ work' = work \ {n}
    /\ current' = n
    /\ unconnected' = ExtractDependencies(Resource(n))
    /\ dependencies' = [dependencies EXCEPT ![n] =
                           @ \cup ExtractDependencies(Resource(n))]
    /\ UNCHANGED <<dagVars, def, step, outcome>>

InspectResourceFails(n) ==
    /\ step = "edges"
    /\ op = "idle" /\ cycle = <<>> /\ unconnected = {}
    /\ n \in work
    /\ ~\A e \in UNION Resource(n).fields : CanExtract(e, FieldNames)
    /\ End("rejected")
    /\ UNCHANGED dagVars

\* Mutant: the error of AddEdge is not returned.
RetryDependencyEdge(n) ==
    /\ step = "edges"
    /\ op = "idle" /\ cycle = <<>>
    /\ n \in unconnected \cap (vertices \ {current})
    /\ G!AddEdge(current, n)
    /\ unconnected' = unconnected \ {n}
    /\ UNCHANGED <<def, step, work, current, dependencies, outcome>>

\* AddEdge fails for itself or a vertex that does not exist.
AddDependencyEdge(n) ==
    /\ step = "edges"
    /\ op = "idle" /\ cycle = <<>>
    /\ n \in unconnected
    /\ IF n \in vertices \ {current}
         THEN /\ G!AddEdge(current, n)
              /\ unconnected' = unconnected \ {n}
              /\ UNCHANGED <<def, step, work, current, dependencies, outcome>>
         ELSE End("rejected") /\ UNCHANGED dagVars

SearchGraph ==
    /\ G!Search
    /\ UNCHANGED <<def, step, loopVars, dependencies, outcome>>

CycleFound ==
    /\ step \in {"edges", "sort"}
    /\ op = "idle" /\ cycle # <<>>
    /\ End("rejected")
    /\ UNCHANGED dagVars

SortResources ==
    /\ step = "edges"
    /\ op = "idle" /\ cycle = <<>> /\ unconnected = {} /\ work = {}
    /\ G!TopologicalSort
    /\ Goto("sort")

Accept ==
    /\ step = "sort"
    /\ op = "idle" /\ cycle = <<>>
    /\ End("accepted")
    /\ UNCHANGED dagVars

-----------------------------------------------------------------------------
Next ==
    \/ ValidateNamingConventions
    \/ BuildRGResources \/ ServerUnavailable
    \/ BuildStatusSchemaFails \/ ParseStatusPaths \/ BuildInstanceResource
    \/ \E n \in Node : ValidateResource(n) \/ ValidateResourceFails(n)
    \/ ExpressionsValid
    \/ \E n \in Node : AddResourceVertex(n)
    \/ VerticesAdded
    \/ \E n \in Node : \/ InspectResource(n) \/ InspectResourceFails(n)
                      \/ AddDependencyEdge(n)
    \/ SearchGraph \/ CycleFound
    \/ SortResources \/ Accept

\* NewResourceGroup goes on as long as it can.
Spec == Init /\ [][Next]_vars /\ WF_vars(Next)

-----------------------------------------------------------------------------
(***************************************************************************)
(* Properties.                                                             *)
(***************************************************************************)

\* The resources that the fields of r read.
Reads(r) == (UNION {LooksUp(e.ast) : e \in UNION r.fields}) \ {Schema}

\* e has all it reads, and runs whatever the values are, or for some of them.
Runs(e, names) == LooksUp(e.ast) \subseteq names /\ "fault" \notin e.gives
CanRun(e, names) == LooksUp(e.ast) \subseteq names /\ e.gives # {"fault"}

\* The resources can be created one after the other.
Ranked ==
    \E rank \in [Ids -> 1..Cardinality(Ids)] :
        \A r \in Resources : \A n \in Reads(r) : rank[n] < rank[r.id]

\* The names are allowed, and distinct.
NamesValid ==
    /\ def.kindValid /\ def.specValid
    /\ Ids \subseteq Allowed
    /\ Cardinality(Ids) = Len(def.resources)

\* A ResourceGroup that the runtime and the instance controller can work with,
\* whatever the values are.
Executable ==
    /\ NamesValid
    /\ \A r \in Resources :
          /\ BuildsRGResource(r)
          /\ \A e \in UNION r.fields : Runs(e, (Ids \ {r.id}) \cup {Schema})
          /\ \A e \in r.readyWhen : Runs(e, {r.id}) /\ e.gives = {"bool"}
          /\ \A e \in r.includeWhen : Runs(e, {Schema}) /\ e.gives = {"bool"}
    /\ \A f \in def.status : /\ Len(f.exprs) = 1 /\ Runs(f.exprs[1], Ids)
                             /\ LooksUp(f.exprs[1].ast) # {}
    /\ Ranked

\* What acceptance says of a resource: its fields read the spec and other
\* resources, a readyWhen expression its own resource, an includeWhen
\* expression the spec, and the conditions can be boolean.  It says nothing
\* about the conditions of a resource without fields, and nothing about which
\* resources a lazy includeWhen expression reads: such an expression can pass
\* the dry run and not compile in the runtime.
Sound(r) ==
    /\ BuildsRGResource(r)
    /\ \A e \in UNION r.fields : CanRun(e, (Ids \ {r.id}) \cup {Schema})
    /\ r.fields # {} =>
          /\ \A e \in r.readyWhen : CanRun(e, {r.id}) /\ "bool" \in e.gives
          /\ \A e \in r.includeWhen :
                /\ CanRun(e, IF e.lazy THEN Ids \cup {Schema} ELSE {Schema})
                /\ "bool" \in e.gives

\* A ResourceGroup that is accepted has distinct names, resources that are
\* sound and wait for no circle of each other, and a status whose expressions
\* read the resources, in whatever order the maps were iterated and whatever
\* the emulated values were (NewResourceGroup, builder.go:103-237).
AcceptedIsSound ==
    outcome = "accepted" =>
        /\ NamesValid
        /\ \A r \in Resources : Sound(r)
        /\ \A f \in def.status : /\ \A e \in ToSet(f.exprs) : CanRun(e, Ids)
                                 /\ LooksUp(f.exprs[1].ast) # {}
        /\ Ranked

\* An expression that the inspector looks at and refuses.
HasRefused ==
    \/ \E r \in Resources : \E e \in UNION r.fields : e.ast \in Refused
    \/ \E f \in def.status : f.exprs[1].ast \in Refused

\* A ResourceGroup that can be executed whatever the values are is not
\* rejected, in whatever order the maps were iterated and whatever the emulated
\* values were (NewResourceGroup, builder.go:103-237), unless one of its
\* expressions is refused: an operator that isInternalFunction lacks, a loop
\* variable that a second loop uses again (inspector.go:233, :305).
RejectedIsNotExecutable ==
    outcome = "rejected" => ~Executable \/ HasRefused

\* The order of an accepted ResourceGroup names each resource once, after all
\* that its fields read, which are its dependencies and resources of the same
\* ResourceGroup (buildDependencyGraph and TopologicalSort,
\* builder.go:339-408): what the instance controller creates resources by.
OrderFollowsReads ==
    outcome = "accepted" =>
        /\ ToSet(order) = Ids /\ IsInjective(order)
        /\ \A r \in Resources :
              dependencies[r.id] = Reads(r) /\ Reads(r) \subseteq Ids
        /\ \A i, j \in 1..Len(order) :
              order[j] \in Reads(Resource(order[i])) => j < i

\* NewResourceGroup comes to an end, with a graph, an error or a panic, unless
\* it parses the path of a status field with a name of one letter
\* (builder.go:585, field_descriptor.go:142).
BuildEnds == <>(outcome # "none" \/ (step = "parsing" /\ HasEndless))
=============================================================================
