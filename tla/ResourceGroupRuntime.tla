------------------------ MODULE ResourceGroupRuntime ------------------------
(***************************************************************************)
(* The runtime a reconciliation works with (internal/runtime/runtime.go):  *)
(* it decides which resources of a ResourceGroup can be rendered, from the *)
(* CEL expressions in their fields and the objects observed so far.        *)
(*                                                                         *)
(* A runtime is created for every reconciliation and lives as long as it.  *)
(* Its state is three values, which the operators take as parameters:      *)
(*   rank      the order in which the map of resources was iterated when   *)
(*             the runtime was built (Go randomises it); it fixes which    *)
(*             field gave each shared expression its kind and dependencies *)
(*   resolved  the expressions that have a value                           *)
(*   seen      what SetResource stored: per resource "none", or the object *)
(*             as observed, with ("full") or without ("partial") the       *)
(*             fields that other resources read from it                    *)
(* CEL itself is abstracted to the resources an expression reads.          *)
(***************************************************************************)
EXTENDS Integers, FiniteSets, Sequences

CONSTANTS
    Resource,     \* the resource ids of the ResourceGroup
    Expr,         \* the texts of the CEL expressions
    Refs,         \* Refs[e]: the resources that the text of e mentions
    Fields,       \* Fields[r]: the templated fields of r, each one the set
                  \* of the expressions it contains
    ReadyWhen,    \* ReadyWhen[r]: the readyWhen expressions of r
    StatusExpr    \* the expressions of the status of the instance, which are
                  \* standalone

ASSUME RuntimeAssumption ==
    /\ IsFiniteSet(Resource)
    /\ Refs \in [Expr -> SUBSET Resource]
    /\ Fields \in [Resource -> Seq(SUBSET Expr)]
    /\ ReadyWhen \in [Resource -> SUBSET Expr]
    /\ StatusExpr \subseteq Expr

-----------------------------------------------------------------------------
(***************************************************************************)
(* What the builder derives from the expressions.                          *)
(***************************************************************************)

\* The expressions in the fields of r, and the fields of r that contain e.
Mentions ==
    [r \in Resource |->
        {e \in Expr : \E i \in 1..Len(Fields[r]) : e \in Fields[r][i]}]

FieldsWith(r, e) == {i \in 1..Len(Fields[r]) : e \in Fields[r][i]}

\* A field depends on what any of its expressions reads, and a resource on
\* what any of its fields depends on.
FieldDeps(f) == UNION {Refs[e] : e \in f}

GetDependencies ==
    [r \in Resource |-> UNION {Refs[e] : e \in Mentions[r]}]

-----------------------------------------------------------------------------
(***************************************************************************)
(* The expression cache built by NewResourceGroupRuntime.                  *)
(***************************************************************************)

\* The orders in which the map of resources can be iterated.
Rankings ==
    {f \in [Resource -> 1..Cardinality(Resource)] :
        \A q, r \in Resource : f[q] = f[r] => q = r}

\* A cell is an expressionEvaluationState, without its resolved flag.
ReadyWhenCell == [kind |-> "readyWhen", deps |-> {}]

\* Kind and dependencies are those of the whole field, not of the expression.
FieldCell(f) ==
    [kind |-> IF FieldDeps(f) = {} THEN "static" ELSE "dynamic",
     deps |-> FieldDeps(f)]

\* The first field of r that contains e.
FirstField(r, e) ==
    Fields[r][CHOOSE i \in FieldsWith(r, e) : \A j \in FieldsWith(r, e) : i <= j]

\* The resource whose field creates the cached state of e.
FirstUser(rank, e) ==
    CHOOSE q \in Resource :
        /\ e \in Mentions[q]
        /\ \A p \in Resource : e \in Mentions[p] => rank[q] <= rank[p]

\* The keys of expressionsCache.
Cached ==
    StatusExpr \cup UNION {Mentions[r] \cup ReadyWhen[r] : r \in Resource}

\* The state that runtimeVariables[r] points to for e: the cached one when
\* there is one, and a readyWhen expression with the same text, once
\* processed, has replaced the cached one.
VariableCell ==
    [rank \in Rankings |-> [r \in Resource |-> [e \in Mentions[r] |->
        IF \E q \in Resource : rank[q] < rank[r] /\ e \in ReadyWhen[q]
          THEN ReadyWhenCell
          ELSE FieldCell(FirstField(FirstUser(rank, e), e))]]]

\* The state that expressionsCache[e] points to in the end.
CacheCell ==
    [rank \in Rankings |-> [e \in Cached |->
        IF \E q \in Resource : e \in ReadyWhen[q]
          THEN ReadyWhenCell
          ELSE IF \E q \in Resource : e \in Mentions[q]
                 THEN FieldCell(FirstField(FirstUser(rank, e), e))
                 ELSE [kind |-> "dynamic", deps |-> Refs[e]]]]

-----------------------------------------------------------------------------
(***************************************************************************)
(* Queries.                                                                *)
(***************************************************************************)

\* An expression of r counts as unresolved when the state r points to is
\* dynamic and has no value; values are only ever given to cached states.
ResourceVariablesResolved(rank, resolved, r) ==
    \A e \in Mentions[r] :
        VariableCell[rank][r][e].kind = "dynamic" =>
            e \in resolved /\ VariableCell[rank][r][e] = CacheCell[rank][e]

CanProcessResource(rank, resolved, r) ==
    \A d \in GetDependencies[r] \cup {r} :
        ResourceVariablesResolved(rank, resolved, d)

\* GetResource(r) returns ResourceStateResolved.
IsResolved(rank, resolved, seen, r) ==
    seen[r] # "none" \/ CanProcessResource(rank, resolved, r)

\* Every resource that can be processed has a value for its expressions.
PropagateResourceVariables(rank, resolved) ==
    \A r \in Resource :
        CanProcessResource(rank, resolved, r) => Mentions[r] \subseteq resolved

-----------------------------------------------------------------------------
(***************************************************************************)
(* Operations.                                                             *)
(***************************************************************************)

\* evaluateStaticVariables.
StaticExprs(rank) == {e \in Cached : CacheCell[rank][e].kind = "static"}

\* The expressions evaluateDynamicVariables evaluates: dynamic ones with no
\* value whose dependencies have all been set.
Evaluable(rank, resolved, seen) ==
    {e \in Cached \ resolved :
        /\ CacheCell[rank][e].kind = "dynamic"
        /\ \A d \in CacheCell[rank][e].deps : seen[d] # "none"}

\* Mutant: reading a field that is not there gives a value.
MissingFieldIsRead(rank, resolved, seen) == FALSE

\* Reading a field that the observed object does not have is an error, and
\* the first error ends the evaluation.
EvaluationFails(rank, resolved, seen) ==
    \E e \in Evaluable(rank, resolved, seen) :
        \E d \in Refs[e] : seen[d] # "full"

\* The expressions with a value after Synchronize.
SynchronizedExprs(rank, resolved, seen) ==
    resolved \cup Evaluable(rank, resolved, seen)

\* Synchronize returns no error.
SynchronizeSucceeds(rank, resolved, seen) ==
    /\ ~EvaluationFails(rank, resolved, seen)
    /\ PropagateResourceVariables(rank, SynchronizedExprs(rank, resolved, seen))

\* NewResourceGroupRuntime returns no error.
NewRuntimeSucceeds(rank) == PropagateResourceVariables(rank, StaticExprs(rank))

-----------------------------------------------------------------------------
\* Every expression with a value reads only resources that were observed.
ReadsObserved(resolved, seen) ==
    /\ resolved \subseteq Cached
    /\ \A e \in resolved : \A d \in Refs[e] : seen[d] # "none"

\* The hypothesis under which a resource whose dependencies have all been
\* observed can be processed: wherever the text of an expression of r also
\* occurs, it occurs in a field that depends on nothing but dependencies of r,
\* and never as a readyWhen expression.  The builder does not check it.
Unaliased ==
    \A q, r \in Resource : \A e \in Mentions[r] :
        /\ e \notin ReadyWhen[q]
        /\ e \in Mentions[q] =>
              FieldDeps(FirstField(q, e)) \subseteq GetDependencies[r]
=============================================================================
