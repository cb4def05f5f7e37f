----------------------------- MODULE Inspector -----------------------------
(***************************************************************************)
(* The inspector of CEL expressions (pkg/cel/ast/inspector.go): it walks   *)
(* the syntax tree that cel-go parsed and collects the resources and the   *)
(* functions that are used.  The paths below the resources and the printed *)
(* form of function calls, which nobody uses, are left out.                *)
(*                                                                         *)
(* The variables of the comprehensions the walk is inside of are kept in   *)
(* one set, loopVars: a comprehension adds its variable when it is entered *)
(* and deletes it when it is left.                                         *)
(***************************************************************************)
EXTENDS Integers, Sequences

CONSTANTS
    Tree,       \* the syntax trees, with all their parts
    Size(_),    \* how many nodes a tree has
    Name        \* the identifiers in them, and the names of resources

\* Syntax trees.
Ident(n) == [kind |-> "ident", name |-> n]
Select(e) == [kind |-> "select", operand |-> e]
Call(f, args) ==
    [kind |-> "call", function |-> f, target |-> <<>>, args |-> args]
Method(e, f, args) ==
    [kind |-> "call", function |-> f, target |-> <<e>>, args |-> args]
List(es) == [kind |-> "list", elements |-> es]
Const == [kind |-> "const"]

\* The accumulator __result__ of a comprehension, an internal identifier.
Result == [kind |-> "internal"]

Comprehension(v, range, condition, step) ==
    [kind |-> "comprehension", iterVar |-> v, iterRange |-> range,
     loopCondition |-> condition, loopStep |-> step, result |-> Result]

\* How the parser of cel-go expands its macros.
Filter(range, v, p) ==
    Comprehension(v, range, Const,
        Call("_?_:_",
             <<p, Call("_+_", <<Result, List(<<Ident(v)>>)>>), Result>>))
Map(range, v, t) ==
    Comprehension(v, range, Const, Call("_+_", <<Result, List(<<t>>)>>))
All(range, v, p) ==
    Comprehension(v, range, Call("@not_strictly_false", <<Result>>),
        Call("_&&_", <<Result, p>>))

\* The parts of a tree: the arguments of a call before its target.
Parts(e) ==
    CASE e.kind = "select" -> <<e.operand>>
      [] e.kind = "call" -> e.args \o e.target
      [] e.kind = "list" -> e.elements
      [] e.kind = "comprehension" ->
           <<e.iterRange, e.loopCondition, e.loopStep, e.result>>
      [] OTHER -> <<>>

ASSUME TreeAssumption ==
    \A e \in Tree :
        /\ Parts(e) \in Seq(Tree)
        /\ Size(e) \in Nat
        /\ \A i \in DOMAIN Parts(e) : Size(Parts(e)[i]) < Size(e)
        /\ e.kind = "ident" => e.name \in Name
        /\ e.kind = "comprehension" => e.iterVar \in Name

-----------------------------------------------------------------------------
\* isInternalFunction
InternalFunctions ==
    {"_+_", "_-_", "_*_", "_/_", "_%_", "_<_", "_<=_", "_>_", "_>=_", "_==_",
     "_!=_", "_&&_", "_||_", "_?_:_", "_[_]", "size", "in", "matches", "int",
     "uint", "double", "bool", "string", "bytes", "timestamp", "duration",
     "type", "filter", "map", "all", "exists", "exists_one"}

\* The parts of e that the walk comes to, in order: no part of a literal.
Visited(e) == IF e.kind = "list" THEN <<>> ELSE Parts(e)

\* The loop variables that the walk over e deletes: those of its
\* comprehensions, even where an outer one has the same variable.
Deleted[e \in Tree] ==
    (IF e.kind = "comprehension" THEN {e.iterVar} ELSE {})
      \cup UNION {Deleted[Visited(e)[i]] : i \in DOMAIN Visited(e)}

\* The findings in the parts of e, each walked by inspectAst; what one part
\* deletes is unknown in the next.
InspectParts(inspectAst, e, names, loopVars) ==
    UNION {inspectAst[Visited(e)[i]][names]
             [loopVars \ (UNION {Deleted[Visited(e)[j]] : j \in 1..(i - 1)})] :
              i \in DOMAIN Visited(e)}

\* A function is unknown if it has no target and is not internal.
InspectCall(inspectAst, call, names, loopVars) ==
    InspectParts(inspectAst, call, names, loopVars)
      \cup IF call.target # <<>> \/ call.function \in InternalFunctions
             THEN {} ELSE {<<"unknown function", call.function>>}

\* A loop variable hides a resource; what is neither is unknown.
InspectIdent(ident, names, loopVars) ==
    IF ident.name \in loopVars THEN {}
    ELSE {<<IF ident.name \in names THEN "resource" ELSE "unknown resource",
            ident.name>>}

\* The loop variable is known in the range too.
InspectComprehension(inspectAst, comp, names, loopVars) ==
    InspectParts(inspectAst, comp, names, loopVars \cup {comp.iterVar})

\* A function of the tree, the names of resources and the loop variables.
InspectAst[e \in Tree] ==
  [names \in SUBSET Name |-> [loopVars \in SUBSET Name |->
    CASE e.kind = "select" -> InspectParts(InspectAst, e, names, loopVars)
      [] e.kind = "call" -> InspectCall(InspectAst, e, names, loopVars)
      [] e.kind = "ident" -> InspectIdent(e, names, loopVars)
      [] e.kind = "comprehension" ->
           InspectComprehension(InspectAst, e, names, loopVars)
      [] OTHER -> {}]]

\* Inspect, by an inspector that knows the given names of resources: what is
\* found, by kind.
Found(kind, e, names) ==
    {f[2] : f \in {g \in InspectAst[e][names][{}] : g[1] = kind}}

-----------------------------------------------------------------------------
(***************************************************************************)
(* Reference: the names that the evaluation of e looks up.  The variable   *)
(* of a comprehension is bound in its loop, and in its loop only.          *)
(***************************************************************************)
FreeNames[e \in Tree] ==
    CASE e.kind = "ident" -> {e.name}
      [] e.kind = "comprehension" ->
           FreeNames[e.iterRange] \cup FreeNames[e.result]
             \cup ((FreeNames[e.loopCondition] \cup FreeNames[e.loopStep])
                     \ {e.iterVar})
      [] OTHER -> UNION {FreeNames[Parts(e)[i]] : i \in DOMAIN Parts(e)}

NamesIn(e) == FreeNames[e]

\* In the trees of T no literal reads one of the names, and no loop variable
\* is called like one.
ReadsShow(T, names) ==
    \A e \in T :
        /\ \A i \in DOMAIN Visited(e) : Visited(e)[i] \in T
        /\ e.kind = "list" => NamesIn(e) \cap names = {}
        /\ e.kind = "comprehension" => e.iterVar \notin names

\* The trees of T call internal functions and methods only, and no variable
\* is taken again within its loop.
Familiar(T) ==
    \A e \in T :
        /\ \A i \in DOMAIN Visited(e) : Visited(e)[i] \in T
        /\ e.kind = "call" =>
              e.target # <<>> \/ e.function \in InternalFunctions
        /\ e.kind = "comprehension" =>
              \A i \in DOMAIN Visited(e) :
                  e.iterVar \notin Deleted[Visited(e)[i]]
=============================================================================
