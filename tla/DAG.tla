--------------------------------- MODULE DAG ---------------------------------
(***************************************************************************)
(* The dependency graph of a ResourceGroup (internal/graph/dag/dag.go): a  *)
(* graph that AddEdge keeps acyclic, and its topological order.  An edge   *)
(* from one vertex to another says that the first depends on the second.   *)
(*                                                                         *)
(* HasCycle and TopologicalSort are depth-first searches.  A step here is  *)
(* a call or a return of dfs or one turn of its loop over the neighbours.  *)
(* HasCycle iterates over maps, whose order Go leaves open, so it may take *)
(* any neighbour next; TopologicalSort takes the least.                    *)
(***************************************************************************)
EXTENDS Integers, Sequences, FiniteSets

CONSTANT Node     \* the ids, as numbers in their alphabetical order

ASSUME NodeAssumption == Node \subseteq Nat

VARIABLES
    vertices,   \* the keys of Vertices
    edges,      \* <<from, to>>: to is in Vertices[from].Edges
    op,         \* "idle", "addEdge" or "checkSort" while HasCycle runs,
                \* "sort" while the search of TopologicalSort runs
    pending,    \* the edge that AddEdge has just added
    visited,
    recStack,
    path,       \* the calls of dfs in progress, outermost first: cyclePath
    todo,       \* todo[n]: the neighbours that dfs(n) has yet to look at
    order,      \* the result of TopologicalSort, as far as it is built
    cycle       \* the cycle that the last call found

search == <<visited, recStack, path, todo>>
vars == <<vertices, edges, op, pending, search, order, cycle>>

Searching == op \in {"addEdge", "checkSort"}

TypeOK ==
    /\ vertices \subseteq Node
    /\ edges \subseteq vertices \X vertices
    /\ op \in {"idle", "addEdge", "checkSort", "sort"}
    /\ pending \in {<<>>} \cup (vertices \X vertices)
    /\ visited \subseteq vertices
    /\ recStack \subseteq visited
    /\ path \in Seq(visited)
    /\ todo \in [Node -> SUBSET Node]
    /\ order \in Seq(vertices)
    /\ cycle \in Seq(vertices)

-----------------------------------------------------------------------------
Edges(n) == {m \in vertices : <<n, m>> \in edges}

Top == path[Len(path)]

\* A search with no call in progress.
StartSearch ==
    /\ visited' = {}
    /\ recStack' = {}
    /\ path' = <<>>
    /\ todo' = [n \in Node |-> {}]

\* A call forgets the result of the one before it.
NoResult == pending' = <<>> /\ order' = <<>> /\ cycle' = <<>>

\* dfs(n) is called.
Call(n) ==
    /\ visited' = visited \cup {n}
    /\ path' = Append(path, n)

-----------------------------------------------------------------------------
AddVertex(n) ==
    /\ op = "idle"
    /\ n \notin vertices
    /\ vertices' = vertices \cup {n}
    /\ NoResult
    /\ UNCHANGED <<edges, op, search>>

\* Mutant: an edge from a vertex that does not exist.
AddEdgeUnchecked(from, to) ==
    /\ op = "idle"
    /\ to \in vertices
    /\ from # to
    /\ edges' = edges \cup {<<from, to>>}
    /\ pending' = <<from, to>>
    /\ op' = "addEdge"
    /\ StartSearch
    /\ cycle' = <<>>
    /\ order' = <<>>
    /\ UNCHANGED vertices

\* The edge is added first and taken back if it closes a cycle.
AddEdge(from, to) ==
    /\ op = "idle"
    /\ from \in vertices
    /\ to \in vertices
    /\ from # to
    /\ edges' = edges \cup {<<from, to>>}
    /\ pending' = <<from, to>>
    /\ op' = "addEdge"
    /\ StartSearch
    /\ cycle' = <<>>
    /\ order' = <<>>
    /\ UNCHANGED vertices

TopologicalSort ==
    /\ op = "idle"
    /\ op' = "checkSort"
    /\ StartSearch
    /\ NoResult
    /\ UNCHANGED <<vertices, edges>>

-----------------------------------------------------------------------------
(***************************************************************************)
(* HasCycle.                                                               *)
(***************************************************************************)

\* Mutant: a vertex is not marked as visited.
EnterUnmarked(n) ==
    /\ path' = Append(path, n)
    /\ recStack' = recStack \cup {n}
    /\ UNCHANGED visited

Enter(n) ==
    /\ Call(n)
    /\ recStack' = recStack \cup {n}

VisitRoot(n) ==
    /\ Searching
    /\ path = <<>>
    /\ n \in vertices \ visited
    /\ Enter(n)
    /\ todo' = [todo EXCEPT ![n] = Edges(n)]
    /\ UNCHANGED <<vertices, edges, op, pending, order, cycle>>

VisitNeighbor(n) ==
    /\ Searching
    /\ path # <<>>
    /\ n \in todo[Top] \ visited
    /\ Enter(n)
    /\ todo' = [todo EXCEPT ![Top] = @ \ {n}, ![n] = Edges(n)]
    /\ UNCHANGED <<vertices, edges, op, pending, order, cycle>>

\* A neighbour whose call has returned.
PassNeighbor(n) ==
    /\ Searching
    /\ path # <<>>
    /\ n \in (todo[Top] \cap visited) \ recStack
    /\ todo' = [todo EXCEPT ![Top] = @ \ {n}]
    /\ UNCHANGED <<vertices, edges, op, pending, visited, recStack, path,
                   order, cycle>>

\* dfs returns false.
Leave ==
    /\ Searching
    /\ path # <<>>
    /\ todo[Top] = {}
    /\ recStack' = recStack \ {Top}
    /\ path' = SubSeq(path, 1, Len(path) - 1)
    /\ UNCHANGED <<vertices, edges, op, pending, visited, todo, order, cycle>>

\* Mutant: the path is closed but not trimmed.
WholePathTo(n) == Append(path, n)

\* cyclePath, closed by n and trimmed to start at the first n.
ClosedBy(n) ==
    LET start == CHOOSE i \in 1..Len(path) :
                    path[i] = n /\ \A j \in 1..(i - 1) : path[j] # n
    IN  SubSeq(path, start, Len(path)) \o <<n>>

\* Mutant: the edge that closes a cycle stays.
FindCycleKeepsEdge(n) ==
    /\ Searching
    /\ path # <<>>
    /\ n \in todo[Top] \cap recStack
    /\ cycle' = ClosedBy(n)
    /\ op' = "idle"
    /\ StartSearch
    /\ UNCHANGED <<vertices, edges, pending, order>>

\* HasCycle returns true: AddEdge takes its edge back, and TopologicalSort
\* returns an error.
FindCycle(n) ==
    /\ Searching
    /\ path # <<>>
    /\ n \in todo[Top] \cap recStack
    /\ cycle' = ClosedBy(n)
    /\ edges' = IF op = "addEdge" THEN edges \ {pending} ELSE edges
    /\ op' = "idle"
    /\ StartSearch
    /\ UNCHANGED <<vertices, pending, order>>

\* HasCycle returns false: AddEdge is done, and TopologicalSort goes on.
NoCycle ==
    /\ Searching
    /\ path = <<>>
    /\ visited = vertices
    /\ op' = IF op = "addEdge" THEN "idle" ELSE "sort"
    /\ StartSearch
    /\ UNCHANGED <<vertices, edges, pending, order, cycle>>

-----------------------------------------------------------------------------
(***************************************************************************)
(* The search of TopologicalSort.                                          *)
(***************************************************************************)

\* The roots in the order of GetVertices.
SortRoot(n) ==
    /\ op = "sort"
    /\ path = <<>>
    /\ n \in vertices \ visited
    /\ \A m \in vertices \ visited : n <= m
    /\ Call(n)
    /\ todo' = [todo EXCEPT ![n] = Edges(n)]
    /\ UNCHANGED <<vertices, edges, op, pending, recStack, order, cycle>>

\* The next of the sorted neighbours is visited unless it has been.
SortNeighbor(n) ==
    /\ op = "sort"
    /\ path # <<>>
    /\ n \in todo[Top]
    /\ \A m \in todo[Top] : n <= m
    /\ IF n \in visited
         THEN /\ todo' = [todo EXCEPT ![Top] = @ \ {n}]
              /\ UNCHANGED <<visited, path>>
         ELSE /\ Call(n)
              /\ todo' = [todo EXCEPT ![Top] = @ \ {n}, ![n] = Edges(n)]
    /\ UNCHANGED <<vertices, edges, op, pending, recStack, order, cycle>>

\* Mutant: a vertex precedes its neighbours.
SortLeaveReversed ==
    /\ op = "sort"
    /\ path # <<>>
    /\ todo[Top] = {}
    /\ order' = <<Top>> \o order
    /\ path' = SubSeq(path, 1, Len(path) - 1)
    /\ UNCHANGED <<vertices, edges, op, pending, visited, recStack, todo, cycle>>

\* A vertex follows all its neighbours.
SortLeave ==
    /\ op = "sort"
    /\ path # <<>>
    /\ todo[Top] = {}
    /\ order' = Append(order, Top)
    /\ path' = SubSeq(path, 1, Len(path) - 1)
    /\ UNCHANGED <<vertices, edges, op, pending, visited, recStack, todo, cycle>>

SortDone ==
    /\ op = "sort"
    /\ path = <<>>
    /\ visited = vertices
    /\ op' = "idle"
    /\ StartSearch
    /\ UNCHANGED <<vertices, edges, pending, order, cycle>>

-----------------------------------------------------------------------------
Init ==
    /\ vertices = {}
    /\ edges = {}
    /\ op = "idle"
    /\ pending = <<>>
    /\ visited = {}
    /\ recStack = {}
    /\ path = <<>>
    /\ todo = [n \in Node |-> {}]
    /\ order = <<>>
    /\ cycle = <<>>

Search ==
    \/ Leave \/ NoCycle \/ SortLeave \/ SortDone
    \/ \E n \in Node : \/ VisitRoot(n) \/ VisitNeighbor(n) \/ PassNeighbor(n)
                       \/ FindCycle(n) \/ SortRoot(n) \/ SortNeighbor(n)

Next ==
    \/ \E n \in Node : AddVertex(n)
    \/ \E from, to \in Node : AddEdge(from, to)
    \/ TopologicalSort
    \/ Search

Spec == Init /\ [][Next]_vars /\ WF_vars(Search)

-----------------------------------------------------------------------------
(***************************************************************************)
(* Properties.                                                             *)
(***************************************************************************)

\* No cycle: each nonempty set of vertices has a member without an edge into
\* the set.
AcyclicOn(V, E) ==
    \A S \in SUBSET V : S # {} => \E n \in S : \A m \in S : <<n, m>> \notin E

\* The graph has no cycle, except while AddEdge examines the edge it has just
\* added; the search of HasCycle decides that for every order in which it can
\* iterate over its maps.
Acyclic == op # "addEdge" => AcyclicOn(vertices, edges)

\* AddEdge refuses an edge only for a cycle that is there: what it reports is
\* a closed walk through the new edge, with no vertex twice (CycleError).
ReportedCycle ==
    cycle # <<>> =>
        LET last == Len(cycle)
        IN  /\ last > 2
            /\ cycle[1] = cycle[last]
            /\ \A i, j \in 1..(last - 1) : cycle[i] = cycle[j] => i = j
            /\ \A i \in 1..(last - 1) :
                  <<cycle[i], cycle[i + 1]>> \in edges \cup {pending}
            /\ \E i \in 1..(last - 1) : <<cycle[i], cycle[i + 1]>> = pending

\* TopologicalSort returns each vertex once, after all that it depends on: the
\* order that reconcileInstance and deleteResourcesInOrder follow.
ValidOrder ==
    op = "idle" /\ order # <<>> =>
        /\ Len(order) = Cardinality(vertices)
        /\ \A n \in vertices : \E i \in 1..Len(order) : order[i] = n
        /\ \A i, j \in 1..Len(order) : <<order[i], order[j]>> \in edges => j < i

\* AddEdge and TopologicalSort return.
SearchEnds == op # "idle" ~> op = "idle"
=============================================================================
