------------------------------ MODULE DAGProofs ------------------------------
(***************************************************************************)
(* What the graph of dag.go promises, for every set of ids and every       *)
(* sequence of calls: it has no cycle, a cycle that is reported is one,    *)
(* and a sort puts every vertex after all that it depends on.              *)
(*                                                                         *)
(* The searches are recursive in the code and sequences of steps in the    *)
(* model, so that what they compute is an invariant of their steps: what   *)
(* dfs has returned from is closed under edges and free of cycles, and     *)
(* the calls in progress are a path.                                       *)
(***************************************************************************)
EXTENDS DAG, FiniteSetTheorems, SequenceTheorems, TLAPS

\* dfs(n) is in progress.
OnPath(n) == \E i \in 1..Len(path) : path[i] = n

\* The calls of dfs that have returned.
Returned == {n \in visited : ~OnPath(n)}

\* The calls in progress are a path of the graph without repetition.
PathIsSimple ==
    /\ \A i, j \in 1..Len(path) : path[i] = path[j] => i = j
    /\ \A i \in 1..(Len(path) - 1) : <<path[i], path[i + 1]>> \in edges

\* A call has yet to look at a neighbour, or the neighbour has returned, or is
\* the next call.
Progress ==
    \A i \in 1..Len(path) :
        /\ todo[path[i]] \subseteq Edges(path[i])
        /\ \A m \in Edges(path[i]) \ todo[path[i]] :
              m \in Returned \/ (i < Len(path) /\ m = path[i + 1])

\* What returned has no edge to what did not.
ReturnedIsClosed == \A n \in Returned : Edges(n) \subseteq Returned

WalkInv == PathIsSimple /\ Progress /\ ReturnedIsClosed

\* recStack has the calls in progress of HasCycle, which found no cycle in what
\* returned.
SearchInv ==
    /\ WalkInv
    /\ \A n \in Node : n \in recStack <=> Searching /\ OnPath(n)
    /\ op = "idle" => visited = {} /\ path = <<>>
    /\ Searching => AcyclicOn(Returned, edges)

\* The graph without the edge that AddEdge examines has no cycle.
Settled == IF op = "addEdge" THEN edges \ {pending} ELSE edges

GraphInv ==
    /\ AcyclicOn(vertices, Settled)
    /\ \A n \in Node : <<n, n>> \notin edges
    /\ op = "addEdge" => pending # <<>>
    /\ op # "idle" => cycle = <<>>
    /\ Searching => order = <<>>

InOrder(n) == \E i \in 1..Len(order) : order[i] = n

\* The order, as far as it is built, has what returned, each vertex once and
\* after its neighbours.
OrderInv ==
    /\ \A i, j \in 1..Len(order) : order[i] = order[j] => i = j
    /\ \A i \in 1..Len(order) : \A m \in Edges(order[i]) :
          \E j \in 1..(i - 1) : order[j] = m
    /\ op = "sort" => \A n \in vertices : InOrder(n) <=> n \in Returned
    /\ op = "idle" /\ order # <<>> => \A n \in vertices : InOrder(n)

DAGInv == TypeOK /\ SearchInv /\ GraphInv /\ OrderInv /\ ReportedCycle

-----------------------------------------------------------------------------
(***************************************************************************)
(* Graphs without cycles, and sequences.                                   *)
(***************************************************************************)

\* A part of a graph without cycles has none.
LEMMA AcyclicPart ==
    ASSUME NEW V, NEW E, NEW W, NEW F, AcyclicOn(V, E), W \subseteq V,
           \A m, n \in W : <<m, n>> \in F => <<m, n>> \in E
    PROVE  AcyclicOn(W, F)
  BY DEF AcyclicOn

\* A vertex that nothing has an edge to, itself included, closes no cycle.
LEMMA AcyclicExtended ==
    ASSUME NEW V, NEW E, NEW n, AcyclicOn(V, E), <<n, n>> \notin E,
           \A m \in V : <<m, n>> \notin E
    PROVE  AcyclicOn(V \cup {n}, E)
<1> SUFFICES ASSUME NEW S \in SUBSET (V \cup {n}), S # {}
             PROVE  \E k \in S : \A m \in S : <<k, m>> \notin E
  BY DEF AcyclicOn
<1>1. CASE S \cap V = {}
  <2>1. S = {n}
    BY <1>1
  <2> QED
    BY <2>1
<1>2. CASE S \cap V # {}
  <2>1. PICK k \in S \cap V : \A m \in S \cap V : <<k, m>> \notin E
    BY <1>2 DEF AcyclicOn
  <2> QED
    BY <2>1
<1> QED
  BY <1>1, <1>2

\* A path whose last vertex has an edge back to one of its vertices is a cycle.
LEMMA BackEdge ==
    ASSUME NEW V, NEW E, NEW s \in Seq(V), NEW k \in 1..Len(s),
           \A i \in k..(Len(s) - 1) : <<s[i], s[i + 1]>> \in E,
           <<s[Len(s)], s[k]>> \in E
    PROVE  ~AcyclicOn(V, E)
<1> DEFINE S == {s[i] : i \in k..Len(s)}
<1>1. S \in SUBSET V /\ S # {}
  <2>1. \A i \in k..Len(s) : s[i] \in V
    OBVIOUS
  <2>2. s[k] \in S
    OBVIOUS
  <2> QED
    BY <2>1, <2>2
<1>2. ASSUME NEW n \in S
      PROVE  \E m \in S : <<n, m>> \in E
  <2>1. PICK i \in k..Len(s) : n = s[i]
    OBVIOUS
  <2>2. CASE i = Len(s)
    <3>1. <<n, s[k]>> \in E /\ s[k] \in S
      BY <2>1, <2>2
    <3> QED
      BY <3>1
  <2>3. CASE i # Len(s)
    <3>1. i \in k..(Len(s) - 1) /\ i + 1 \in k..Len(s)
      BY <2>3
    <3> QED
      BY <2>1, <3>1
  <2> QED
    BY <2>2, <2>3
<1> HIDE DEF S
<1> QED
  BY <1>1, <1>2 DEF AcyclicOn

\* Appending to a sequence, and dropping its last element.
LEMMA Appended ==
    ASSUME NEW S, NEW s \in Seq(S), NEW x
    PROVE  /\ Len(Append(s, x)) = Len(s) + 1
           /\ \A i \in 1..Len(s) : Append(s, x)[i] = s[i]
           /\ Append(s, x)[Len(s) + 1] = x
           /\ Append(s, x) \in Seq(S \cup {x})
<1>1. s \in Seq(S \cup {x})
  OBVIOUS
<1> QED
  BY <1>1

LEMMA Shortened ==
    ASSUME NEW S, NEW s \in Seq(S), s # <<>>
    PROVE  /\ Len(s) \in Nat \ {0}
           /\ SubSeq(s, 1, Len(s) - 1) \in Seq(S)
           /\ Len(SubSeq(s, 1, Len(s) - 1)) = Len(s) - 1
           /\ \A i \in 1..(Len(s) - 1) : SubSeq(s, 1, Len(s) - 1)[i] = s[i]
<1> DEFINE n == Len(s) - 1
<1>1. Len(s) \in Nat \ {0}
  BY EmptySeq
<1>2. 1 \in Int /\ n \in Int /\ n \in Nat /\ \A i \in 1..n : s[i] \in S
  BY <1>1
<1> HIDE DEF n
<1>3. /\ SubSeq(s, 1, n) \in Seq(S)
      /\ Len(SubSeq(s, 1, n)) = IF 1 <= n THEN n - 1 + 1 ELSE 0
      /\ \A i \in 1..(n - 1 + 1) : SubSeq(s, 1, n)[i] = s[1 + i - 1]
  BY <1>2, SubSeqProperties
<1>4. Len(SubSeq(s, 1, n)) = n
  BY <1>2, <1>3
<1>5. ASSUME NEW i \in 1..n
      PROVE  SubSeq(s, 1, n)[i] = s[i]
  <2>1. i \in 1..(n - 1 + 1) /\ 1 + i - 1 = i
    BY <1>2
  <2> QED
    BY <1>3, <2>1
<1> QED
  BY <1>1, <1>3, <1>4, <1>5, Zenon DEF n

-----------------------------------------------------------------------------
(***************************************************************************)
(* The two searches call dfs, return from it and pass over a neighbour in  *)
(* the same way.                                                           *)
(***************************************************************************)

WalkType ==
    /\ vertices \subseteq Node
    /\ edges \subseteq vertices \X vertices
    /\ visited \subseteq vertices
    /\ path \in Seq(visited)
    /\ todo \in [Node -> SUBSET Node]

Descend(n) ==
    /\ n \in vertices \ visited
    /\ path # <<>> => n \in todo[Top]
    /\ visited' = visited \cup {n}
    /\ path' = Append(path, n)
    /\ todo' = IF path = <<>> THEN [todo EXCEPT ![n] = Edges(n)]
               ELSE [todo EXCEPT ![Top] = @ \ {n}, ![n] = Edges(n)]
    /\ UNCHANGED <<vertices, edges>>

Retreat ==
    /\ path # <<>>
    /\ todo[Top] = {}
    /\ path' = SubSeq(path, 1, Len(path) - 1)
    /\ UNCHANGED <<vertices, edges, visited, todo>>

PassOver(n) ==
    /\ path # <<>>
    /\ n \in todo[Top]
    /\ n \in Returned
    /\ todo' = [todo EXCEPT ![Top] = @ \ {n}]
    /\ UNCHANGED <<vertices, edges, visited, path>>

\* The vertex of the innermost call.
LEMMA TopOfPath ==
    ASSUME WalkType, path # <<>>
    PROVE  /\ Len(path) \in Nat \ {0}
           /\ Len(path) \in 1..Len(path)
           /\ Top = path[Len(path)]
           /\ Top \in visited /\ Top \in Node /\ OnPath(Top)
<1>1. Len(path) \in Nat \ {0}
  BY EmptySeq DEF WalkType
<1>2. Len(path) \in 1..Len(path)
  BY <1>1
<1>3. path[Len(path)] \in visited
  BY <1>2, ElementOfSeq DEF WalkType
<1> QED
  BY <1>1, <1>2, <1>3 DEF WalkType, Top, OnPath

\* A call adds its vertex to the path; nothing has returned from it.
LEMMA DescendPath ==
    ASSUME WalkType, NEW n, Descend(n)
    PROVE  /\ path' \in Seq(visited')
           /\ Len(path') = Len(path) + 1
           /\ Len(path) \in Nat
           /\ \A i \in 1..Len(path) : path'[i] = path[i] /\ path[i] \in visited
           /\ path'[Len(path) + 1] = n
           /\ \A m : OnPath(m)' <=> OnPath(m) \/ m = n
           /\ Returned' = Returned
<1>1. path \in Seq(visited) /\ path' = Append(path, n) /\ visited' = visited \cup {n}
  BY DEF WalkType, Descend
<1>2. /\ Len(path') = Len(path) + 1
      /\ \A i \in 1..Len(path) : path'[i] = path[i]
      /\ path'[Len(path) + 1] = n
      /\ path' \in Seq(visited')
  BY <1>1, Appended
<1>3. Len(path) \in Nat /\ \A i \in 1..Len(path) : path[i] \in visited
  BY <1>1, ElementOfSeq
<1>4. ASSUME NEW m
      PROVE  OnPath(m)' <=> OnPath(m) \/ m = n
  <2>1. ASSUME OnPath(m)'
        PROVE  OnPath(m) \/ m = n
    <3>1. PICK i \in 1..Len(path') : path'[i] = m
      BY <2>1 DEF OnPath
    <3>2. i \in 1..Len(path) \/ i = Len(path) + 1
      BY <1>2, <1>3
    <3> QED
      BY <1>2, <3>1, <3>2 DEF OnPath
  <2>2. ASSUME OnPath(m)
        PROVE  OnPath(m)'
    <3>1. PICK i \in 1..Len(path) : path[i] = m
      BY <2>2 DEF OnPath
    <3>2. i \in 1..Len(path')
      BY <1>2, <1>3
    <3> QED
      BY <1>2, <3>1, <3>2 DEF OnPath
  <2>3. ASSUME m = n
        PROVE  OnPath(m)'
    <3>1. Len(path) + 1 \in 1..Len(path')
      BY <1>2, <1>3
    <3> QED
      BY <1>2, <2>3, <3>1 DEF OnPath
  <2> QED
    BY <2>1, <2>2, <2>3
<1>5. Returned' = Returned
  BY <1>1, <1>4 DEF Returned, Descend
<1> QED
  BY <1>2, <1>3, <1>4, <1>5

\* A call keeps the search in order.
LEMMA DescendKeeps ==
    ASSUME WalkType, WalkInv, NEW n, Descend(n)
    PROVE  WalkType' /\ WalkInv'
<1> DEFINE L == Len(path)
<1>1. /\ path' \in Seq(visited')
      /\ Len(path') = L + 1 /\ L \in Nat
      /\ \A i \in 1..L : path'[i] = path[i] /\ path[i] \in visited
      /\ path'[L + 1] = n
      /\ Returned' = Returned
  BY DescendPath
<1>2. n \notin visited /\ n \in vertices /\ n \in Node
  BY DEF Descend, WalkType
<1>3. L # 0 => path # <<>> /\ Top = path[L] /\ Top \in Node /\ Top # n
  <2>1. L # 0 => path # <<>>
    BY EmptySeq
  <2> QED
    BY <2>1, TopOfPath, <1>2
<1>4. L = 0 => path = <<>>
  BY EmptySeq DEF WalkType
<1>5. WalkType'
  <2>1. todo' \in [Node -> SUBSET Node]
    BY <1>2 DEF WalkType, Descend, Edges
  <2> QED
    BY <1>1, <2>1 DEF WalkType, Descend
<1> HIDE DEF L
<1>6. PathIsSimple'
  <2>1. \A i, j \in 1..(L + 1) : path'[i] = path'[j] => i = j
    <3> SUFFICES ASSUME NEW i \in 1..(L + 1), NEW j \in 1..(L + 1),
                        path'[i] = path'[j]
                 PROVE  i = j
      OBVIOUS
    <3>1. (i \in 1..L \/ i = L + 1) /\ (j \in 1..L \/ j = L + 1)
      BY <1>1
    <3> QED
      BY <1>1, <1>2, <3>1 DEF WalkInv, PathIsSimple, L
  <2>2. ASSUME NEW i \in 1..L
        PROVE  <<path'[i], path'[i + 1]>> \in edges
    <3>1. CASE i = L
      <4>1. n \in todo[Top]
        BY <1>1, <1>3, <3>1 DEF Descend
      <4>2. todo[path[L]] \subseteq Edges(path[L])
        BY <1>1, <3>1 DEF WalkInv, Progress, L
      <4>3. n \in Edges(path[L])
        BY <1>1, <1>3, <3>1, <4>1, <4>2
      <4> QED
        BY <1>1, <3>1, <4>3 DEF Edges
    <3>2. CASE i # L
      <4>1. i \in 1..(L - 1) /\ i + 1 \in 1..L
        BY <1>1, <3>2
      <4> QED
        BY <1>1, <4>1 DEF WalkInv, PathIsSimple, L
    <3> QED
      BY <3>1, <3>2
  <2>3. 1..(Len(path') - 1) = 1..L
    BY <1>1
  <2> QED
    BY <1>1, <2>1, <2>2, <2>3 DEF PathIsSimple, Descend
<1>7. Progress'
  <2>2. todo'[n] = Edges(n)
    BY <1>2 DEF WalkType, Descend
  <2>3. ASSUME NEW i \in 1..L
        PROVE  /\ todo'[path[i]] \subseteq Edges(path[i])
               /\ \A m \in Edges(path[i]) \ todo'[path[i]] :
                      m \in Returned \/ (i < L + 1 /\ m = path'[i + 1])
    <3>0. path # <<>> /\ Top = path[L] /\ Top \in Node /\ L \in 1..L
      BY <1>1, <1>3
    <3>1. path[i] \in Node /\ path[i] # n
      BY <1>1, <1>2 DEF WalkType
    <3>2. /\ todo[path[i]] \subseteq Edges(path[i])
          /\ \A m \in Edges(path[i]) \ todo[path[i]] :
                 m \in Returned \/ (i < L /\ m = path[i + 1])
      BY DEF WalkInv, Progress, L
    <3>3. CASE i = L
      <4>1. todo'[path[L]] = todo[path[L]] \ {n}
        BY <3>0, <3>1, <3>3, <1>2 DEF WalkType, Descend
      <4> QED
        BY <1>1, <3>2, <3>3, <4>1
    <3>4. CASE i # L
      <4>1. path[i] # path[L]
        BY <3>0, <3>4 DEF WalkInv, PathIsSimple, L
      <4>2. todo'[path[i]] = todo[path[i]]
        BY <3>0, <3>1, <4>1 DEF WalkType, Descend
      <4>3. i + 1 \in 1..L
        BY <1>1, <3>4
      <4> QED
        BY <1>1, <3>2, <4>2, <4>3
    <3> QED
      BY <3>3, <3>4
  <2>4. ASSUME NEW i \in 1..Len(path')
        PROVE  /\ todo'[path'[i]] \subseteq Edges(path'[i])
               /\ \A m \in Edges(path'[i]) \ todo'[path'[i]] :
                      m \in Returned \/ (i < Len(path') /\ m = path'[i + 1])
    <3>1. i \in 1..L \/ i = L + 1
      BY <1>1
    <3>2. CASE i \in 1..L
      BY <1>1, <2>3, <3>2
    <3>3. CASE i = L + 1
      BY <1>1, <2>2, <3>3
    <3> QED
      BY <3>1, <3>2, <3>3
  <2>5. vertices' = vertices /\ edges' = edges
    BY DEF Descend
  <2> QED
    BY <1>1, <2>4, <2>5 DEF Progress, Edges
<1>8. ReturnedIsClosed'
  BY <1>1 DEF WalkInv, ReturnedIsClosed, Edges, Descend
<1> QED
  BY <1>5, <1>6, <1>7, <1>8 DEF WalkInv

\* A return takes the vertex off the path, all of whose neighbours returned.
LEMMA RetreatPath ==
    ASSUME WalkType, WalkInv, Retreat
    PROVE  /\ path' \in Seq(visited')
           /\ Len(path') = Len(path) - 1
           /\ Len(path) \in Nat \ {0}
           /\ \A i \in 1..(Len(path) - 1) : path'[i] = path[i]
           /\ \A m : OnPath(m)' <=> OnPath(m) /\ m # Top
           /\ Returned' = Returned \cup {Top}
           /\ Top \notin Returned
           /\ Edges(Top) \subseteq Returned
<1> DEFINE L == Len(path)
<1>1. /\ L \in Nat \ {0} /\ L \in 1..L
      /\ Top = path[L]
      /\ Top \in visited /\ Top \in Node /\ OnPath(Top)
  BY TopOfPath DEF Retreat
<1>2. /\ path' \in Seq(visited)
      /\ Len(path') = L - 1
      /\ \A i \in 1..(L - 1) : path'[i] = path[i]
  BY Shortened DEF Retreat, WalkType
<1>3. visited' = visited /\ edges' = edges /\ todo[Top] = {}
  BY DEF Retreat
<1>4. ASSUME NEW m
      PROVE  OnPath(m)' <=> OnPath(m) /\ m # Top
  <2>1. ASSUME OnPath(m)'
        PROVE  OnPath(m) /\ m # Top
    <3>1. PICK i \in 1..Len(path') : path'[i] = m
      BY <2>1 DEF OnPath
    <3>2. i \in 1..(L - 1) /\ i \in 1..L /\ i # L
      BY <1>1, <1>2
    <3>3. path[i] = m
      BY <1>2, <3>1, <3>2
    <3>4. path[i] # path[L]
      BY <1>1, <3>2 DEF WalkInv, PathIsSimple
    <3> QED
      BY <1>1, <3>2, <3>3, <3>4 DEF OnPath
  <2>2. ASSUME OnPath(m), m # Top
        PROVE  OnPath(m)'
    <3>1. PICK i \in 1..L : path[i] = m
      BY <2>2 DEF OnPath
    <3>2. i # L
      BY <1>1, <2>2, <3>1
    <3>3. i \in 1..(L - 1) /\ i \in 1..Len(path')
      BY <1>1, <1>2, <3>2
    <3> QED
      BY <1>2, <3>1, <3>3 DEF OnPath
  <2> QED
    BY <2>1, <2>2
<1>5. Returned' = Returned \cup {Top} /\ Top \notin Returned
  <2>1. Returned' = {n \in visited : ~(OnPath(n) /\ n # Top)}
    BY <1>3, <1>4 DEF Returned
  <2> QED
    BY <1>1, <2>1 DEF Returned
<1>6. Edges(Top) \subseteq Returned
  <2>1. \A m \in Edges(path[L]) \ todo[path[L]] :
            m \in Returned \/ (L < Len(path) /\ m = path[L + 1])
    BY <1>1 DEF WalkInv, Progress
  <2> QED
    BY <1>1, <1>3, <2>1
<1> QED
  BY <1>1, <1>2, <1>3, <1>4, <1>5, <1>6

\* A return keeps the search in order.
LEMMA RetreatKeeps ==
    ASSUME WalkType, WalkInv, Retreat
    PROVE  WalkType' /\ WalkInv'
<1> DEFINE L == Len(path)
<1>1. /\ path' \in Seq(visited')
      /\ Len(path') = L - 1
      /\ L \in Nat \ {0}
      /\ \A i \in 1..(L - 1) : path'[i] = path[i]
      /\ Returned' = Returned \cup {Top}
      /\ Edges(Top) \subseteq Returned
  BY RetreatPath
<1>2. Top = path[L]
  BY DEF Top
<1>3. /\ vertices' = vertices /\ edges' = edges /\ visited' = visited
      /\ todo' = todo
  BY DEF Retreat
<1>4. WalkType'
  BY <1>1, <1>3 DEF WalkType
<1> HIDE DEF L
<1>5. PathIsSimple'
  <2>1. \A i, j \in 1..(L - 1) : path'[i] = path'[j] => i = j
    <3> SUFFICES ASSUME NEW i \in 1..(L - 1), NEW j \in 1..(L - 1),
                        path'[i] = path'[j]
                 PROVE  i = j
      OBVIOUS
    <3>1. i \in 1..L /\ j \in 1..L
      BY <1>1
    <3> QED
      BY <1>1, <3>1 DEF WalkInv, PathIsSimple, L
  <2>2. ASSUME NEW i \in 1..(L - 1 - 1)
        PROVE  <<path'[i], path'[i + 1]>> \in edges
    <3>1. i \in 1..(L - 1) /\ i + 1 \in 1..(L - 1)
      BY <1>1
    <3> QED
      BY <1>1, <3>1 DEF WalkInv, PathIsSimple, L
  <2> QED
    BY <1>1, <1>3, <2>1, <2>2 DEF PathIsSimple
<1>6. Progress'
  <2>1. ASSUME NEW i \in 1..(L - 1)
        PROVE  /\ todo[path'[i]] \subseteq Edges(path'[i])
               /\ \A m \in Edges(path'[i]) \ todo[path'[i]] :
                      \/ m \in Returned \cup {Top}
                      \/ i < L - 1 /\ m = path'[i + 1]
    <3>1. i \in 1..L
      BY <1>1
    <3>2. /\ todo[path[i]] \subseteq Edges(path[i])
          /\ \A m \in Edges(path[i]) \ todo[path[i]] :
                 m \in Returned \/ (i < L /\ m = path[i + 1])
      BY <3>1 DEF WalkInv, Progress, L
    <3>3. CASE i = L - 1
      <4>1. i + 1 = L
        BY <1>1, <3>3
      <4> QED
        BY <1>1, <1>2, <3>2, <4>1
    <3>4. CASE i # L - 1
      <4>1. i < L - 1 /\ i + 1 \in 1..(L - 1)
        BY <1>1, <3>4
      <4> QED
        BY <1>1, <3>2, <4>1
    <3> QED
      BY <3>3, <3>4
  <2> QED
    BY <1>1, <1>3, <2>1 DEF Progress, Edges
<1>7. ReturnedIsClosed'
  BY <1>1, <1>3 DEF WalkInv, ReturnedIsClosed, Edges
<1> QED
  BY <1>4, <1>5, <1>6, <1>7 DEF WalkInv

\* Passing over a neighbour that has returned keeps the search in order.
LEMMA PassOverKeeps ==
    ASSUME WalkType, WalkInv, NEW n, PassOver(n)
    PROVE  WalkType' /\ WalkInv' /\ Returned' = Returned
<1>1. /\ Len(path) \in Nat \ {0} /\ Len(path) \in 1..Len(path)
      /\ Top = path[Len(path)]
      /\ Top \in Node
  BY TopOfPath DEF PassOver
<1>2. /\ vertices' = vertices /\ edges' = edges /\ visited' = visited
      /\ path' = path
      /\ todo' = [todo EXCEPT ![Top] = @ \ {n}]
      /\ n \in Returned
  BY DEF PassOver
<1>3. WalkType'
  BY <1>1, <1>2 DEF WalkType
<1>4. Returned' = Returned
  BY <1>2 DEF Returned, OnPath
<1>5. PathIsSimple' /\ ReturnedIsClosed'
  BY <1>2, <1>4 DEF WalkInv, PathIsSimple, ReturnedIsClosed, Edges
<1>6. Progress'
  <2>1. ASSUME NEW i \in 1..Len(path)
        PROVE  /\ todo'[path[i]] \subseteq Edges(path[i])
               /\ \A m \in Edges(path[i]) \ todo'[path[i]] :
                      m \in Returned \/ (i < Len(path) /\ m = path[i + 1])
    <3>1. path[i] \in Node
      BY ElementOfSeq DEF WalkType
    <3>2. /\ todo[path[i]] \subseteq Edges(path[i])
          /\ \A m \in Edges(path[i]) \ todo[path[i]] :
                 m \in Returned \/ (i < Len(path) /\ m = path[i + 1])
      BY DEF WalkInv, Progress
    <3>3. todo'[path[i]] = todo[path[i]] \/ todo'[path[i]] = todo[path[i]] \ {n}
      BY <1>1, <1>2, <3>1 DEF WalkType
    <3> QED
      BY <1>2, <3>2, <3>3
  <2> QED
    BY <1>2, <1>4, <2>1 DEF Progress, Edges
<1> QED
  BY <1>3, <1>4, <1>5, <1>6 DEF WalkInv

\* A search that has just begun, or none.
LEMMA Beginning ==
    ASSUME visited' = {}, path' = <<>>, recStack' = {}
    PROVE  SearchInv' /\ Returned' = {} /\ \A n : ~OnPath(n)'
<1>1. Len(path') = 0 /\ 1..Len(path') = {} /\ 1..(Len(path') - 1) = {}
  OBVIOUS
<1>2. Returned' = {} /\ \A n : ~OnPath(n)'
  BY <1>1 DEF Returned, OnPath
<1>3. WalkInv'
  BY <1>1, <1>2 DEF WalkInv, PathIsSimple, Progress, ReturnedIsClosed
<1>4. AcyclicOn(Returned, edges)'
  BY <1>2 DEF AcyclicOn
<1> QED
  BY <1>2, <1>3, <1>4 DEF SearchInv

\* Nothing is sorted yet.
LEMMA NothingSorted ==
    ASSUME order' = <<>>, op' = "sort" => Returned' = {}
    PROVE  OrderInv'
<1>1. Len(order') = 0 /\ 1..Len(order') = {}
  OBVIOUS
<1> QED
  BY <1>1 DEF OrderInv, InOrder

-----------------------------------------------------------------------------
(***************************************************************************)
(* The calls: AddVertex, AddEdge, TopologicalSort.                         *)
(***************************************************************************)

\* The types of the search, among those of the graph.
LEMMA WalkTyped == TypeOK => WalkType
  BY DEF TypeOK, WalkType

\* StartSearch forgets the search before it.
LEMMA StartTyped ==
    ASSUME StartSearch
    PROVE  /\ visited' = {} /\ recStack' = {} /\ path' = <<>>
           /\ path' \in Seq(visited')
           /\ todo' \in [Node -> SUBSET Node]
  BY EmptySeq DEF StartSearch

\* Initially the graph is empty.
LEMMA InitGraph == Init => DAGInv
<1> SUFFICES ASSUME Init PROVE DAGInv
  OBVIOUS
<1>1. TypeOK
  BY EmptySeq DEF Init, TypeOK
<1>2. Len(path) = 0 /\ 1..Len(path) = {} /\ 1..(Len(path) - 1) = {}
  BY DEF Init
<1>3. Returned = {} /\ \A n : ~OnPath(n)
  BY <1>2 DEF Init, Returned, OnPath
<1>4. SearchInv
  BY <1>2, <1>3 DEF Init, SearchInv, WalkInv, PathIsSimple, Progress,
     ReturnedIsClosed, Searching
<1>5. GraphInv
  BY DEF Init, GraphInv, Settled, AcyclicOn
<1>6. OrderInv
  <2>1. 1..Len(order) = {}
    BY DEF Init
  <2> QED
    BY <2>1 DEF Init, OrderInv
<1>7. ReportedCycle
  BY DEF Init, ReportedCycle
<1> QED
  BY <1>1, <1>4, <1>5, <1>6, <1>7 DEF DAGInv

\* A new vertex has no edges.
LEMMA AddVertexKeeps ==
    ASSUME DAGInv, NEW n \in Node, AddVertex(n)
    PROVE  DAGInv'
<1>1. /\ op = "idle" /\ n \notin vertices /\ vertices' = vertices \cup {n}
      /\ pending' = <<>> /\ order' = <<>> /\ cycle' = <<>>
      /\ edges' = edges /\ op' = op
      /\ visited' = visited /\ recStack' = recStack /\ path' = path
      /\ todo' = todo
  BY DEF AddVertex, NoResult, search
<1>2. visited = {} /\ path = <<>> /\ recStack = {}
  BY <1>1 DEF DAGInv, TypeOK, SearchInv
<1>3. TypeOK'
  BY <1>1, EmptySeq DEF DAGInv, TypeOK
<1>4. SearchInv' /\ Returned' = {}
  BY <1>1, <1>2, Beginning
<1>5. OrderInv'
  BY <1>1, NothingSorted
<1>6. GraphInv'
  <2>1. AcyclicOn(vertices, edges)
    BY <1>1 DEF DAGInv, GraphInv, Settled
  <2>2. <<n, n>> \notin edges /\ \A m \in vertices : <<m, n>> \notin edges
    BY <1>1 DEF DAGInv, TypeOK
  <2>3. AcyclicOn(vertices \cup {n}, edges)
    BY <2>1, <2>2, AcyclicExtended
  <2> QED
    BY <1>1, <2>3 DEF DAGInv, GraphInv, Settled, Searching, AcyclicOn
<1> QED
  BY <1>1, <1>3, <1>4, <1>5, <1>6 DEF DAGInv, ReportedCycle

\* The edge is under examination; the graph without it is as before.
LEMMA AddEdgeKeeps ==
    ASSUME DAGInv, NEW from \in Node, NEW to \in Node, AddEdge(from, to)
    PROVE  DAGInv'
<1>1. /\ op = "idle" /\ from \in vertices /\ to \in vertices /\ from # to
      /\ edges' = edges \cup {<<from, to>>} /\ pending' = <<from, to>>
      /\ op' = "addEdge" /\ cycle' = <<>> /\ order' = <<>>
      /\ vertices' = vertices /\ StartSearch
  BY DEF AddEdge
<1>2. /\ visited' = {} /\ recStack' = {} /\ path' = <<>>
      /\ path' \in Seq(visited') /\ todo' \in [Node -> SUBSET Node]
  BY <1>1, StartTyped
<1>3. TypeOK'
  BY <1>1, <1>2, EmptySeq DEF DAGInv, TypeOK
<1>4. SearchInv' /\ OrderInv'
  BY <1>1, <1>2, Beginning, NothingSorted
<1>5. AcyclicOn(vertices, edges \ {<<from, to>>})
  <2>1. AcyclicOn(vertices, edges)
    BY <1>1 DEF DAGInv, GraphInv, Settled
  <2> QED
    BY <2>1, AcyclicPart
<1>6. GraphInv'
  <2>1. Settled' = edges \ {<<from, to>>}
    BY <1>1 DEF Settled
  <2>2. AcyclicOn(vertices, Settled)'
    BY <1>1, <1>5, <2>1 DEF AcyclicOn
  <2>3. \A n \in Node : <<n, n>> \notin edges'
    BY <1>1 DEF DAGInv, GraphInv
  <2> QED
    BY <1>1, <2>2, <2>3 DEF GraphInv
<1> QED
  BY <1>1, <1>3, <1>4, <1>6 DEF DAGInv, ReportedCycle

\* The sort begins with a search for cycles.
LEMMA TopologicalSortKeeps ==
    ASSUME DAGInv, TopologicalSort
    PROVE  DAGInv'
<1>1. /\ op = "idle" /\ op' = "checkSort" /\ StartSearch
      /\ pending' = <<>> /\ order' = <<>> /\ cycle' = <<>>
      /\ vertices' = vertices /\ edges' = edges
  BY DEF TopologicalSort, NoResult
<1>2. /\ visited' = {} /\ recStack' = {} /\ path' = <<>>
      /\ path' \in Seq(visited') /\ todo' \in [Node -> SUBSET Node]
  BY <1>1, StartTyped
<1>3. TypeOK'
  BY <1>1, <1>2, EmptySeq DEF DAGInv, TypeOK
<1>4. SearchInv' /\ OrderInv'
  BY <1>1, <1>2, Beginning, NothingSorted
<1>5. GraphInv'
  BY <1>1 DEF DAGInv, GraphInv, Settled, AcyclicOn
<1> QED
  BY <1>1, <1>3, <1>4, <1>5 DEF DAGInv, ReportedCycle

-----------------------------------------------------------------------------
(***************************************************************************)
(* The search of HasCycle.                                                 *)
(***************************************************************************)

\* While HasCycle searches, its steps leave the rest alone.
LEMMA StillSearching ==
    ASSUME DAGInv, Searching, UNCHANGED <<vertices, edges, op, pending, order, cycle>>
    PROVE  GraphInv' /\ OrderInv' /\ ReportedCycle' /\ op' \in {"addEdge", "checkSort"}
<1>1. op' # "sort" /\ order' = <<>> /\ cycle' = <<>>
  BY DEF DAGInv, GraphInv, Searching
<1>2. OrderInv'
  BY <1>1, NothingSorted
<1>3. GraphInv'
  BY DEF DAGInv, GraphInv, Settled, Searching, AcyclicOn
<1> QED
  BY <1>1, <1>2, <1>3 DEF ReportedCycle, Searching

\* dfs is called, for a root or for a neighbour.
LEMMA VisitKeeps ==
    ASSUME DAGInv, NEW n \in Node, VisitRoot(n) \/ VisitNeighbor(n)
    PROVE  DAGInv'
<1>1. /\ Searching /\ Descend(n) /\ recStack' = recStack \cup {n}
      /\ UNCHANGED <<vertices, edges, op, pending, order, cycle>>
  <2>1. CASE VisitRoot(n)
    BY <2>1 DEF VisitRoot, Enter, Call, Descend
  <2>2. CASE VisitNeighbor(n)
    <3>1. n \in vertices
      <4>1. Len(path) \in 1..Len(path) /\ Top = path[Len(path)]
        BY <2>2, WalkTyped, TopOfPath DEF DAGInv, VisitNeighbor
      <4>2. todo[Top] \subseteq Edges(Top)
        BY <4>1 DEF DAGInv, SearchInv, WalkInv, Progress
      <4> QED
        BY <2>2, <4>2 DEF VisitNeighbor, Edges
    <3> QED
      BY <2>2, <3>1 DEF VisitNeighbor, Enter, Call, Descend
  <2> QED
    BY <2>1, <2>2
<1>2. GraphInv' /\ OrderInv' /\ ReportedCycle' /\ op' \in {"addEdge", "checkSort"}
  BY <1>1, StillSearching
<1>3. WalkType' /\ WalkInv'
  BY <1>1, WalkTyped, DescendKeeps DEF DAGInv, SearchInv
<1>4. Returned' = Returned /\ \A m : OnPath(m)' <=> OnPath(m) \/ m = n
  BY <1>1, WalkTyped, DescendPath DEF DAGInv
<1>5. TypeOK'
  BY <1>1, <1>3 DEF DAGInv, TypeOK, WalkType, Descend
<1>6. SearchInv'
  BY <1>1, <1>3, <1>4 DEF DAGInv, SearchInv, Searching, AcyclicOn
<1> QED
  BY <1>2, <1>5, <1>6 DEF DAGInv

\* A neighbour that is visited and not in progress has returned.
LEMMA PassNeighborKeeps ==
    ASSUME DAGInv, NEW n \in Node, PassNeighbor(n)
    PROVE  DAGInv'
<1>1. /\ Searching
      /\ UNCHANGED <<vertices, edges, op, pending, visited, recStack, path,
                     order, cycle>>
  BY DEF PassNeighbor
<1>2. PassOver(n)
  BY DEF PassNeighbor, PassOver, Returned, DAGInv, SearchInv
<1>3. WalkType' /\ WalkInv' /\ Returned' = Returned
  BY <1>2, WalkTyped, PassOverKeeps DEF DAGInv, SearchInv
<1>4. GraphInv' /\ OrderInv' /\ ReportedCycle'
  BY <1>1, StillSearching
<1>5. TypeOK'
  BY <1>1, <1>3 DEF DAGInv, TypeOK, WalkType
<1>6. SearchInv'
  BY <1>1, <1>3 DEF DAGInv, SearchInv, Searching, AcyclicOn, OnPath
<1> QED
  BY <1>4, <1>5, <1>6 DEF DAGInv

\* What a vertex depends on has returned before it: it closes no cycle.
LEMMA LeaveKeeps ==
    ASSUME DAGInv, Leave
    PROVE  DAGInv'
<1>1. /\ Searching /\ Retreat /\ recStack' = recStack \ {Top}
      /\ UNCHANGED <<vertices, edges, op, pending, order, cycle>>
  BY DEF Leave, Retreat
<1>2. GraphInv' /\ OrderInv' /\ ReportedCycle' /\ op' \in {"addEdge", "checkSort"}
  BY <1>1, StillSearching
<1>3. WalkType' /\ WalkInv'
  BY <1>1, WalkTyped, RetreatKeeps DEF DAGInv, SearchInv
<1>4. /\ \A m : OnPath(m)' <=> OnPath(m) /\ m # Top
      /\ Returned' = Returned \cup {Top}
      /\ Top \notin Returned
  BY <1>1, WalkTyped, RetreatPath DEF DAGInv, SearchInv
<1>5. TypeOK'
  <2>1. recStack' \subseteq visited'
    BY <1>1 DEF DAGInv, TypeOK, Retreat
  <2> QED
    BY <1>1, <1>3, <2>1 DEF DAGInv, TypeOK, WalkType, Retreat
<1>6. AcyclicOn(Returned', edges)
  <2>1. Top \in Node /\ Top \in vertices
    BY <1>1, WalkTyped, TopOfPath DEF DAGInv, Retreat, TypeOK
  <2>2. <<Top, Top>> \notin edges
    BY <2>1 DEF DAGInv, GraphInv
  <2>3. \A m \in Returned : <<m, Top>> \notin edges
    BY <1>4, <2>1 DEF DAGInv, SearchInv, WalkInv, ReturnedIsClosed, Edges
  <2>4. AcyclicOn(Returned, edges)
    BY <1>1 DEF DAGInv, SearchInv
  <2> QED
    BY <1>4, <2>2, <2>3, <2>4, AcyclicExtended
<1>7. SearchInv'
  <2>1. AcyclicOn(Returned, edges)'
    BY <1>1, <1>6 DEF AcyclicOn
  <2>2. \A n \in Node : n \in recStack' <=> Searching' /\ OnPath(n)'
    BY <1>1, <1>4 DEF DAGInv, SearchInv, Searching
  <2> QED
    BY <1>2, <1>3, <2>1, <2>2 DEF SearchInv
<1> QED
  BY <1>2, <1>5, <1>7 DEF DAGInv

\* All vertices have returned.
LEMMA NoCycleKeeps ==
    ASSUME DAGInv, NoCycle
    PROVE  DAGInv'
<1>1. /\ Searching /\ path = <<>> /\ visited = vertices
      /\ op' = (IF op = "addEdge" THEN "idle" ELSE "sort")
      /\ StartSearch
      /\ vertices' = vertices /\ edges' = edges /\ pending' = pending
      /\ order' = order /\ cycle' = cycle
  BY DEF NoCycle
<1>2. /\ visited' = {} /\ recStack' = {} /\ path' = <<>>
      /\ path' \in Seq(visited') /\ todo' \in [Node -> SUBSET Node]
  BY <1>1, StartTyped
<1>3. order' = <<>> /\ cycle' = <<>>
  BY <1>1 DEF DAGInv, GraphInv, Searching
<1>4. TypeOK'
  BY <1>1, <1>2 DEF DAGInv, TypeOK
<1>5. SearchInv' /\ OrderInv'
  BY <1>2, <1>3, Beginning, NothingSorted
<1>6. Returned = vertices
  <2>1. 1..Len(path) = {}
    BY <1>1
  <2> QED
    BY <1>1, <2>1 DEF Returned, OnPath
<1>7. GraphInv'
  <2>1. AcyclicOn(vertices, edges)
    BY <1>1, <1>6 DEF DAGInv, SearchInv
  <2> QED
    BY <1>1, <1>3, <2>1 DEF DAGInv, GraphInv, Settled, Searching, AcyclicOn
<1> QED
  BY <1>3, <1>4, <1>5, <1>7 DEF DAGInv, ReportedCycle

\* A call in progress that is a neighbour of the innermost one closes a cycle
\* of the graph, which only the edge under examination can have made.
LEMMA ClosedPath ==
    ASSUME DAGInv, path # <<>>, NEW k \in 1..Len(path), path[k] \in todo[Top]
    PROVE  /\ k < Len(path)
           /\ <<Top, path[k]>> \in edges
           /\ op = "addEdge"
           /\ \/ \E i \in k..(Len(path) - 1) : <<path[i], path[i + 1]>> = pending
              \/ <<Top, path[k]>> = pending
<1> DEFINE L == Len(path)
<1>1. /\ L \in Nat \ {0} /\ L \in 1..L
      /\ Top = path[L] /\ Top \in Node
  BY WalkTyped, TopOfPath DEF DAGInv
<1>2. path[k] \in Edges(Top)
  BY <1>1 DEF DAGInv, SearchInv, WalkInv, Progress
<1>3. <<Top, path[k]>> \in edges
  BY <1>2 DEF Edges
<1>4. k < L
  <2>1. k # L
    BY <1>1, <1>3 DEF DAGInv, GraphInv
  <2> QED
    BY <1>1, <2>1
<1>5. ASSUME \A i \in k..(L - 1) : <<path[i], path[i + 1]>> \in Settled,
             <<Top, path[k]>> \in Settled
      PROVE  FALSE
  <2>1. path \in Seq(vertices)
    BY SeqMonotonic DEF DAGInv, TypeOK
  <2>2. ~AcyclicOn(vertices, Settled)
    BY <1>1, <1>5, <2>1, BackEdge
  <2> QED
    BY <2>2 DEF DAGInv, GraphInv
<1>6. \A i \in k..(L - 1) : <<path[i], path[i + 1]>> \in edges
  <2>1. \A i \in k..(L - 1) : i \in 1..(L - 1)
    BY <1>1
  <2> QED
    BY <2>1 DEF DAGInv, SearchInv, WalkInv, PathIsSimple
<1>7. op = "addEdge"
  BY <1>3, <1>5, <1>6 DEF Settled
<1> QED
  BY <1>3, <1>4, <1>5, <1>6, <1>7 DEF Settled

\* What is reported is the path from n to the innermost call, and n again.
LEMMA CycleClosed ==
    ASSUME DAGInv, path # <<>>, NEW k \in 1..Len(path), NEW n, path[k] = n
    PROVE  /\ ClosedBy(n) \in Seq(vertices)
           /\ Len(ClosedBy(n)) = Len(path) - k + 2
           /\ \A i \in 1..(Len(path) - k + 1) : ClosedBy(n)[i] = path[k + i - 1]
           /\ ClosedBy(n)[Len(path) - k + 2] = n
<1> DEFINE L == Len(path)
           start == CHOOSE i \in 1..L :
                       path[i] = n /\ \A j \in 1..(i - 1) : path[j] # n
           s == SubSeq(path, k, L)
<1>1. L \in Nat \ {0} /\ k \in Nat /\ k <= L
  BY WalkTyped, TopOfPath DEF DAGInv
<1>2. \A i, j \in 1..L : path[i] = path[j] => i = j
  BY DEF DAGInv, SearchInv, WalkInv, PathIsSimple
<1>3. \A j \in 1..(k - 1) : path[j] # n
  <2>1. \A j \in 1..(k - 1) : j \in 1..L /\ j # k
    BY <1>1
  <2> QED
    BY <1>2, <2>1
<1>4. start = k
  <2>1. start \in 1..L /\ path[start] = n
    BY <1>3
  <2> QED
    BY <1>2, <2>1
<1>5. ClosedBy(n) = s \o <<n>>
  BY <1>4 DEF ClosedBy
<1>6. path \in Seq(vertices) /\ n \in vertices
  <2>1. path \in Seq(vertices)
    BY SeqMonotonic DEF DAGInv, TypeOK
  <2> QED
    BY <2>1, ElementOfSeq
<1>7. /\ s \in Seq(vertices)
      /\ Len(s) = L - k + 1
      /\ \A i \in 1..(L - k + 1) : s[i] = path[k + i - 1]
  <2>1. k \in Int /\ L \in Int /\ \A i \in k..L : path[i] \in vertices
    BY <1>1, <1>6
  <2> HIDE DEF L, start
  <2>2. /\ SubSeq(path, k, L) \in Seq(vertices)
        /\ Len(SubSeq(path, k, L)) = IF k <= L THEN L - k + 1 ELSE 0
        /\ \A i \in 1..(L - k + 1) : SubSeq(path, k, L)[i] = path[k + i - 1]
    BY <2>1, SubSeqProperties
  <2> QED
    BY <1>1, <2>2
<1>8. <<n>> \in Seq(vertices) /\ Len(<<n>>) = 1 /\ <<n>>[1] = n
  BY <1>6
<1> HIDE DEF s, L, start
<1>9. /\ s \o <<n>> \in Seq(vertices)
      /\ Len(s \o <<n>>) = Len(s) + 1
      /\ \A i \in 1..(Len(s) + 1) :
            (s \o <<n>>)[i] = IF i <= Len(s) THEN s[i] ELSE <<n>>[i - Len(s)]
  BY <1>7, <1>8, ConcatProperties
<1>10. Len(s) \in Nat /\ L - k + 2 = Len(s) + 1
  BY <1>1, <1>7
<1>11. (s \o <<n>>)[Len(s) + 1] = n
  BY <1>8, <1>9, <1>10
<1>12. ASSUME NEW i \in 1..(L - k + 1)
       PROVE  (s \o <<n>>)[i] = path[k + i - 1]
  BY <1>7, <1>9, <1>10
<1> QED
  BY <1>5, <1>9, <1>10, <1>11, <1>12 DEF L

\* The edge that closes a cycle is taken back, and the cycle reported.
LEMMA FindCycleKeeps ==
    ASSUME DAGInv, NEW n \in Node, FindCycle(n)
    PROVE  DAGInv'
<1> DEFINE L == Len(path)
<1>1. /\ Searching /\ path # <<>> /\ n \in todo[Top] /\ n \in recStack
      /\ cycle' = ClosedBy(n)
      /\ edges' = (IF op = "addEdge" THEN edges \ {pending} ELSE edges)
      /\ op' = "idle" /\ StartSearch
      /\ vertices' = vertices /\ pending' = pending /\ order' = order
  BY DEF FindCycle
<1>2. PICK k \in 1..L : path[k] = n
  BY <1>1 DEF DAGInv, SearchInv, OnPath
<1>3. /\ k < L
      /\ <<Top, n>> \in edges
      /\ op = "addEdge"
      /\ \/ \E i \in k..(L - 1) : <<path[i], path[i + 1]>> = pending
         \/ <<Top, n>> = pending
  BY <1>1, <1>2, ClosedPath
<1>4. /\ cycle' \in Seq(vertices)
      /\ Len(cycle') = L - k + 2
      /\ \A i \in 1..(L - k + 1) : cycle'[i] = path[k + i - 1]
      /\ cycle'[L - k + 2] = n
  BY <1>1, <1>2, CycleClosed
<1>5. L \in Nat /\ k \in Nat /\ k >= 1 /\ Top = path[L]
  BY <1>1, WalkTyped, TopOfPath DEF DAGInv
<1>6. /\ visited' = {} /\ recStack' = {} /\ path' = <<>>
      /\ path' \in Seq(visited') /\ todo' \in [Node -> SUBSET Node]
  BY <1>1, StartTyped
<1>7. TypeOK'
  BY <1>1, <1>4, <1>6 DEF DAGInv, TypeOK
<1>8. SearchInv' /\ OrderInv'
  BY <1>1, <1>6, Beginning, NothingSorted DEF DAGInv, GraphInv
<1>9. GraphInv'
  <2>1. Settled' = Settled
    BY <1>1, <1>3 DEF Settled
  <2> QED
    BY <1>1, <2>1 DEF DAGInv, GraphInv, Searching, AcyclicOn
<1> DEFINE last == Len(cycle')
<1>10. last = L - k + 2 /\ last \in Nat /\ last > 2 /\ last - 1 = L - k + 1
  BY <1>3, <1>4, <1>5
<1> HIDE DEF L, last
<1>11. cycle'[1] = cycle'[last]
  <2>1. 1 \in 1..(L - k + 1) /\ k + 1 - 1 = k
    BY <1>3, <1>5
  <2> QED
    BY <1>2, <1>4, <1>10, <2>1
<1>12. ASSUME NEW i \in 1..(last - 1), NEW j \in 1..(last - 1),
              cycle'[i] = cycle'[j]
       PROVE  i = j
  <2>1. /\ i \in 1..(L - k + 1) /\ j \in 1..(L - k + 1)
        /\ k + i - 1 \in 1..L /\ k + j - 1 \in 1..L
    BY <1>3, <1>5, <1>10
  <2>2. path[k + i - 1] = path[k + j - 1]
    BY <1>4, <1>12, <2>1
  <2>3. k + i - 1 = k + j - 1
    BY <2>1, <2>2 DEF DAGInv, SearchInv, WalkInv, PathIsSimple, L
  <2> QED
    BY <1>5, <2>1, <2>3
<1>13. ASSUME NEW i \in 1..(last - 1)
       PROVE  /\ i < last - 1 =>
                   /\ k + i - 1 \in 1..(L - 1)
                   /\ cycle'[i] = path[k + i - 1]
                   /\ cycle'[i + 1] = path[(k + i - 1) + 1]
              /\ i = last - 1 => cycle'[i] = Top /\ cycle'[i + 1] = n
  <2>1. i \in 1..(L - k + 1)
    BY <1>10
  <2>2. CASE i < last - 1
    <3>1. i + 1 \in 1..(L - k + 1) /\ k + (i + 1) - 1 = (k + i - 1) + 1
      BY <1>5, <1>10, <2>2
    <3>2. k + i - 1 \in 1..(L - 1)
      BY <1>5, <1>10, <2>2
    <3> QED
      BY <1>4, <2>1, <2>2, <3>1, <3>2
  <2>3. CASE i = last - 1
    <3>1. k + i - 1 = L /\ i + 1 = L - k + 2
      BY <1>5, <1>10, <2>3
    <3> QED
      BY <1>4, <1>5, <2>1, <2>3, <3>1
  <2> QED
    BY <1>10, <2>2, <2>3
<1>14. ASSUME NEW i \in 1..(last - 1)
       PROVE  <<cycle'[i], cycle'[i + 1]>> \in edges
  <2>1. i < last - 1 \/ i = last - 1
    BY <1>10
  <2> QED
    BY <1>3, <1>13, <2>1 DEF DAGInv, SearchInv, WalkInv, PathIsSimple, L
<1>15. \E i \in 1..(last - 1) : <<cycle'[i], cycle'[i + 1]>> = pending
  <2>1. CASE <<Top, n>> = pending
    <3>1. last - 1 \in 1..(last - 1)
      BY <1>10
    <3> QED
      BY <1>13, <2>1, <3>1
  <2>2. CASE \E i \in k..(L - 1) : <<path[i], path[i + 1]>> = pending
    <3>1. PICK j \in k..(L - 1) : <<path[j], path[j + 1]>> = pending
      BY <2>2
    <3> DEFINE i == j - k + 1
    <3>2. i \in 1..(last - 1) /\ i < last - 1 /\ k + i - 1 = j
      BY <1>5, <1>10
    <3> HIDE DEF i
    <3> QED
      BY <1>13, <3>1, <3>2
  <2> QED
    BY <1>3, <2>1, <2>2 DEF L
<1>16. \A i \in 1..(last - 1) : <<cycle'[i], cycle'[i + 1]>> \in edges' \cup {pending'}
  BY <1>1, <1>14
<1>17. ReportedCycle'
  BY <1>1, <1>10, <1>11, <1>12, <1>15, <1>16 DEF ReportedCycle, last
<1> QED
  BY <1>7, <1>8, <1>9, <1>17 DEF DAGInv

-----------------------------------------------------------------------------
(***************************************************************************)
(* The search of TopologicalSort.                                          *)
(***************************************************************************)

\* dfs is called, for a root or for a neighbour.
LEMMA SortCallKeeps ==
    ASSUME DAGInv, op = "sort", NEW n, Descend(n),
           UNCHANGED <<op, pending, recStack, order, cycle>>
    PROVE  DAGInv'
<1>1. WalkType' /\ WalkInv'
  BY WalkTyped, DescendKeeps DEF DAGInv, SearchInv
<1>2. Returned' = Returned
  BY WalkTyped, DescendPath DEF DAGInv
<1>3. /\ vertices' = vertices /\ edges' = edges
      /\ visited' = visited \cup {n}
  BY DEF Descend
<1>4. TypeOK'
  BY <1>1, <1>3 DEF DAGInv, TypeOK, WalkType
<1>5. SearchInv'
  BY <1>1 DEF DAGInv, SearchInv, Searching
<1>6. GraphInv' /\ ReportedCycle'
  BY <1>3 DEF DAGInv, GraphInv, ReportedCycle, Settled, Searching, AcyclicOn
<1>7. OrderInv'
  BY <1>2, <1>3 DEF DAGInv, OrderInv, InOrder, Edges
<1> QED
  BY <1>4, <1>5, <1>6, <1>7 DEF DAGInv

\* The next root.
LEMMA SortRootKeeps ==
    ASSUME DAGInv, NEW n \in Node, SortRoot(n)
    PROVE  DAGInv'
<1>1. Descend(n)
  BY DEF SortRoot, Call, Descend
<1> QED
  BY <1>1, SortCallKeeps DEF SortRoot

\* A neighbour that was visited has returned, since the graph has no cycle.
LEMMA SortNeighborKeeps ==
    ASSUME DAGInv, NEW n \in Node, SortNeighbor(n)
    PROVE  DAGInv'
<1>1. /\ op = "sort" /\ path # <<>> /\ n \in todo[Top]
      /\ UNCHANGED <<vertices, edges, op, pending, recStack, order, cycle>>
  BY DEF SortNeighbor
<1>2. CASE n \notin visited
  <2>1. n \in vertices
    <3>1. Len(path) \in 1..Len(path) /\ Top = path[Len(path)]
      BY <1>1, WalkTyped, TopOfPath DEF DAGInv
    <3>2. todo[Top] \subseteq Edges(Top)
      BY <3>1 DEF DAGInv, SearchInv, WalkInv, Progress
    <3> QED
      BY <1>1, <3>2 DEF Edges
  <2>2. Descend(n)
    BY <1>1, <1>2, <2>1 DEF SortNeighbor, Call, Descend
  <2> QED
    BY <1>1, <2>2, SortCallKeeps
<1>3. CASE n \in visited
  <2>1. ~OnPath(n)
    BY <1>1, ClosedPath DEF OnPath
  <2>2. PassOver(n) /\ UNCHANGED <<visited, path>>
    BY <1>1, <1>3, <2>1 DEF SortNeighbor, PassOver, Returned
  <2>3. WalkType' /\ WalkInv' /\ Returned' = Returned
    BY <2>2, WalkTyped, PassOverKeeps DEF DAGInv, SearchInv
  <2>4. TypeOK'
    BY <1>1, <2>2, <2>3 DEF DAGInv, TypeOK, WalkType
  <2>5. SearchInv'
    BY <1>1, <2>2, <2>3 DEF DAGInv, SearchInv, Searching
  <2>6. GraphInv' /\ ReportedCycle'
    BY <1>1 DEF DAGInv, GraphInv, ReportedCycle, Settled, Searching, AcyclicOn
  <2>7. OrderInv'
    BY <1>1, <2>3 DEF DAGInv, OrderInv, InOrder, Edges
  <2> QED
    BY <2>4, <2>5, <2>6, <2>7 DEF DAGInv
<1> QED
  BY <1>2, <1>3

\* A vertex is put behind its neighbours, which have all returned.
LEMMA SortLeaveKeeps ==
    ASSUME DAGInv, SortLeave
    PROVE  DAGInv'
<1> DEFINE L == Len(order)
<1>1. /\ op = "sort" /\ Retreat /\ order' = Append(order, Top)
      /\ UNCHANGED <<vertices, edges, op, pending, visited, recStack, todo, cycle>>
  BY DEF SortLeave, Retreat
<1>2. WalkType' /\ WalkInv'
  BY <1>1, WalkTyped, RetreatKeeps DEF DAGInv, SearchInv
<1>3. /\ Returned' = Returned \cup {Top}
      /\ Top \notin Returned
      /\ Edges(Top) \subseteq Returned
      /\ path' \in Seq(visited')
  BY <1>1, WalkTyped, RetreatPath DEF DAGInv, SearchInv
<1>4. Top \in vertices
  BY <1>1, WalkTyped, TopOfPath DEF DAGInv, Retreat, TypeOK
<1>5. /\ Len(order') = L + 1 /\ L \in Nat
      /\ \A i \in 1..L : order'[i] = order[i] /\ order[i] \in vertices
      /\ order'[L + 1] = Top
      /\ order' \in Seq(vertices)
  <2>1. order \in Seq(vertices)
    BY DEF DAGInv, TypeOK
  <2>2. vertices \cup {Top} = vertices
    BY <1>4
  <2>3. /\ Len(order') = L + 1
        /\ \A i \in 1..L : order'[i] = order[i]
        /\ order'[L + 1] = Top
        /\ order' \in Seq(vertices \cup {Top})
    BY <1>1, <2>1, Appended
  <2> QED
    BY <2>1, <2>2, <2>3, ElementOfSeq
<1>6. TypeOK'
  BY <1>1, <1>2, <1>5 DEF DAGInv, TypeOK, WalkType
<1>7. SearchInv'
  BY <1>1, <1>2 DEF DAGInv, SearchInv, Searching
<1>8. GraphInv' /\ ReportedCycle'
  BY <1>1 DEF DAGInv, GraphInv, ReportedCycle, Settled, Searching, AcyclicOn
<1> HIDE DEF L
<1>9. ~InOrder(Top)
  BY <1>1, <1>3, <1>4 DEF DAGInv, OrderInv
<1>10. \A i, j \in 1..(L + 1) : order'[i] = order'[j] => i = j
  <2> SUFFICES ASSUME NEW i \in 1..(L + 1), NEW j \in 1..(L + 1),
                      order'[i] = order'[j]
               PROVE  i = j
    OBVIOUS
  <2>1. (i \in 1..L \/ i = L + 1) /\ (j \in 1..L \/ j = L + 1)
    BY <1>5
  <2>2. \A x \in 1..L : order[x] # Top
    BY <1>9 DEF InOrder, L
  <2> QED
    BY <1>5, <2>1, <2>2 DEF DAGInv, OrderInv, L
<1>11. ASSUME NEW i \in 1..(L + 1), NEW m \in Edges(order'[i])
       PROVE  \E j \in 1..(i - 1) : order'[j] = m
  <2>1. CASE i \in 1..L
    <3>1. \E j \in 1..(i - 1) : order[j] = m
      BY <1>5, <1>11, <2>1 DEF DAGInv, OrderInv, L
    <3>2. \A j \in 1..(i - 1) : j \in 1..L
      BY <1>5, <2>1
    <3> QED
      BY <1>5, <3>1, <3>2
  <2>2. CASE i = L + 1
    <3>1. m \in Returned /\ m \in vertices
      BY <1>3, <1>5, <1>11, <2>2 DEF Edges
    <3>2. PICK j \in 1..L : order[j] = m
      BY <1>1, <3>1 DEF DAGInv, OrderInv, InOrder, L
    <3>3. j \in 1..(i - 1)
      BY <1>5, <2>2
    <3> QED
      BY <1>5, <3>2, <3>3
  <2> QED
    BY <1>5, <2>1, <2>2
<1>12. ASSUME NEW n \in vertices
       PROVE  InOrder(n)' <=> n \in Returned'
  <2>1. InOrder(n)' <=> InOrder(n) \/ n = Top
    <3>1. InOrder(n)' <=> \E i \in 1..(L + 1) : order'[i] = n
      BY <1>5 DEF InOrder
    <3>2. \A i \in 1..(L + 1) : i \in 1..L \/ i = L + 1
      BY <1>5
    <3>3. L + 1 \in 1..(L + 1) /\ \A i \in 1..L : i \in 1..(L + 1)
      BY <1>5
    <3>4. InOrder(n) <=> \E i \in 1..L : order[i] = n
      BY DEF InOrder, L
    <3> QED
      BY <1>5, <3>1, <3>2, <3>3, <3>4
  <2> QED
    BY <1>1, <1>3, <2>1 DEF DAGInv, OrderInv
<1>13. OrderInv'
  <2>1. \A i \in 1..Len(order') :
           \A m \in {x \in vertices' : <<order'[i], x>> \in edges'} :
               \E j \in 1..(i - 1) : order'[j] = m
    BY <1>1, <1>5, <1>11 DEF Edges
  <2> QED
    BY <1>1, <1>5, <1>10, <1>12, <2>1 DEF OrderInv, Edges
<1> QED
  BY <1>6, <1>7, <1>8, <1>13 DEF DAGInv

\* Every vertex has returned, and is in the order.
LEMMA SortDoneKeeps ==
    ASSUME DAGInv, SortDone
    PROVE  DAGInv'
<1>1. /\ op = "sort" /\ path = <<>> /\ visited = vertices
      /\ op' = "idle" /\ StartSearch
      /\ vertices' = vertices /\ edges' = edges /\ pending' = pending
      /\ order' = order /\ cycle' = cycle
  BY DEF SortDone
<1>2. /\ visited' = {} /\ recStack' = {} /\ path' = <<>>
      /\ path' \in Seq(visited') /\ todo' \in [Node -> SUBSET Node]
  BY <1>1, StartTyped
<1>3. TypeOK'
  BY <1>1, <1>2 DEF DAGInv, TypeOK
<1>4. SearchInv'
  BY <1>2, Beginning
<1>5. GraphInv' /\ ReportedCycle'
  BY <1>1 DEF DAGInv, GraphInv, ReportedCycle, Settled, Searching, AcyclicOn
<1>6. Returned = vertices
  <2>1. 1..Len(path) = {}
    BY <1>1
  <2> QED
    BY <1>1, <2>1 DEF Returned, OnPath
<1>7. OrderInv'
  BY <1>1, <1>6 DEF DAGInv, OrderInv, InOrder, Edges
<1> QED
  BY <1>3, <1>4, <1>5, <1>7 DEF DAGInv

-----------------------------------------------------------------------------
\* A step of a search keeps the invariant.
LEMMA SearchKeeps ==
    ASSUME DAGInv, Search
    PROVE  DAGInv'
  BY LeaveKeeps, NoCycleKeeps, SortLeaveKeeps, SortDoneKeeps, VisitKeeps,
     PassNeighborKeeps, FindCycleKeeps, SortRootKeeps, SortNeighborKeeps
     DEF Search

\* What a step of a search leaves alone: it takes back the edge of an AddEdge
\* that found a cycle and changes the graph in no other way, and the search of
\* TopologicalSort ends with all vertices in the order.
LEMMA SearchEffects ==
    ASSUME DAGInv, Search
    PROVE  /\ op # "idle"
           /\ vertices' = vertices /\ pending' = pending
           /\ edges' \subseteq edges
           /\ op # "addEdge" \/ cycle' = <<>> => edges' = edges
           /\ op = "addEdge" => op' \in {"idle", "addEdge"}
           /\ op # "addEdge" => op' # "addEdge"
           /\ op # "addEdge" /\ op' = "idle" =>
                 \A n \in vertices : \E i \in 1..Len(order') : order'[i] = n
<1> DEFINE Quiet == /\ op # "idle"
                    /\ vertices' = vertices /\ pending' = pending
                    /\ edges' = edges
<1>1. ASSUME NEW n \in Node, FindCycle(n)
      PROVE  /\ op = "addEdge" /\ op' = "idle" /\ cycle' # <<>>
             /\ vertices' = vertices /\ pending' = pending
             /\ edges' \subseteq edges
  <2>1. PICK k \in 1..Len(path) : path[k] = n
    BY <1>1 DEF FindCycle, DAGInv, SearchInv, OnPath
  <2>2. op = "addEdge"
    BY <1>1, <2>1, ClosedPath DEF FindCycle
  <2>3. Len(cycle') = Len(path) - k + 2
    BY <1>1, <2>1, CycleClosed DEF FindCycle
  <2>4. Len(path) \in Nat
    BY LenProperties DEF DAGInv, TypeOK
  <2>5. Len(cycle') # 0
    BY <2>3, <2>4
  <2> QED
    BY <1>1, <2>2, <2>5 DEF FindCycle
<1>2. CASE SortDone
  <2>1. Quiet /\ op = "sort" /\ op' = "idle"
    BY <1>2 DEF SortDone
  <2>2. \A n \in vertices : InOrder(n) <=> n \in Returned
    BY <2>1 DEF DAGInv, OrderInv
  <2>3. path = <<>> /\ visited = vertices /\ order' = order
    BY <1>2 DEF SortDone
  <2>4. \A n \in vertices : n \in Returned
    BY <2>3 DEF Returned, OnPath
  <2> QED
    BY <2>1, <2>2, <2>3, <2>4 DEF InOrder
<1>3. CASE NoCycle
  BY <1>3 DEF NoCycle, Searching
<1>4. CASE Leave \/ SortLeave
  BY <1>4 DEF Leave, SortLeave, Searching
<1>5. ASSUME NEW n \in Node,
             \/ VisitRoot(n) \/ VisitNeighbor(n) \/ PassNeighbor(n)
             \/ SortRoot(n) \/ SortNeighbor(n)
      PROVE  Quiet /\ op' = op
  BY <1>5 DEF VisitRoot, VisitNeighbor, PassNeighbor, SortRoot, SortNeighbor,
     Searching
<1> QED
  BY <1>1, <1>2, <1>3, <1>4, <1>5 DEF Search

\* A step that leaves the graph alone keeps it.
LEMMA StutterKeeps ==
    ASSUME DAGInv, UNCHANGED vars
    PROVE  DAGInv'
  BY DEF vars, search, DAGInv, TypeOK, SearchInv, WalkInv, PathIsSimple,
     Progress,
     ReturnedIsClosed, Returned, OnPath, Edges, GraphInv, Settled, AcyclicOn,
     OrderInv, InOrder, ReportedCycle, Searching

\* The invariant holds in every state, for every set of ids and in whatever
\* order the maps are iterated (AddVertex, AddEdge, HasCycle and
\* TopologicalSort of dag.go).
THEOREM DAGInvHolds == Spec => []DAGInv
<1>1. DAGInv /\ [Next]_vars => DAGInv'
  BY AddVertexKeeps, AddEdgeKeeps, TopologicalSortKeeps, SearchKeeps,
     StutterKeeps DEF Next
<1> QED
  BY InitGraph, <1>1, PTL DEF Spec

\* Every variable of the graph and of its searches stays in its type
\* (DirectedAcyclicGraph).
THEOREM GraphTypeCorrect == Spec => []TypeOK
<1>1. DAGInv => TypeOK
  BY DEF DAGInv
<1> QED
  BY <1>1, DAGInvHolds, PTL

\* The graph has no cycle, except while AddEdge examines the edge it has just
\* added (AddEdge, HasCycle).
THEOREM GraphIsAcyclic == Spec => []Acyclic
<1>1. DAGInv => Acyclic
  BY DEF DAGInv, GraphInv, Settled, Acyclic
<1> QED
  BY <1>1, DAGInvHolds, PTL

\* AddEdge refuses an edge only for a cycle through it, which it reports, with
\* no vertex twice (CycleError).
THEOREM CyclesAreReal == Spec => []ReportedCycle
<1>1. DAGInv => ReportedCycle
  BY DEF DAGInv
<1> QED
  BY <1>1, DAGInvHolds, PTL

\* The order is a permutation of the vertices in which all that a vertex
\* depends on comes before it.
LEMMA OrderIsValid == DAGInv => ValidOrder
<1> SUFFICES ASSUME DAGInv, op = "idle", order # <<>>
             PROVE  /\ Len(order) = Cardinality(vertices)
                    /\ \A n \in vertices : \E i \in 1..Len(order) : order[i] = n
                    /\ \A i, j \in 1..Len(order) :
                          <<order[i], order[j]>> \in edges => j < i
  BY DEF ValidOrder
<1>1. order \in Seq(vertices)
  BY DEF DAGInv, TypeOK
<1>2. /\ Len(order) \in Nat
      /\ order \in [1..Len(order) -> vertices]
  BY <1>1, LenProperties
<1>3. \A i, j \in 1..Len(order) : order[i] = order[j] => i = j
  BY DEF DAGInv, OrderInv
<1>4. \A n \in vertices : \E i \in 1..Len(order) : order[i] = n
  BY DEF DAGInv, OrderInv, InOrder
<1>5. order \in Bijection(1..Len(order), vertices)
  BY <1>2, <1>3, <1>4 DEF Bijection, Injection, Surjection, IsInjective
<1>6. Len(order) = Cardinality(vertices)
  BY <1>2, <1>5, FS_CountingElements DEF ExistsBijection
<1>7. ASSUME NEW i \in 1..Len(order), NEW j \in 1..Len(order),
             <<order[i], order[j]>> \in edges
      PROVE  j < i
  <2>1. order[j] \in Edges(order[i])
    BY <1>2, <1>7 DEF Edges
  <2>2. PICK k \in 1..(i - 1) : order[k] = order[j]
    BY <2>1 DEF DAGInv, OrderInv
  <2>3. k \in 1..Len(order) /\ k < i
    BY <1>2
  <2> QED
    BY <1>3, <2>2, <2>3
<1> QED
  BY <1>4, <1>6, <1>7

\* TopologicalSort returns each vertex once, after all that it depends on.
THEOREM OrdersAreValid == Spec => []ValidOrder
  BY OrderIsValid, DAGInvHolds, PTL
=============================================================================
