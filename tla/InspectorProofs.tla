--------------------------- MODULE InspectorProofs ---------------------------
(***************************************************************************)
(* Theorems about the inspector: on every syntax tree without the          *)
(* constructs it gets wrong, it finds exactly the names that the           *)
(* evaluation looks up.                                                    *)
(*                                                                         *)
(* The walk and its reference are recursive functions, so that they have   *)
(* to be shown to exist first: that is the first section.  The last one    *)
(* is an induction on the tree, by its smallest counterexample.            *)
(***************************************************************************)
EXTENDS Inspector, SequenceTheorems, WellFoundedInduction, TLAPS

-----------------------------------------------------------------------------
(***************************************************************************)
(* Induction and recursion over trees.                                     *)
(***************************************************************************)

\* Parts are smaller trees.
LEMMA PartsAreSmaller ==
    ASSUME NEW e \in Tree, NEW i \in DOMAIN Parts(e)
    PROVE  /\ Parts(e)[i] \in Tree
           /\ Size(e) \in Nat
           /\ Size(Parts(e)[i]) \in Nat
           /\ Size(Parts(e)[i]) < Size(e)
<1>1. Parts(e) \in Seq(Tree) /\ Size(e) \in Nat /\ Size(Parts(e)[i]) < Size(e)
  BY TreeAssumption
<1>2. Parts(e)[i] \in Tree
  BY <1>1, ElementOfSeq
<1> QED
  BY <1>1, <1>2, TreeAssumption

\* A set of numbers has a smallest one.
LEMMA SmallestNumber ==
    ASSUME NEW N \in SUBSET Nat, N # {}
    PROVE  \E n \in N : \A m \in N : n <= m
<1>1. PICK n \in N : \A m \in N : <<m, n>> \notin OpToRel(<, Nat)
  BY NatLessThanWellFounded, WFMin
<1>2. \A m \in N : ~(m < n)
  BY <1>1 DEF OpToRel
<1> QED
  BY <1>2

\* A set of trees has one without parts in it.
LEMMA SmallestTree ==
    ASSUME NEW T \in SUBSET Tree, T # {}
    PROVE  \E e \in T : \A i \in DOMAIN Parts(e) : Parts(e)[i] \notin T
<1> DEFINE N == {Size(e) : e \in T}
<1>1. N \in SUBSET Nat /\ N # {}
  BY TreeAssumption
<1>2. PICK n \in N : \A m \in N : n <= m
  <2> HIDE DEF N
  <2> QED
    BY <1>1, SmallestNumber
<1>3. PICK e \in T : Size(e) = n
  OBVIOUS
<1>4. ASSUME NEW i \in DOMAIN Parts(e), Parts(e)[i] \in T
      PROVE  FALSE
  <2>1. n <= Size(Parts(e)[i])
    BY <1>2, <1>4
  <2> QED
    BY <1>3, <2>1, PartsAreSmaller
<1> QED
  BY <1>4

\* g gives a value in V for a tree and a function, of which it uses only the
\* values for the parts of the tree.
Rule(g, V) ==
    /\ g \in [Tree \X [Tree -> V] -> V]
    /\ \A e \in Tree : \A f, h \in [Tree -> V] :
          (\A i \in DOMAIN Parts(e) : f[Parts(e)[i]] = h[Parts(e)[i]])
             => g[<<e, f>>] = g[<<e, h>>]

\* f follows the rule on the trees of size n and less.
Follows(f, g, n) == \A e \in Tree : Size(e) <= n => f[e] = g[<<e, f>>]

\* Functions that follow a rule agree.
LEMMA FollowersAgree ==
    ASSUME NEW V, NEW g, Rule(g, V), NEW n \in Nat,
           NEW f \in [Tree -> V], NEW h \in [Tree -> V],
           Follows(f, g, n), Follows(h, g, n)
    PROVE  \A e \in Tree : Size(e) <= n => f[e] = h[e]
<1> DEFINE Differ == {e \in Tree : Size(e) <= n /\ f[e] # h[e]}
<1>1. SUFFICES ASSUME Differ # {} PROVE FALSE
  OBVIOUS
<1>2. PICK e \in Differ : \A i \in DOMAIN Parts(e) : Parts(e)[i] \notin Differ
  BY <1>1, SmallestTree
<1>3. \A i \in DOMAIN Parts(e) : f[Parts(e)[i]] = h[Parts(e)[i]]
  BY <1>2, PartsAreSmaller
<1>4. g[<<e, f>>] = g[<<e, h>>]
  BY <1>3 DEF Rule
<1> QED
  BY <1>4 DEF Follows

\* A rule is followed up to every size.
LEMMA FollowersExist ==
    ASSUME NEW V, NEW v \in V, NEW g, Rule(g, V), NEW k \in Nat
    PROVE  \E f \in [Tree -> V] : Follows(f, g, k)
<1> DEFINE Lacking == {n \in Nat : ~\E f \in [Tree -> V] : Follows(f, g, n)}
<1>1. SUFFICES ASSUME Lacking # {} PROVE FALSE
  OBVIOUS
<1>2. PICK n \in Lacking : \A m \in Lacking : n <= m
  BY <1>1, SmallestNumber
<1>3. PICK f \in [Tree -> V] : n # 0 => Follows(f, g, n - 1)
  <2>1. CASE n = 0
    <3>1. [e \in Tree |-> v] \in [Tree -> V]
      OBVIOUS
    <3> QED
      BY <2>1, <3>1
  <2>2. CASE n # 0
    <3>1. n - 1 \in Nat /\ n - 1 \notin Lacking
      BY <1>2, <2>2
    <3> QED
      BY <3>1
  <2> QED
    BY <2>1, <2>2
<1> DEFINE h == [e \in Tree |-> g[<<e, f>>]]
<1>4. h \in [Tree -> V]
  BY DEF Rule
<1>5. ASSUME NEW e \in Tree, Size(e) <= n
      PROVE  h[e] = g[<<e, h>>]
  <2>1. ASSUME NEW i \in DOMAIN Parts(e)
        PROVE  f[Parts(e)[i]] = h[Parts(e)[i]]
    <3>1. /\ Parts(e)[i] \in Tree
          /\ n # 0
          /\ Size(Parts(e)[i]) <= n - 1
      BY <1>5, PartsAreSmaller
    <3> QED
      BY <1>3, <3>1 DEF Follows
  <2>2. h[e] = g[<<e, f>>]
    OBVIOUS
  <2> HIDE DEF h
  <2>3. g[<<e, f>>] = g[<<e, h>>]
    BY <1>4, <2>1 DEF Rule
  <2> QED
    BY <2>2, <2>3
<1> HIDE DEF h
<1>6. Follows(h, g, n)
  BY <1>5 DEF Follows
<1> QED
  BY <1>2, <1>4, <1>6

\* A rule has a function that follows it everywhere.
LEMMA Recursion ==
    ASSUME NEW V, NEW v \in V, NEW g, Rule(g, V)
    PROVE  \E f \in [Tree -> V] : \A e \in Tree : f[e] = g[<<e, f>>]
<1> DEFINE A(n) == CHOOSE f \in [Tree -> V] : Follows(f, g, n)
           F == [e \in Tree |-> A(Size(e))[e]]
<1>1. \A n \in Nat : A(n) \in [Tree -> V] /\ Follows(A(n), g, n)
  BY FollowersExist
<1> HIDE DEF A
<1>2. F \in [Tree -> V]
  BY <1>1, TreeAssumption
<1>3. ASSUME NEW e \in Tree
      PROVE  F[e] = g[<<e, F>>]
  <2>1. Size(e) \in Nat
    BY TreeAssumption
  <2>2. PICK f \in [Tree -> V] : f = A(Size(e))
    BY <1>1, <2>1
  <2>3. Follows(f, g, Size(e))
    BY <1>1, <2>1, <2>2
  <2>4. ASSUME NEW i \in DOMAIN Parts(e)
        PROVE  F[Parts(e)[i]] = f[Parts(e)[i]]
    <3> DEFINE p == Parts(e)[i]
    <3>1. p \in Tree /\ Size(p) \in Nat /\ Size(p) <= Size(e)
      BY PartsAreSmaller
    <3> HIDE DEF p
    <3>2. Follows(f, g, Size(p))
      BY <2>1, <2>3, <3>1, TreeAssumption DEF Follows
    <3>3. PICK h \in [Tree -> V] : h = A(Size(p))
      BY <1>1, <3>1
    <3>4. Follows(h, g, Size(p))
      BY <1>1, <3>1, <3>3
    <3>5. h[p] = f[p]
      BY <3>1, <3>2, <3>4, FollowersAgree
    <3>6. F[p] = f[p]
      BY <3>1, <3>3, <3>5
    <3> QED
      BY <3>6 DEF p
  <2>5. F[e] = f[e]
    BY <2>2
  <2> HIDE DEF F
  <2>6. g[<<e, F>>] = g[<<e, f>>]
    BY <1>2, <2>4 DEF Rule
  <2>7. f[e] = g[<<e, f>>]
    BY <2>1, <2>3 DEF Follows
  <2> QED
    BY <2>5, <2>6, <2>7
<1> HIDE DEF F
<1> QED
  BY <1>2, <1>3

-----------------------------------------------------------------------------
(***************************************************************************)
(* The recursive functions of the model exist.                             *)
(***************************************************************************)

\* The walk comes to parts.
LEMMA VisitedAreParts ==
    ASSUME NEW e \in Tree, NEW i \in DOMAIN Visited(e)
    PROVE  i \in DOMAIN Parts(e) /\ Visited(e)[i] = Parts(e)[i]
<1>1. e.kind # "list"
  BY DEF Visited
<1> QED
  BY <1>1 DEF Visited

\* What Deleted is for a tree, in terms of what f gives for the parts.
DeletedBy(f, e) ==
    (IF e.kind = "comprehension" THEN {e.iterVar} ELSE {})
      \cup UNION {f[Visited(e)[i]] : i \in DOMAIN Visited(e)}

\* Deleted satisfies its definition.
LEMMA DeletedUnfolds ==
    ASSUME NEW e \in Tree
    PROVE  Deleted[e] = DeletedBy(Deleted, e)
<1> DEFINE V == SUBSET Name
           g == [x \in Tree \X [Tree -> V] |-> DeletedBy(x[2], x[1])]
<1>1. ASSUME NEW d \in Tree, NEW f \in [Tree -> V]
      PROVE  /\ g[<<d, f>>] = DeletedBy(f, d)
             /\ DeletedBy(f, d) \in V
  <2>1. g[<<d, f>>] = DeletedBy(f, d)
    OBVIOUS
  <2>2. \A i \in DOMAIN Visited(d) : f[Visited(d)[i]] \subseteq Name
    BY VisitedAreParts, PartsAreSmaller
  <2>3. d.kind = "comprehension" => d.iterVar \in Name
    BY TreeAssumption
  <2> QED
    BY <2>1, <2>2, <2>3 DEF DeletedBy
<1>2. ASSUME NEW d \in Tree, NEW f \in [Tree -> V], NEW h \in [Tree -> V],
             \A i \in DOMAIN Parts(d) : f[Parts(d)[i]] = h[Parts(d)[i]]
      PROVE  DeletedBy(f, d) = DeletedBy(h, d)
  <2>1. \A i \in DOMAIN Visited(d) : f[Visited(d)[i]] = h[Visited(d)[i]]
    BY <1>2, VisitedAreParts
  <2>2. {f[Visited(d)[i]] : i \in DOMAIN Visited(d)}
          = {h[Visited(d)[i]] : i \in DOMAIN Visited(d)}
    BY <2>1
  <2> QED
    BY <2>2 DEF DeletedBy
<1>3. Rule(g, V)
  <2>1. g \in [Tree \X [Tree -> V] -> V]
    BY <1>1
  <2> HIDE DEF g, V
  <2>2. ASSUME NEW d \in Tree, NEW f \in [Tree -> V], NEW h \in [Tree -> V],
               \A i \in DOMAIN Parts(d) : f[Parts(d)[i]] = h[Parts(d)[i]]
        PROVE  g[<<d, f>>] = g[<<d, h>>]
    BY <1>1, <1>2, <2>2
  <2> QED
    BY <2>1, <2>2 DEF Rule
<1>4. {} \in V
  OBVIOUS
<1>5. PICK f \in [Tree -> V] : \A d \in Tree : f[d] = g[<<d, f>>]
  <2> HIDE DEF g, V
  <2> QED
    BY <1>3, <1>4, Recursion
<1>6. \A d \in Tree : f[d] = DeletedBy(f, d)
  <2> HIDE DEF g, V
  <2> QED
    BY <1>1, <1>5
<1>7. f = [d \in Tree |-> DeletedBy(f, d)]
  <2> HIDE DEF g, V
  <2> QED
    BY <1>6
<1>8. Deleted = [d \in Tree |-> DeletedBy(Deleted, d)]
  <2> DEFINE P(k) == k = [d \in Tree |-> DeletedBy(k, d)]
  <2>1. Deleted = CHOOSE k : P(k)
    BY DEF Deleted, DeletedBy
  <2>2. P(f)
    BY <1>7
  <2> HIDE DEF P
  <2>3. P(Deleted)
    BY <2>1, <2>2
  <2> QED
    BY <2>3 DEF P
<1> QED
  BY <1>8

\* The parts of a comprehension.
LEMMA ComprehensionParts ==
    ASSUME NEW e \in Tree, e.kind = "comprehension"
    PROVE  /\ DOMAIN Parts(e) = 1..4
           /\ Parts(e)[1] = e.iterRange /\ Parts(e)[2] = e.loopCondition
           /\ Parts(e)[3] = e.loopStep /\ Parts(e)[4] = e.result
           /\ e.iterRange \in Tree /\ e.loopCondition \in Tree
           /\ e.loopStep \in Tree /\ e.result \in Tree
<1>1. Parts(e) = <<e.iterRange, e.loopCondition, e.loopStep, e.result>>
  BY DEF Parts
<1>2. /\ DOMAIN Parts(e) = 1..4
      /\ Parts(e)[1] = e.iterRange /\ Parts(e)[2] = e.loopCondition
      /\ Parts(e)[3] = e.loopStep /\ Parts(e)[4] = e.result
  BY <1>1
<1> QED
  BY <1>2, PartsAreSmaller

\* What FreeNames is for a tree, in terms of what f gives for the parts.
FreeNamesBy(f, e) ==
    CASE e.kind = "ident" -> {e.name}
      [] e.kind = "comprehension" ->
           f[e.iterRange] \cup f[e.result]
             \cup ((f[e.loopCondition] \cup f[e.loopStep]) \ {e.iterVar})
      [] OTHER -> UNION {f[Parts(e)[i]] : i \in DOMAIN Parts(e)}

\* FreeNames satisfies its definition.
LEMMA FreeNamesUnfolds ==
    ASSUME NEW e \in Tree
    PROVE  FreeNames[e] = FreeNamesBy(FreeNames, e)
<1> DEFINE V == SUBSET Name
           g == [x \in Tree \X [Tree -> V] |-> FreeNamesBy(x[2], x[1])]
<1>1. ASSUME NEW d \in Tree, NEW f \in [Tree -> V]
      PROVE  /\ g[<<d, f>>] = FreeNamesBy(f, d)
             /\ FreeNamesBy(f, d) \in V
  <2>1. g[<<d, f>>] = FreeNamesBy(f, d)
    OBVIOUS
  <2>2. \A i \in DOMAIN Parts(d) : f[Parts(d)[i]] \subseteq Name
    BY PartsAreSmaller
  <2>3. CASE d.kind = "ident"
    <3>1. FreeNamesBy(f, d) = {d.name}
      BY <2>3 DEF FreeNamesBy
    <3> QED
      BY <2>1, <2>3, <3>1, TreeAssumption
  <2>4. CASE d.kind = "comprehension"
    <3>1. FreeNamesBy(f, d)
            = f[d.iterRange] \cup f[d.result]
                \cup ((f[d.loopCondition] \cup f[d.loopStep]) \ {d.iterVar})
      BY <2>4 DEF FreeNamesBy
    <3>2. /\ f[d.iterRange] \subseteq Name /\ f[d.result] \subseteq Name
          /\ f[d.loopCondition] \subseteq Name /\ f[d.loopStep] \subseteq Name
      BY <2>4, ComprehensionParts
    <3> QED
      BY <2>1, <3>1, <3>2
  <2>5. CASE d.kind # "ident" /\ d.kind # "comprehension"
    <3>1. FreeNamesBy(f, d) = UNION {f[Parts(d)[i]] : i \in DOMAIN Parts(d)}
      BY <2>5 DEF FreeNamesBy
    <3> QED
      BY <2>1, <2>2, <3>1
  <2> QED
    BY <2>3, <2>4, <2>5
<1>2. ASSUME NEW d \in Tree, NEW f \in [Tree -> V], NEW h \in [Tree -> V],
             \A i \in DOMAIN Parts(d) : f[Parts(d)[i]] = h[Parts(d)[i]]
      PROVE  FreeNamesBy(f, d) = FreeNamesBy(h, d)
  <2>1. CASE d.kind = "comprehension"
    <3>1. /\ f[d.iterRange] = h[d.iterRange] /\ f[d.result] = h[d.result]
          /\ f[d.loopCondition] = h[d.loopCondition]
          /\ f[d.loopStep] = h[d.loopStep]
      BY <1>2, <2>1, ComprehensionParts
    <3> QED
      BY <2>1, <3>1 DEF FreeNamesBy
  <2>2. CASE d.kind # "comprehension"
    <3>1. {f[Parts(d)[i]] : i \in DOMAIN Parts(d)}
            = {h[Parts(d)[i]] : i \in DOMAIN Parts(d)}
      BY <1>2
    <3> QED
      BY <2>2, <3>1 DEF FreeNamesBy
  <2> QED
    BY <2>1, <2>2
<1>3. Rule(g, V)
  <2>1. g \in [Tree \X [Tree -> V] -> V]
    BY <1>1
  <2> HIDE DEF g, V
  <2>2. ASSUME NEW d \in Tree, NEW f \in [Tree -> V], NEW h \in [Tree -> V],
               \A i \in DOMAIN Parts(d) : f[Parts(d)[i]] = h[Parts(d)[i]]
        PROVE  g[<<d, f>>] = g[<<d, h>>]
    BY <1>1, <1>2, <2>2
  <2> QED
    BY <2>1, <2>2 DEF Rule
<1>4. {} \in V
  OBVIOUS
<1>5. PICK f \in [Tree -> V] : \A d \in Tree : f[d] = g[<<d, f>>]
  <2> HIDE DEF g, V
  <2> QED
    BY <1>3, <1>4, Recursion
<1>6. \A d \in Tree : f[d] = FreeNamesBy(f, d)
  <2> HIDE DEF g, V
  <2> QED
    BY <1>1, <1>5
<1>7. f = [d \in Tree |-> FreeNamesBy(f, d)]
  <2> HIDE DEF g, V
  <2> QED
    BY <1>6
<1>8. FreeNames = [d \in Tree |-> FreeNamesBy(FreeNames, d)]
  <2> DEFINE P(k) == k = [d \in Tree |-> FreeNamesBy(k, d)]
  <2>1. FreeNames = CHOOSE k : P(k)
    BY DEF FreeNames, FreeNamesBy
  <2>2. P(f)
    BY <1>7
  <2> HIDE DEF P
  <2>3. P(FreeNames)
    BY <2>1, <2>2
  <2> QED
    BY <2>3 DEF P
<1> QED
  BY <1>8

\* What InspectAst is for a tree, in terms of what f gives for the parts.
InspectAt(f, e, names, loopVars) ==
    CASE e.kind = "select" -> InspectParts(f, e, names, loopVars)
      [] e.kind = "call" -> InspectCall(f, e, names, loopVars)
      [] e.kind = "ident" -> InspectIdent(e, names, loopVars)
      [] e.kind = "comprehension" ->
           InspectComprehension(f, e, names, loopVars)
      [] OTHER -> {}

InspectBy(f, e) ==
    [names \in SUBSET Name |-> [loopVars \in SUBSET Name |->
        InspectAt(f, e, names, loopVars)]]

\* What the walk may find.
Findings ==
    {"resource", "unknown resource", "unknown function"}
      \X (Name \cup {e.function : e \in Tree})

Results == [SUBSET Name -> [SUBSET Name -> SUBSET Findings]]

\* f and h give the same for the parts of e.
SameOnParts(f, h, e) ==
    \A i \in DOMAIN Parts(e) : f[Parts(e)[i]] = h[Parts(e)[i]]

\* What f gives for the parts of e are findings.
FindingsInParts(f, e) ==
    \A i \in DOMAIN Parts(e) : \A names, loopVars \in SUBSET Name :
        f[Parts(e)[i]][names][loopVars] \subseteq Findings

\* What is found in the parts are findings then.
LEMMA InspectPartsType ==
    ASSUME NEW e \in Tree, NEW f, FindingsInParts(f, e),
           NEW names \in SUBSET Name, NEW loopVars \in SUBSET Name
    PROVE  InspectParts(f, e, names, loopVars) \subseteq Findings
<1> DEFINE vars(i) ==
        loopVars \ (UNION {Deleted[Visited(e)[j]] : j \in 1..(i - 1)})
           in(i) == f[Visited(e)[i]][names][vars(i)]
<1>1. \A i : vars(i) \in SUBSET Name
  OBVIOUS
<1>2. InspectParts(f, e, names, loopVars)
        = UNION {in(i) : i \in DOMAIN Visited(e)}
  BY DEF InspectParts
<1> HIDE DEF vars
<1>3. \A i \in DOMAIN Visited(e) : in(i) \subseteq Findings
  BY <1>1, VisitedAreParts DEF FindingsInParts
<1> HIDE DEF in
<1> QED
  BY <1>2, <1>3

\* What is found in the parts depends on f for the parts only.
LEMMA InspectPartsSame ==
    ASSUME NEW e \in Tree, NEW f, NEW h, SameOnParts(f, h, e),
           NEW names, NEW loopVars
    PROVE  InspectParts(f, e, names, loopVars)
             = InspectParts(h, e, names, loopVars)
<1> DEFINE vars(i) ==
        loopVars \ (UNION {Deleted[Visited(e)[j]] : j \in 1..(i - 1)})
           in(k, i) == k[Visited(e)[i]][names][vars(i)]
<1>1. \A k : InspectParts(k, e, names, loopVars)
               = UNION {in(k, i) : i \in DOMAIN Visited(e)}
  BY DEF InspectParts
<1> HIDE DEF vars
<1>2. \A i \in DOMAIN Visited(e) : in(f, i) = in(h, i)
  BY VisitedAreParts DEF SameOnParts
<1> HIDE DEF in
<1>3. {in(f, i) : i \in DOMAIN Visited(e)} = {in(h, i) : i \in DOMAIN Visited(e)}
  BY <1>2
<1> QED
  BY <1>1, <1>3

\* So is what is found in the tree.
LEMMA InspectAtType ==
    ASSUME NEW e \in Tree, NEW f, FindingsInParts(f, e),
           NEW names \in SUBSET Name, NEW loopVars \in SUBSET Name
    PROVE  InspectAt(f, e, names, loopVars) \subseteq Findings
<1>1. CASE e.kind = "select"
  <2>1. InspectAt(f, e, names, loopVars) = InspectParts(f, e, names, loopVars)
    BY <1>1 DEF InspectAt
  <2> QED
    BY <2>1, InspectPartsType
<1>2. CASE e.kind = "call"
  <2>1. <<"unknown function", e.function>> \in Findings
    BY DEF Findings
  <2>2. InspectAt(f, e, names, loopVars)
          \subseteq InspectParts(f, e, names, loopVars)
                      \cup {<<"unknown function", e.function>>}
    BY <1>2 DEF InspectAt, InspectCall
  <2> QED
    BY <2>1, <2>2, InspectPartsType
<1>3. CASE e.kind = "ident"
  <2>1. e.name \in Name
    BY <1>3, TreeAssumption
  <2>2. /\ <<"resource", e.name>> \in Findings
        /\ <<"unknown resource", e.name>> \in Findings
    BY <2>1 DEF Findings
  <2>3. InspectAt(f, e, names, loopVars)
          \subseteq {<<"resource", e.name>>, <<"unknown resource", e.name>>}
    BY <1>3 DEF InspectAt, InspectIdent
  <2> QED
    BY <2>2, <2>3
<1>4. CASE e.kind = "comprehension"
  <2>1. loopVars \cup {e.iterVar} \in SUBSET Name
    BY <1>4, TreeAssumption
  <2>2. InspectAt(f, e, names, loopVars)
          = InspectParts(f, e, names, loopVars \cup {e.iterVar})
    BY <1>4 DEF InspectAt, InspectComprehension
  <2> QED
    BY <2>1, <2>2, InspectPartsType
<1>5. CASE e.kind \notin {"select", "call", "ident", "comprehension"}
  <2>1. InspectAt(f, e, names, loopVars) = {}
    BY <1>5 DEF InspectAt
  <2> QED
    BY <2>1
<1> QED
  BY <1>1, <1>2, <1>3, <1>4, <1>5

\* So does what is found in the tree.
LEMMA InspectAtSame ==
    ASSUME NEW e \in Tree, NEW f, NEW h, SameOnParts(f, h, e),
           NEW names, NEW loopVars
    PROVE  InspectAt(f, e, names, loopVars) = InspectAt(h, e, names, loopVars)
<1>1. \A l : InspectParts(f, e, names, l) = InspectParts(h, e, names, l)
  BY InspectPartsSame
<1>2. InspectCall(f, e, names, loopVars) = InspectCall(h, e, names, loopVars)
  BY <1>1 DEF InspectCall
<1>3. InspectComprehension(f, e, names, loopVars)
        = InspectComprehension(h, e, names, loopVars)
  BY <1>1 DEF InspectComprehension
<1> QED
  BY <1>1, <1>2, <1>3 DEF InspectAt

\* InspectAst satisfies its definition.
LEMMA InspectAstUnfolds ==
    ASSUME NEW e \in Tree, NEW names \in SUBSET Name,
           NEW loopVars \in SUBSET Name
    PROVE  InspectAst[e][names][loopVars]
             = InspectAt(InspectAst, e, names, loopVars)
<1> DEFINE V == Results
           g == [x \in Tree \X [Tree -> V] |-> InspectBy(x[2], x[1])]
<1>1. ASSUME NEW d \in Tree, NEW f \in [Tree -> V]
      PROVE  /\ g[<<d, f>>] = InspectBy(f, d)
             /\ InspectBy(f, d) \in V
  <2>1. g[<<d, f>>] = InspectBy(f, d)
    OBVIOUS
  <2>2. FindingsInParts(f, d)
    BY PartsAreSmaller DEF FindingsInParts, Results
  <2>3. \A n \in SUBSET Name : \A l \in SUBSET Name :
            InspectAt(f, d, n, l) \subseteq Findings
    BY <2>2, InspectAtType
  <2>4. InspectBy(f, d) \in V
    BY <2>3 DEF InspectBy, Results
  <2> QED
    BY <2>1, <2>4
<1>2. ASSUME NEW d \in Tree, NEW f \in [Tree -> V], NEW h \in [Tree -> V],
             \A i \in DOMAIN Parts(d) : f[Parts(d)[i]] = h[Parts(d)[i]]
      PROVE  InspectBy(f, d) = InspectBy(h, d)
  <2>1. SameOnParts(f, h, d)
    BY <1>2 DEF SameOnParts
  <2>2. \A n \in SUBSET Name : \A l \in SUBSET Name :
            InspectAt(f, d, n, l) = InspectAt(h, d, n, l)
    BY <2>1, InspectAtSame
  <2> QED
    BY <2>2 DEF InspectBy
<1>3. Rule(g, V)
  <2>1. g \in [Tree \X [Tree -> V] -> V]
    <3> HIDE DEF V
    <3> QED
      BY <1>1
  <2> HIDE DEF g, V
  <2>2. ASSUME NEW d \in Tree, NEW f \in [Tree -> V], NEW h \in [Tree -> V],
               \A i \in DOMAIN Parts(d) : f[Parts(d)[i]] = h[Parts(d)[i]]
        PROVE  g[<<d, f>>] = g[<<d, h>>]
    BY <1>1, <1>2, <2>2
  <2> QED
    BY <2>1, <2>2 DEF Rule
<1>4. [n \in SUBSET Name |-> [l \in SUBSET Name |-> {}]] \in V
  BY DEF Results
<1>5. PICK f \in [Tree -> V] : \A d \in Tree : f[d] = g[<<d, f>>]
  <2> HIDE DEF g, V
  <2> QED
    BY <1>3, <1>4, Recursion
<1>6. \A d \in Tree : f[d] = InspectBy(f, d)
  <2> HIDE DEF g, V
  <2> QED
    BY <1>1, <1>5
<1>7. f = [d \in Tree |-> InspectBy(f, d)]
  <2> HIDE DEF g, V
  <2> QED
    BY <1>6
<1>8. InspectAst = [d \in Tree |-> InspectBy(InspectAst, d)]
  <2> DEFINE P(k) == k = [d \in Tree |-> InspectBy(k, d)]
  <2>1. InspectAst = CHOOSE k : P(k)
    BY DEF InspectAst, InspectBy, InspectAt
  <2>2. P(f)
    BY <1>7
  <2> HIDE DEF P
  <2>3. P(InspectAst)
    BY <2>1, <2>2
  <2> QED
    BY <2>3 DEF P
<1>9. InspectAst[e] = InspectBy(InspectAst, e)
  BY <1>8
<1> QED
  BY <1>9 DEF InspectBy

\* The walk finds what it may find.
LEMMA InspectFindings ==
    ASSUME NEW e \in Tree, NEW names \in SUBSET Name,
           NEW loopVars \in SUBSET Name
    PROVE  InspectAst[e][names][loopVars] \subseteq Findings
<1> DEFINE Claim(d) ==
        \A n, l \in SUBSET Name : InspectAst[d][n][l] \subseteq Findings
           Wrong == {d \in Tree : ~Claim(d)}
<1>1. SUFFICES ASSUME Wrong # {} PROVE FALSE
  OBVIOUS
<1>2. PICK d \in Wrong : \A i \in DOMAIN Parts(d) : Parts(d)[i] \notin Wrong
  <2>1. Wrong \in SUBSET Tree
    OBVIOUS
  <2> HIDE DEF Wrong
  <2> QED
    BY <1>1, <2>1, SmallestTree
<1>3. FindingsInParts(InspectAst, d)
  BY <1>2, PartsAreSmaller DEF FindingsInParts
<1>4. \A n, l \in SUBSET Name : InspectAt(InspectAst, d, n, l) \subseteq Findings
  BY <1>3, InspectAtType
<1>5. Claim(d)
  BY <1>4, InspectAstUnfolds
<1> QED
  BY <1>5

-----------------------------------------------------------------------------
(***************************************************************************)
(* What the inspector finds.                                               *)
(***************************************************************************)

\* The resources found are those of the names that the evaluation looks up.
FindsReads(e, names, loopVars) ==
    \A n : <<"resource", n>> \in InspectAst[e][names][loopVars]
             <=> n \in NamesIn(e) \cap names

\* The walk over the parts finds what the walks over each of them find.
LEMMA PartsFindReads ==
    ASSUME NEW e \in Tree, NEW names \in SUBSET Name,
           NEW loopVars \in SUBSET Name, loopVars \cap names = {},
           \A i \in DOMAIN Visited(e) : \A l \in SUBSET Name :
               l \cap names = {} => FindsReads(Visited(e)[i], names, l),
           NEW n
    PROVE  <<"resource", n>> \in InspectParts(InspectAst, e, names, loopVars)
             <=> \E i \in DOMAIN Visited(e) :
                     n \in NamesIn(Visited(e)[i]) \cap names
<1> DEFINE vars(i) ==
        loopVars \ (UNION {Deleted[Visited(e)[j]] : j \in 1..(i - 1)})
           in(i) == InspectAst[Visited(e)[i]][names][vars(i)]
<1>1. \A i : vars(i) \in SUBSET Name /\ vars(i) \cap names = {}
  OBVIOUS
<1>2. InspectParts(InspectAst, e, names, loopVars)
        = UNION {in(i) : i \in DOMAIN Visited(e)}
  BY DEF InspectParts
<1> HIDE DEF vars
<1>3. \A i \in DOMAIN Visited(e) :
          <<"resource", n>> \in in(i) <=> n \in NamesIn(Visited(e)[i]) \cap names
  BY <1>1 DEF FindsReads
<1> HIDE DEF in
<1> QED
  BY <1>2, <1>3

\* Whatever loop variables there are, the resources that the walk finds are
\* the names that the evaluation looks up.
LEMMA WalkFindsReads ==
    ASSUME NEW names \in SUBSET Name, NEW T \in SUBSET Tree,
           ReadsShow(T, names)
    PROVE  \A e \in T : \A loopVars \in SUBSET Name :
               loopVars \cap names = {} => FindsReads(e, names, loopVars)
<1> DEFINE Claim(e) ==
        \A l \in SUBSET Name : l \cap names = {} => FindsReads(e, names, l)
           Wrong == {e \in T : ~Claim(e)}
<1>1. SUFFICES ASSUME Wrong # {} PROVE FALSE
  OBVIOUS
<1>2. PICK e \in Wrong : \A i \in DOMAIN Parts(e) : Parts(e)[i] \notin Wrong
  <2>1. Wrong \in SUBSET Tree
    OBVIOUS
  <2> HIDE DEF Wrong
  <2> QED
    BY <1>1, <2>1, SmallestTree
<1>3. e \in Tree /\ e \in T /\ ~Claim(e)
  OBVIOUS
<1>4. \A i \in DOMAIN Visited(e) : Visited(e)[i] \in T
  BY <1>3 DEF ReadsShow
<1>5. \A i \in DOMAIN Visited(e) : Claim(Visited(e)[i])
  <2> HIDE DEF Claim
  <2> QED
    BY <1>2, <1>3, <1>4, VisitedAreParts
<1>6. PICK l \in SUBSET Name : l \cap names = {} /\ ~FindsReads(e, names, l)
  BY <1>3
<1>7. PICK n : ~(<<"resource", n>> \in InspectAst[e][names][l]
                   <=> n \in NamesIn(e) \cap names)
  BY <1>6 DEF FindsReads
<1>8. InspectAst[e][names][l] = InspectAt(InspectAst, e, names, l)
  BY <1>3, InspectAstUnfolds
<1>9. NamesIn(e) = FreeNamesBy(FreeNames, e)
  BY <1>3, FreeNamesUnfolds DEF NamesIn
<1>10. ASSUME NEW k \in SUBSET Name, k \cap names = {}
       PROVE  <<"resource", n>> \in InspectParts(InspectAst, e, names, k)
                <=> \E i \in DOMAIN Visited(e) :
                        n \in NamesIn(Visited(e)[i]) \cap names
  BY <1>3, <1>5, <1>10, PartsFindReads
<1>11. CASE e.kind \in {"select", "call"}
  <2>1. Visited(e) = Parts(e)
    BY <1>11 DEF Visited
  <2>2. NamesIn(e) = UNION {NamesIn(Parts(e)[i]) : i \in DOMAIN Parts(e)}
    BY <1>9, <1>11 DEF FreeNamesBy, NamesIn
  <2>3. \A s : <<"resource", n>> # <<"unknown function", s>>
    OBVIOUS
  <2>4. <<"resource", n>> \in InspectAst[e][names][l]
          <=> <<"resource", n>> \in InspectParts(InspectAst, e, names, l)
    BY <1>8, <1>11, <2>3 DEF InspectAt, InspectCall
  <2> QED
    BY <1>6, <1>7, <1>10, <2>1, <2>2, <2>4
<1>12. CASE e.kind = "ident"
  <2>1. NamesIn(e) = {e.name}
    BY <1>9, <1>12 DEF FreeNamesBy
  <2>2. InspectAst[e][names][l] = InspectIdent(e, names, l)
    BY <1>8, <1>12 DEF InspectAt
  <2>3. CASE e.name \in names
    <3>1. InspectAst[e][names][l] = {<<"resource", e.name>>}
      BY <1>6, <2>2, <2>3 DEF InspectIdent
    <3> QED
      BY <1>7, <2>1, <2>3, <3>1
  <2>4. CASE e.name \notin names
    <3>1. InspectAst[e][names][l] \subseteq {<<"unknown resource", e.name>>}
      BY <2>2, <2>4 DEF InspectIdent
    <3> QED
      BY <1>7, <2>1, <2>4, <3>1
  <2> QED
    BY <2>3, <2>4
<1>13. CASE e.kind = "comprehension"
  <2>1. e.iterVar \in Name /\ e.iterVar \notin names
    BY <1>3, <1>13, TreeAssumption DEF ReadsShow
  <2>2. l \cup {e.iterVar} \in SUBSET Name /\ (l \cup {e.iterVar}) \cap names = {}
    BY <1>6, <2>1
  <2>3. InspectAst[e][names][l]
          = InspectParts(InspectAst, e, names, l \cup {e.iterVar})
    BY <1>8, <1>13 DEF InspectAt, InspectComprehension
  <2>4. Visited(e) = Parts(e)
    BY <1>13 DEF Visited
  <2>5. NamesIn(e) = NamesIn(e.iterRange) \cup NamesIn(e.result)
            \cup ((NamesIn(e.loopCondition) \cup NamesIn(e.loopStep))
                    \ {e.iterVar})
    BY <1>9, <1>13 DEF FreeNamesBy, NamesIn
  <2>6. (\E i \in DOMAIN Parts(e) : n \in NamesIn(Parts(e)[i]) \cap names)
          <=> n \in NamesIn(e) \cap names
    <3>1. 1 \in 1..4 /\ 2 \in 1..4 /\ 3 \in 1..4 /\ 4 \in 1..4
      OBVIOUS
    <3>2. \A i \in 1..4 : i = 1 \/ i = 2 \/ i = 3 \/ i = 4
      OBVIOUS
    <3> QED
      BY <1>3, <1>13, <2>1, <2>5, <3>1, <3>2, ComprehensionParts
  <2> QED
    BY <1>7, <1>10, <2>2, <2>3, <2>4, <2>6
<1>14. CASE e.kind = "list"
  <2>1. InspectAst[e][names][l] = {}
    BY <1>8, <1>14 DEF InspectAt
  <2>2. NamesIn(e) \cap names = {}
    BY <1>3, <1>14 DEF ReadsShow
  <2> QED
    BY <1>7, <2>1, <2>2
<1>15. CASE e.kind \notin {"select", "call", "ident", "comprehension", "list"}
  <2>1. InspectAst[e][names][l] = {}
    BY <1>8, <1>15 DEF InspectAt
  <2>2. Parts(e) = <<>>
    BY <1>15 DEF Parts
  <2>3. NamesIn(e) = {}
    BY <1>9, <1>15, <2>2 DEF FreeNamesBy
  <2> QED
    BY <1>7, <2>1, <2>3
<1> QED
  BY <1>11, <1>12, <1>13, <1>14, <1>15

\* The walk finds nothing that is unknown.
FindsNoUnknown(e, names, loopVars) ==
    \A x : /\ <<"unknown resource", x>> \notin InspectAst[e][names][loopVars]
           /\ <<"unknown function", x>> \notin InspectAst[e][names][loopVars]

\* The loop variables stay as they are and account for what is no resource.
Scoped(e, names, loopVars) ==
    /\ Deleted[e] \cap loopVars = {}
    /\ NamesIn(e) \subseteq names \cup loopVars

\* If no part has anything unknown, the walk over the parts finds nothing
\* unknown: what one part deletes are not the loop variables of the others.
LEMMA PartsFindNoUnknown ==
    ASSUME NEW e \in Tree, NEW names \in SUBSET Name,
           NEW loopVars \in SUBSET Name,
           \A i \in DOMAIN Visited(e) :
               /\ Scoped(Visited(e)[i], names, loopVars)
               /\ FindsNoUnknown(Visited(e)[i], names, loopVars),
           NEW x
    PROVE  /\ <<"unknown resource", x>>
                 \notin InspectParts(InspectAst, e, names, loopVars)
           /\ <<"unknown function", x>>
                 \notin InspectParts(InspectAst, e, names, loopVars)
<1> DEFINE vars(i) ==
        loopVars \ (UNION {Deleted[Visited(e)[j]] : j \in 1..(i - 1)})
           in(i) == InspectAst[Visited(e)[i]][names][vars(i)]
<1>1. ASSUME NEW i \in DOMAIN Visited(e)
      PROVE  vars(i) = loopVars
  <2>1. Visited(e) = Parts(e) \/ Visited(e) = <<>>
    BY DEF Visited
  <2>2. Visited(e) \in Seq(Tree)
    BY <2>1, TreeAssumption
  <2>3. \A j \in 1..(i - 1) : j \in DOMAIN Visited(e)
    BY <2>2
  <2>4. \A j \in 1..(i - 1) : Deleted[Visited(e)[j]] \cap loopVars = {}
    BY <2>3 DEF Scoped
  <2> QED
    BY <2>4
<1>2. InspectParts(InspectAst, e, names, loopVars)
        = UNION {in(i) : i \in DOMAIN Visited(e)}
  BY DEF InspectParts
<1> HIDE DEF vars
<1>3. \A i \in DOMAIN Visited(e) :
          /\ <<"unknown resource", x>> \notin in(i)
          /\ <<"unknown function", x>> \notin in(i)
  BY <1>1 DEF FindsNoUnknown
<1> HIDE DEF in
<1> QED
  BY <1>2, <1>3

\* A walk that is scoped finds nothing unknown.
LEMMA WalkFindsNoUnknown ==
    ASSUME NEW names \in SUBSET Name, NEW T \in SUBSET Tree, Familiar(T)
    PROVE  \A e \in T : \A loopVars \in SUBSET Name :
               Scoped(e, names, loopVars) => FindsNoUnknown(e, names, loopVars)
<1> DEFINE Claim(e) ==
        \A l \in SUBSET Name :
            Scoped(e, names, l) => FindsNoUnknown(e, names, l)
           Wrong == {e \in T : ~Claim(e)}
<1>1. SUFFICES ASSUME Wrong # {} PROVE FALSE
  OBVIOUS
<1>2. PICK e \in Wrong : \A i \in DOMAIN Parts(e) : Parts(e)[i] \notin Wrong
  <2>1. Wrong \in SUBSET Tree
    OBVIOUS
  <2> HIDE DEF Wrong
  <2> QED
    BY <1>1, <2>1, SmallestTree
<1>3. e \in Tree /\ e \in T /\ ~Claim(e)
  OBVIOUS
<1>4. \A i \in DOMAIN Visited(e) : Visited(e)[i] \in T
  BY <1>3 DEF Familiar
<1>5. \A i \in DOMAIN Visited(e) : Claim(Visited(e)[i])
  <2> HIDE DEF Claim
  <2> QED
    BY <1>2, <1>3, <1>4, VisitedAreParts
<1>6. PICK l \in SUBSET Name :
          Scoped(e, names, l) /\ ~FindsNoUnknown(e, names, l)
  BY <1>3
<1>7. PICK x : \/ <<"unknown resource", x>> \in InspectAst[e][names][l]
               \/ <<"unknown function", x>> \in InspectAst[e][names][l]
  BY <1>6 DEF FindsNoUnknown
<1>8. InspectAst[e][names][l] = InspectAt(InspectAst, e, names, l)
  BY <1>3, InspectAstUnfolds
<1>9. NamesIn(e) = FreeNamesBy(FreeNames, e)
  BY <1>3, FreeNamesUnfolds DEF NamesIn
<1>10. Deleted[e] = DeletedBy(Deleted, e)
  BY <1>3, DeletedUnfolds
<1>11. ASSUME NEW k \in SUBSET Name,
              \A i \in DOMAIN Visited(e) : Scoped(Visited(e)[i], names, k)
       PROVE  /\ <<"unknown resource", x>>
                    \notin InspectParts(InspectAst, e, names, k)
              /\ <<"unknown function", x>>
                    \notin InspectParts(InspectAst, e, names, k)
  <2>1. \A i \in DOMAIN Visited(e) :
            /\ Scoped(Visited(e)[i], names, k)
            /\ FindsNoUnknown(Visited(e)[i], names, k)
    BY <1>5, <1>11
  <2> QED
    BY <1>3, <2>1, PartsFindNoUnknown
<1>12. \A i \in DOMAIN Visited(e) : Deleted[Visited(e)[i]] \cap l = {}
  BY <1>6, <1>10 DEF Scoped, DeletedBy
<1>13. CASE e.kind \in {"select", "call"}
  <2>1. Visited(e) = Parts(e)
    BY <1>13 DEF Visited
  <2>2. NamesIn(e) = UNION {NamesIn(Parts(e)[i]) : i \in DOMAIN Parts(e)}
    BY <1>9, <1>13 DEF FreeNamesBy, NamesIn
  <2>3. \A i \in DOMAIN Visited(e) : Scoped(Visited(e)[i], names, l)
    BY <1>6, <1>12, <2>1, <2>2 DEF Scoped
  <2>4. e.kind = "call" => e.target # <<>> \/ e.function \in InternalFunctions
    BY <1>3 DEF Familiar
  <2>5. InspectAst[e][names][l] = InspectParts(InspectAst, e, names, l)
    BY <1>8, <1>13, <2>4 DEF InspectAt, InspectCall
  <2> QED
    BY <1>7, <1>11, <2>3, <2>5
<1>14. CASE e.kind = "ident"
  <2>1. NamesIn(e) = {e.name}
    BY <1>9, <1>14 DEF FreeNamesBy
  <2>2. e.name \in names \cup l
    BY <1>6, <2>1 DEF Scoped
  <2>3. InspectAst[e][names][l] = InspectIdent(e, names, l)
    BY <1>8, <1>14 DEF InspectAt
  <2>4. InspectAst[e][names][l] \subseteq {<<"resource", e.name>>}
    BY <2>2, <2>3 DEF InspectIdent
  <2> QED
    BY <1>7, <2>4
<1>15. CASE e.kind = "comprehension"
  <2> DEFINE k == l \cup {e.iterVar}
  <2>1. k \in SUBSET Name
    BY <1>3, <1>15, TreeAssumption
  <2>2. InspectAst[e][names][l] = InspectParts(InspectAst, e, names, k)
    BY <1>8, <1>15 DEF InspectAt, InspectComprehension
  <2>3. Visited(e) = Parts(e)
    BY <1>15 DEF Visited
  <2>4. \A i \in DOMAIN Visited(e) : Deleted[Visited(e)[i]] \cap k = {}
    BY <1>3, <1>12, <1>15 DEF Familiar
  <2>5. NamesIn(e) = NamesIn(e.iterRange) \cup NamesIn(e.result)
            \cup ((NamesIn(e.loopCondition) \cup NamesIn(e.loopStep))
                    \ {e.iterVar})
    BY <1>9, <1>15 DEF FreeNamesBy, NamesIn
  <2>6. NamesIn(e) \subseteq names \cup l
    BY <1>6 DEF Scoped
  <2>7. /\ NamesIn(e.iterRange) \subseteq names \cup k
        /\ NamesIn(e.loopCondition) \subseteq names \cup k
        /\ NamesIn(e.loopStep) \subseteq names \cup k
        /\ NamesIn(e.result) \subseteq names \cup k
    BY <2>5, <2>6
  <2> HIDE DEF k
  <2>8. \A i \in DOMAIN Visited(e) : NamesIn(Visited(e)[i]) \subseteq names \cup k
    <3>1. \A i \in 1..4 : i = 1 \/ i = 2 \/ i = 3 \/ i = 4
      OBVIOUS
    <3> QED
      BY <1>3, <1>15, <2>3, <2>7, <3>1, ComprehensionParts
  <2>9. \A i \in DOMAIN Visited(e) : Scoped(Visited(e)[i], names, k)
    BY <2>4, <2>8 DEF Scoped
  <2> QED
    BY <1>7, <1>11, <2>1, <2>2, <2>9
<1>16. CASE e.kind \notin {"select", "call", "ident", "comprehension"}
  <2>1. InspectAst[e][names][l] = {}
    BY <1>8, <1>16 DEF InspectAt
  <2> QED
    BY <1>7, <2>1
<1> QED
  BY <1>13, <1>14, <1>15, <1>16

\* Findings are pairs.
LEMMA FindingIsPair ==
    ASSUME NEW f \in Findings
    PROVE  f = <<f[1], f[2]>>
<1> DEFINE X == {"resource", "unknown resource", "unknown function"}
           Y == Name \cup {e.function : e \in Tree}
<1>1. f \in X \X Y
  BY DEF Findings
<1> HIDE DEF X, Y
<1> QED
  BY <1>1

\* Inspect reports, for a tree whose reads show, exactly those of the resources
\* it knows that the evaluation of the expression looks up, whatever else is in
\* the tree: extractDependencies misses no dependency and invents none.
THEOREM ResourcesAreExact ==
    ASSUME NEW names \in SUBSET Name, NEW T \in SUBSET Tree,
           ReadsShow(T, names), NEW e \in T
    PROVE  Found("resource", e, names) = NamesIn(e) \cap names
<1>1. FindsReads(e, names, {})
  BY WalkFindsReads
<1>2. {} \in SUBSET Name /\ e \in Tree
  OBVIOUS
<1>3. InspectAst[e][names][{}] \subseteq Findings
  BY <1>2, InspectFindings
<1> DEFINE F == {g \in InspectAst[e][names][{}] : g[1] = "resource"}
<1>4. \A f \in F : f = <<"resource", f[2]>>
  BY <1>3, FindingIsPair
<1>5. Found("resource", e, names) = {f[2] : f \in F}
  BY DEF Found
<1>6. \A n : n \in Found("resource", e, names)
               <=> <<"resource", n>> \in InspectAst[e][names][{}]
  <2>1. ASSUME NEW n, n \in Found("resource", e, names)
        PROVE  <<"resource", n>> \in InspectAst[e][names][{}]
    BY <1>4, <1>5, <2>1
  <2>2. ASSUME NEW n, <<"resource", n>> \in InspectAst[e][names][{}]
        PROVE  n \in Found("resource", e, names)
    <3>1. <<"resource", n>> \in F
      BY <2>2
    <3>2. <<"resource", n>>[2] = n
      OBVIOUS
    <3> QED
      BY <1>5, <3>1, <3>2
  <2> QED
    BY <2>1, <2>2
<1> QED
  BY <1>1, <1>6 DEF FindsReads

\* Inspect reports nothing unknown in a familiar tree that looks up known
\* resources only: extractDependencies refuses no such expression.
THEOREM FamiliarIsAccepted ==
    ASSUME NEW names \in SUBSET Name, NEW T \in SUBSET Tree, Familiar(T),
           NEW e \in T, NamesIn(e) \subseteq names
    PROVE  /\ Found("unknown resource", e, names) = {}
           /\ Found("unknown function", e, names) = {}
<1>1. Scoped(e, names, {})
  BY DEF Scoped
<1>2. FindsNoUnknown(e, names, {})
  BY <1>1, WalkFindsNoUnknown
<1>3. {} \in SUBSET Name /\ e \in Tree
  OBVIOUS
<1>4. InspectAst[e][names][{}] \subseteq Findings
  BY <1>3, InspectFindings
<1>5. \A f \in InspectAst[e][names][{}] : f = <<f[1], f[2]>>
  BY <1>4, FindingIsPair
<1>6. \A f \in InspectAst[e][names][{}] :
          f[1] # "unknown resource" /\ f[1] # "unknown function"
  <2>1. SUFFICES ASSUME NEW f \in InspectAst[e][names][{}]
                 PROVE  f[1] # "unknown resource" /\ f[1] # "unknown function"
    OBVIOUS
  <2>2. <<f[1], f[2]>> \in InspectAst[e][names][{}]
    BY <1>5
  <2>3. /\ <<"unknown resource", f[2]>> \notin InspectAst[e][names][{}]
        /\ <<"unknown function", f[2]>> \notin InspectAst[e][names][{}]
    BY <1>2 DEF FindsNoUnknown
  <2> QED
    BY <2>2, <2>3
<1> QED
  BY <1>6 DEF Found
=============================================================================
