----------------------------- MODULE MCBuilder -----------------------------
(***************************************************************************)
(* ResourceGroups for the graph builder: networks of up to three plain     *)
(* resources, pairs with conditions, status and invalid parts.             *)
(***************************************************************************)
EXTENDS GraphBuilder, Inspector

\* The sum of a field of each of the given names.
SumOf(names) ==
    LET s == SelectSeq(<<0, 1, 2, 3, 4>>, LAMBDA n : n \in names)
    IN  Call("_+_", [i \in DOMAIN s |-> Select(Ident(s[i]))])

Expr(reads, result) ==
    [ast |-> SumOf(reads), gives |-> {result}, lazy |-> FALSE]

\* An expression that runs, or is boolean, for some values only.
Undecided(reads, results) ==
    [ast |-> SumOf(reads), gives |-> results, lazy |-> FALSE]

\* ${schema.spec.on || n.status.ready}
OrOf(n) == Call("_||_", <<Select(Ident(Schema)), Select(Ident(n))>>)
Lazy(n) == [ast |-> OrOf(n), gives |-> {"bool"}, lazy |-> TRUE]

\* A resource with the given fields and nothing else.
Plain(n, fields) ==
    [id |-> n, wellFormed |-> TRUE, crd |-> FALSE, fields |-> fields,
     readyWhen |-> {}, includeWhen |-> {}]

Valid(resources, status) ==
    [resources |-> resources, status |-> status, kindValid |-> TRUE,
     specValid |-> TRUE]

\* Three resources; each has a field that reads any of the others, the third
\* in an expression for each.
Networks ==
    {Valid(<<Plain(1, {{Expr(a, "other")}}), Plain(2, {{Expr(b, "other")}}),
             Plain(3, {{Expr({n}, "other") : n \in c}})>>, {}) :
        a \in SUBSET {2, 3}, b \in SUBSET {1, 3, Schema}, c \in SUBSET {1, 2}}

\* Lists of resources, searched and mapped: loops with the variables i and j
\* in each other's ranges and bodies, which read a resource or the spec.
i == 10
j == 11
Equal(a, b) == Call("_==_", <<a, b>>)
Loops ==
    {Filter(Select(Ident(2)), i, Equal(Ident(i), Ident(3))),
     Map(Filter(Ident(2), i, Equal(Select(Ident(i)), Ident(Schema))), j,
         Select(Ident(j))),
     Filter(Ident(Schema), i,
            Equal(Call("size", <<Filter(Ident(2), j, Equal(Ident(i), Ident(j)))>>),
                  Ident(i))),
     Method(Map(Ident(3), i, Ident(i)), "contains", <<Select(Ident(2))>>),
     Equal(Ident(i), Map(Ident(2), i, Ident(i)))}

\* A function that CEL does not have, !x, a macro that calls
\* @not_strictly_false, and a variable used twice.
RefusedTrees ==
    {Call("now", <<Ident(2)>>),
     Call("!_", <<Ident(2)>>),
     All(Ident(2), i, Equal(Ident(i), Ident(Schema))),
     Filter(Filter(Ident(2), i, Ident(i)), i, Ident(i))}

SearchedLists ==
    {Valid(<<Plain(1, {{[ast |-> e, lazy |-> FALSE,
                         gives |-> IF e = Call("now", <<Ident(2)>>)
                                     THEN {"fault"} ELSE {"other"}]}}),
             Plain(2, {}), Plain(3, {{Expr(c, "other")}})>>, {}) :
        e \in Loops \cup RefusedTrees, c \in SUBSET {1, 2}}

\* Fields of a first resource, next to a second one: none, one that reads the
\* second, itself or a name that nobody has, one that fails or can fail, and
\* ones that can leave out what they read.
FieldChoices ==
    {{}} \cup {{{Expr(s, "other")}} : s \in {{Schema}, {2, Schema}, {1}, {3}}}
         \cup {{{Expr({2}, "fault")}}, {{Undecided({2}, {"other", "fault"})}},
                {{Lazy(1)}}, {{Lazy(2)}}}

Conditions ==
    {{}} \cup {{Expr(s, g)} : s \in {{1}, {2}, {Schema}}, g \in {"bool", "other"}}
         \cup {{Undecided({Schema}, {"bool", "other"})}, {Lazy(1)}, {Lazy(2)}}

\* Two resources, the first with conditions.
Pairs ==
    {Valid(<<[Plain(1, f) EXCEPT !.readyWhen = rw, !.includeWhen = iw],
             [Plain(2, {}) EXCEPT !.crd = c]>>, {}) :
        f \in FieldChoices, rw \in Conditions, iw \in Conditions,
        c \in BOOLEAN}

\* A status: none, one field, with two expressions or a name of one letter,
\* and one that can fail next to one of one letter.
StatusField(exprs) == [exprs |-> exprs, endless |-> FALSE]
OneLetter(exprs) == [exprs |-> exprs, endless |-> TRUE]
Statuses ==
    {{}, {StatusField(<<Expr({1}, "other"), Expr({2}, "other")>>)},
     {StatusField(<<Undecided({2}, {"other", "fault"})>>),
      OneLetter(<<Expr({1}, "other")>>)}}
    \cup {{StatusField(<<Expr(q, "other")>>)} : q \in {{}, {1}, {2}, {3}}}

\* Names, status and the other parts of a ResourceGroup.
Others ==
    {[resources |-> <<Plain(1, f), [Plain(n, {}) EXCEPT !.wellFormed = w,
                                                       !.crd = c]>>,
      status |-> s, kindValid |-> k, specValid |-> p] :
        f \in FieldChoices, n \in {1, 2, 4}, w, c, k, p \in BOOLEAN,
        s \in Statuses}
    \cup {Valid(<<[Plain(1, {{Expr({}, "other")}}) EXCEPT !.crd = TRUE]>>, {})}

Groups == Networks \cup SearchedLists \cup Pairs \cup Others

Trees == Loops \cup RefusedTrees
           \cup {SumOf(s) : s \in SUBSET {0, 1, 2, 3, 4}} \cup {OrOf(1), OrOf(2)}

\* The trees with their parts.
RECURSIVE NodesOf(_)
NodesOf(e) == {e} \cup UNION {NodesOf(Parts(e)[k]) : k \in DOMAIN Parts(e)}

\* The number of nodes of a tree.
RECURSIVE NodeCount(_)
NodeCount(e) == FoldSeq(LAMBDA part, n : n + NodeCount(part), 1, Parts(e))

Nodes == UNION {NodesOf(e) : e \in Trees}

Names == {0, 1, 2, 3, 4, i, j}

\* The theorems about the inspector apply to these trees.
ASSUME TreesAssumption ==
    /\ ReadsShow(Nodes, Node \cup {Schema})
    /\ Familiar(UNION {NodesOf(e) : e \in Trees \ Refused})
=============================================================================
