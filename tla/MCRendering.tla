---------------------------- MODULE MCRendering ----------------------------
(***************************************************************************)
(* Jobs for the module Rendering.                                          *)
(***************************************************************************)
EXTENDS Rendering

CONSTANT OneLetter  \* whether a field has a name of one letter

E(text) == Pieces(<<Expr(text)>>)
L(text) == Pieces(<<Literal(text)>>)

Values ==
    [nm |-> String("vv"), id |-> String("w."), n1 |-> Scalar("integer", "3"),
     yes |-> Scalar("boolean", "true"),
     ls |-> ListNode(<<String("p"), String("q")>>),
     le |-> ListNode(<<String("p")>>), mm |-> MapNode("kk" :> String("p"))]
    @@ "f({1}).k" :> String("uu")

\* What the expressions give in the dry run: other values of the same types,
\* lists of other lengths, and a map without keys.
Emulated ==
    [nm |-> String("dummy"), id |-> String("dummy"), n1 |-> Scalar("integer", "4"),
     yes |-> Scalar("boolean", "false"), ls |-> ListNode(<<String("dummy")>>),
     le |-> ListNode(<<>>), mm |-> MapNode(<<>>)]

StringSchema == [type |-> "string"]
ListSchema(items) == [type |-> "array", items |-> items]

SpecProperties ==
    [name |-> StringSchema, size |-> [type |-> "integer"],
     open |-> [type |-> "boolean"], list |-> ListSchema(StringSchema),
     grid |-> ListSchema(ListSchema(StringSchema)),
     tags |-> [type |-> "object", allows |-> TRUE, additional |-> StringSchema],
     port |-> [oneOf |-> <<"integer", "string">>],
     free |-> [type |-> "object", preserve |-> TRUE],
     deep |-> ObjectSchema([inner |-> StringSchema])]

\* Fields with limits.
Ranges ==
    [low |-> [type |-> "integer", minimum |-> 2],
     fixed |-> [type |-> "integer", minimum |-> 4, maximum |-> 4],
     number |-> [type |-> "number", minimum |-> 1],
     mode |-> [type |-> "string", enum |-> <<"on", "off">>],
     many |-> ListSchema(StringSchema) @@ [minItems |-> 4],
     few |-> ListSchema(StringSchema) @@ [minItems |-> 0, maxItems |-> 2]]

Schema ==
    ObjectSchema([spec |-> ObjectSchema(SpecProperties @@ Ranges),
                  apiVersion |-> StringSchema, kind |-> StringSchema,
                  metadata |-> [type |-> "object"]])

\* No object can be made of a list without a schema of its items, and none of
\* an integer whose minimum is above the default maximum.
BadSchemas ==
    {ObjectSchema([spec |-> [type |-> "array"]]),
     ObjectSchema([spec |-> ObjectSchema(
         [name |-> StringSchema,
          size |-> [type |-> "integer", minimum |-> DefaultMaximum + 1]])])}

\* The strings of the templates, as pieces.
Strings ==
    {<<Literal("ab")>>, <<Expr("nm")>>, <<Expr("f({1}).k")>>,
     <<Literal("a-"), Expr("nm"), Literal("-"), Expr("nm")>>,
     <<Expr("nm"), Expr("id")>>, <<Literal("$"), Expr("nm"), Literal("}")>>,
     <<Literal("x"), Expr("f({1}).k"), Expr("n1")>>,
     <<Expr("nm"), Literal("${cd")>>, <<Literal("${cd "), Expr("nm")>>}

\* What the fields of the spec of a resource may hold; the literals that do
\* not fit the schema among it.
Contents(name) ==
    CASE name = "name" -> {Pieces(s) : s \in Strings} \cup {Scalar("integer", "1")}
      [] name = "size" -> {E("n1"), Scalar("integer", "1"), L("ab"),
                           Pieces(<<Literal("1"), Expr("n1")>>)}
      [] name = "open" -> {E("yes"), Scalar("integer", "1")}
      [] name = "list" -> {E("ls"), ListNode(<<E("nm"), L("ab"), E("id")>>),
                           ListNode(<<Scalar("boolean", "true")>>), L("ab")}
      [] name = "grid" -> {ListNode(<<ListNode(<<>>), ListNode(<<L("ab"), E("nm")>>)>>)}
      [] name = "tags" -> {MapNode("a.b" :> E("nm") @@ "" :> E("id")),
                           MapNode("cd" :> MapNode(<<>>)), MapNode("cd" :> Nil)}
      [] name = "port" -> {E("n1"), Scalar("integer", "1")}
      [] name = "free" -> {MapNode("cd" :> Scalar("integer", "1")), L("ab")}
      [] OTHER -> {MapNode("inner" :> Pieces(<<Expr("id"), Literal("!")>>)),
                   MapNode("other" :> L("ab"))}

\* What the fields with limits may hold, inside and outside of them.
LimitContents(name) ==
    CASE name \in {"low", "fixed"} -> {Scalar("integer", "1"), Scalar("integer", "4"),
                                       Scalar("integer", "6"), E("n1")}
      [] name = "number" -> {Scalar("integer", "3"), Scalar("number", "1.5"),
                             Scalar("number", "0"), E("n1")}
      [] name = "mode" -> {L("on"), L("ab"), E("nm")}
      [] OTHER -> {E("ls"), ListNode(<<>>), ListNode(<<L("ab"), E("nm"), L("ab")>>)}

LimitSpecs ==
    UNION {{name :> c : c \in LimitContents(name)} : name \in DOMAIN Ranges}

\* Every two fields of a spec, every content.
Specs ==
    {f \in UNION {[names -> UNION {Contents(n) : n \in names}] :
                    names \in kSubset(2, DOMAIN SpecProperties)} :
       \A n \in DOMAIN f : f[n] \in Contents(n)}

Conditions ==
    {<<>>, <<<<Expr("nm")>>, <<Expr("f({1}).k")>>>>, <<<<Expr("nm"), Literal("!")>>>>}

ResourceJob(spec, cond, unknown) ==
    [kind |-> "resource", template |-> MapNode("spec" :> MapNode(spec)),
     schema |-> Schema, conditions |-> cond, values |-> Values, unknown |-> unknown]

ResourceJobs ==
    {ResourceJob(spec, <<>>, unknown) : spec \in Specs, unknown \in {{}, {"nm"}}}
    \cup {ResourceJob([name |-> E("nm")], cond, {}) : cond \in Conditions}
    \cup {ResourceJob(spec, <<>>, {}) : spec \in LimitSpecs}
    \cup {[ResourceJob([name |-> L("ab")], <<>>, {}) EXCEPT !.schema = bad] :
            bad \in BadSchemas}

-----------------------------------------------------------------------------
Marker(key, text, quoted) == [key |-> key, value |-> text, quoted |-> quoted]

Letters == {"a", " ", "\"", "\\", "=", "{", "]"}
Texts == {""} \cup Letters \cup {x \o y : x, y \in Letters}

\* A default is put between quotes as it is: quotes and backslashes in it are
\* left out here.
StringMarkers ==
    {<<Marker("description", t, TRUE)>> : t \in Texts}
    \cup {<<Marker("required", "true", FALSE), Marker("description", t, TRUE)>> :
            t \in Texts}
    \cup {<<Marker("default", t, TRUE), Marker("description", "a\"", TRUE),
            Marker("required", "true", FALSE)>> : t \in {"", "a", "= {", "b"}}

Fields ==
    {Field(<<"string">>, m) : m \in StringMarkers}
    \cup {Field(type, <<>>) :
            type \in {<<"string">>, <<"float">>, <<"text">>, <<"list", "string">>,
                      <<"map", "list", "integer">>, <<"list", "map", "boolean">>,
                      <<"map", "map", "string">>, <<"list", "text">>, <<"map", "int">>,
                      <<"number">>, <<"list", "float">>, <<"map", "float">>}}
    \cup {Field(<<"integer">>, <<Marker("default", "10", FALSE)>>),
          Field(<<"integer">>, <<Marker("minimum", "1", FALSE)>>),
          Field(<<"list", "string">>, <<Marker("required", "true", FALSE),
                                        Marker("default", "[\"a b\", \"c\"]", FALSE)>>)}

InstanceJob(spec, status, base, unknown) ==
    [kind |-> "instance", spec |-> spec, status |-> status, base |-> base,
     values |-> Values, emulated |-> Emulated, unknown |-> unknown]

SimpleStatus == MapNode("aa" :> E("nm"))

SpecJobs ==
    {InstanceJob(MapNode("ff" :> f @@ "gg" :> MapNode("hh" :> Field(<<"string">>, <<>>))),
                 SimpleStatus, Nil, {}) : f \in Fields}

Statuses ==
    {MapNode("aa" :> E("nm") @@ "bb" :> MapNode("cc" :> E("n1") @@ "d.d" :> E("id"))),
     MapNode("bb" :> MapNode("cc" :> E("n1")) @@ "state" :> E("nm")),
     MapNode("ll" :> ListNode(<<E("nm"), MapNode("cc" :> E("n1"))>>)),
     MapNode("aa" :> E("ls")), MapNode("aa" :> E("le")), MapNode("aa" :> E("mm")),
     MapNode("aa" :> Pieces(<<Expr("nm"), Expr("n1")>>))}

\* The status of the last reconciliation: none, one of this template, and one
\* of a template that the author has changed since.
Bases ==
    {Nil,
     MapNode("aa" :> String("old") @@ "bb" :> MapNode("cc" :> Scalar("integer", "2"))
             @@ "state" :> String("ACTIVE")),
     MapNode("bb" :> String("old")),
     MapNode("ll" :> ListNode(<<Nil, Nil, String("old")>>))}

StatusJobs ==
    {InstanceJob(MapNode("ff" :> Field(<<"string">>, <<>>)), status, base, unknown) :
       status \in Statuses, base \in Bases, unknown \in {{}, {"nm"}, {"n1"}}}

-----------------------------------------------------------------------------
OneLetterJobs ==
    {ResourceJob([tags |-> MapNode("x" :> E("nm"))], <<>>, {})}

MCJobs ==
    IF OneLetter THEN OneLetterJobs ELSE ResourceJobs \cup SpecJobs \cup StatusJobs
=============================================================================
