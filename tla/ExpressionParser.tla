-------------------------- MODULE ExpressionParser --------------------------
(***************************************************************************)
(* The expression parser (internal/graph/parser): it walks a template,     *)
(* with the OpenAPI schema of the resource or without one, checks the      *)
(* literals against the schema and returns a descriptor of every field     *)
(* that has expressions.                                                   *)
(*                                                                         *)
(* A template, a resource and a value are nodes: maps, lists, strings,     *)
(* other scalars and nil.  A schema is a record with those of the fields   *)
(* type, oneOf, properties, allows, additional, items and preserve that    *)
(* are set.                                                                *)
(***************************************************************************)
EXTENDS FieldPath

MapNode(fields) == [kind |-> "map", fields |-> fields]
ListNode(items) == [kind |-> "list", items |-> items]
String(text) == [kind |-> "string", text |-> text]
Scalar(kind, text) == [kind |-> kind, text |-> text]
Nil == [kind |-> "nil"]

Has(schema, key) == key \in DOMAIN schema

-----------------------------------------------------------------------------
(***************************************************************************)
(* Expressions in a text (cel.go).                                         *)
(***************************************************************************)
Nested == 0

\* Mutant: the first closing bracket ends the expression.
FirstBracket(text, end, bracketCount) ==
    IF IsAt(text, end, "${") THEN Nested ELSE Find(text, end, {"}"})

\* The position of the bracket that closes an expression, the one behind the
\* end when it is not closed, or Nested.
RECURSIVE ClosingBracket(_, _, _)
ClosingBracket(text, end, bracketCount) ==
    CASE end > Len(text) -> end
      [] IsAt(text, end, "{") -> ClosingBracket(text, end + 1, bracketCount + 1)
      [] IsAt(text, end, "}") ->
           IF bracketCount = 1 THEN end
           ELSE ClosingBracket(text, end + 1, bracketCount - 1)
      [] IsAt(text, end, "${") -> Nested
      [] OTHER -> ClosingBracket(text, end + 1, bracketCount)

RECURSIVE Extract(_, _, _)
Extract(text, start, found) ==
    LET open == Index(text, start, "${")
        end == ClosingBracket(text, open + 2, 1)
    IN  CASE start > Len(text) \/ open = 0 -> [nested |-> FALSE, list |-> found]
          [] start <= Len(text) /\ open # 0 /\ end = Nested ->
               [nested |-> TRUE, list |-> <<>>]
          [] start <= Len(text) /\ open # 0 /\ end > Len(text) ->
               Extract(text, start + 1, found)
          [] OTHER -> Extract(text, end + 1,
                              Append(found, SubSeq(text, open + 2, end - 1)))

ExtractExpressions(text) == Extract(text, 1, <<>>)

Marks == {"$", "{", "}"}

IsStandaloneExpression(text) ==
    LET expressions == ExtractExpressions(text).list
    IN  Len(expressions) = 1 /\ text = "${" \o expressions[1] \o "}"

\* The conditions of a resource (conditions.go).
ConditionsAccepted(conditions) ==
    \A i \in DOMAIN conditions :
        /\ ~ExtractExpressions(conditions[i]).nested
        /\ IsStandaloneExpression(conditions[i])

ParseConditionExpressions(conditions) ==
    [i \in DOMAIN conditions |-> Trim(conditions[i], Marks)]

-----------------------------------------------------------------------------
(***************************************************************************)
(* Templates.  The result is the set of the descriptors, for the order in  *)
(* which Go ranges over a map is any; it has Failure in it when the        *)
(* parser returns an error.                                                *)
(***************************************************************************)
Descriptor(path, expressions, standalone) ==
    [path |-> path, expressions |-> expressions, standalone |-> standalone]

Failure == Descriptor("", <<>>, FALSE)

\* The descriptors of a string that may hold expressions.
FieldsOf(text, path, literalAllowed) ==
    CASE ExtractExpressions(text).nested -> {Failure}
      [] IsStandaloneExpression(text) ->
           {Descriptor(path, <<Trim(text, Marks)>>, TRUE)}
      [] OTHER ->
           IF ~literalAllowed THEN {Failure}
           ELSE IF ExtractExpressions(text).list = <<>> THEN {}
           ELSE {Descriptor(path, ExtractExpressions(text).list, FALSE)}

RECURSIVE ParseSchemalessResource(_, _)
ParseSchemalessResource(node, path) ==
    CASE node.kind = "map" ->
           UNION {ParseSchemalessResource(node.fields[name],
                                          JoinPathAndFieldName(path, name)) :
                    name \in DOMAIN node.fields}
      [] node.kind = "list" ->
           UNION {ParseSchemalessResource(node.items[i], ItemPath(path, i - 1)) :
                    i \in DOMAIN node.items}
      [] node.kind = "string" -> FieldsOf(node.text, path, TRUE)
      [] OTHER -> {}

\* The schema without a type takes the first alternative, if there is one.
ValidateSchema(schema) == Has(schema, "type") \/ Has(schema, "oneOf")

Allows(schema) == Has(schema, "allows") /\ schema.allows

GetExpectedType(schema) ==
    CASE ~Has(schema, "type") -> schema.oneOf[1]
      [] Has(schema, "type") /\ schema.type = "" /\ Allows(schema) -> "any"
      [] OTHER -> schema.type

HasFieldSchema(schema, name) ==
    \/ Has(schema, "properties") /\ name \in DOMAIN schema.properties
    \/ Has(schema, "additional")
    \/ Allows(schema)

\* A field that is allowed without a schema gets an empty one.
GetFieldSchema(schema, name) ==
    CASE Has(schema, "properties") /\ name \in DOMAIN schema.properties ->
           schema.properties[name]
      [] Has(schema, "additional") /\ ~(Has(schema, "properties")
                                        /\ name \in DOMAIN schema.properties) ->
           schema.additional
      [] OTHER -> <<>>


ParseScalarTypes(node, expectedType) ==
    IF \/ expectedType = "any"
       \/ expectedType \in {"number", "integer", "boolean"}
          /\ node.kind = expectedType
      THEN {}
      ELSE {Failure}

RECURSIVE ParseResource(_, _, _)

ParseObject(node, schema, path) ==
    CASE GetExpectedType(schema) # "object" /\ ~Allows(schema) -> {Failure}
      [] (GetExpectedType(schema) = "object" \/ Allows(schema))
         /\ Has(schema, "preserve") -> {}
      [] OTHER ->
           UNION {IF HasFieldSchema(schema, name)
                    THEN ParseResource(node.fields[name],
                                       GetFieldSchema(schema, name),
                                       JoinPathAndFieldName(path, name))
                    ELSE {Failure} : name \in DOMAIN node.fields}

ParseArray(node, schema, path) ==
    IF GetExpectedType(schema) = "array" /\ Has(schema, "items")
      THEN UNION {ParseResource(node.items[i], schema.items, ItemPath(path, i - 1)) :
                    i \in DOMAIN node.items}
      ELSE {Failure}

ParseResource(node, schema, path) ==
    CASE ~ValidateSchema(schema) -> {Failure}
      [] ValidateSchema(schema) /\ node.kind = "map" ->
           ParseObject(node, schema, path)
      [] ValidateSchema(schema) /\ node.kind = "list" ->
           ParseArray(node, schema, path)
      [] ValidateSchema(schema) /\ node.kind = "string" ->
           FieldsOf(node.text, path, GetExpectedType(schema) \in {"string", "any"})
      [] ValidateSchema(schema) /\ node.kind = "nil" -> {}
      [] OTHER -> ParseScalarTypes(node, GetExpectedType(schema))
=============================================================================
