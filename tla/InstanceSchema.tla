--------------------------- MODULE InstanceSchema ---------------------------
(***************************************************************************)
(* The schema of an instance: the schema of its status, put together from  *)
(* what the expressions gave in the dry run (internal/graph/schema), the   *)
(* CRD around it (internal/graph/crd), and the dummy object that the       *)
(* emulator makes of a schema (internal/graph/emulator).                   *)
(***************************************************************************)
EXTENDS ValueResolver

ObjectSchema(properties) == [type |-> "object", properties |-> properties]

\* The schema of a value; a list has that of its first item.
RECURSIVE InferSchema(_)
InferSchema(value) ==
    CASE value.kind = "list" /\ value.items = <<>> -> [type |-> "array"]
      [] value.kind = "list" /\ value.items # <<>> ->
           [type |-> "array", items |-> InferSchema(value.items[1])]
      [] value.kind = "map" ->
           ObjectSchema([name \in DOMAIN value.fields |->
                           InferSchema(value.fields[name])])
      [] OTHER -> [type |-> value.kind]

\* Several values in one field have to be strings.
ValidEvals(values) ==
    Len(values) = 1 \/ \A i \in DOMAIN values : values[i].kind = "string"

\* What a schema declares under a name, or the object that is made there.
Declared(schema, name) ==
    IF name \in DOMAIN schema.properties THEN schema.properties[name]
                                         ELSE ObjectSchema(<<>>)

Declare(schema, name, declared) ==
    [schema EXCEPT !.properties = name :> declared @@ @]

\* Mutant: what was declared in an object before is lost.
AddToNewObject(schema, segments, new) ==
    LET name == Head(segments).name
    IN  IF Len(segments) = 1 THEN Declare(schema, name, new)
        ELSE Declare(schema, name,
                     Declare(ObjectSchema(<<>>), segments[2].name, new))

\* A segment that is an index turns a copy of the schema of its list into an
\* array; the schema of the status keeps the object.
RECURSIVE AddFieldToSchema(_, _, _)
AddFieldToSchema(schema, segments, new) ==
    LET name == Head(segments).name
    IN  CASE Len(segments) = 1 -> Declare(schema, name, new)
          [] Len(segments) > 1 /\ segments[2].index >= 0 ->
               Declare(schema, name, Declared(schema, name))
          [] OTHER ->
               Declare(schema, name, AddFieldToSchema(Declared(schema, name),
                                                      Tail(segments), new))

ConditionSchema ==
    ObjectSchema([name \in {"type", "status", "reason", "message",
                            "lastTransitionTime"} |-> [type |-> "string"]]
                 @@ "observedGeneration" :> [type |-> "integer"])

\* newCRDSchema: the state and the conditions are added unless declared.
NewCRDSchema(spec, status) ==
    LET defaults == "state" :> [type |-> "string"]
                 @@ "conditions" :> [type |-> "array", items |-> ConditionSchema]
    IN  ObjectSchema([name \in {"apiVersion", "kind"} |-> [type |-> "string"]]
                     @@ "metadata" :> [type |-> "object"]
                     @@ "spec" :> spec
                     @@ "status" :> [status EXCEPT !.properties = @ @@ defaults])

-----------------------------------------------------------------------------
(***************************************************************************)
(* The emulator.  Its random numbers are one choice for all the values of  *)
(* an object: the least or the greatest of every range.                    *)
(***************************************************************************)
SchemaTypes == {"string", "integer", "number", "boolean", "array", "object"}

\* The greatest integer without a declared maximum stands for 10000.
DefaultMaximum == 5

Setting(sch, key, default) == IF Has(sch, key) THEN sch[key] ELSE default
Properties(sch) == Setting(sch, "properties", <<>>)

\* The least or the greatest number of a range without its end.
Draw(min, max, random) == IF random = 1 \/ max <= min THEN min ELSE max - 1

Minimum(sch) == Setting(sch, "minimum", 0)
Maximum(sch) == Setting(sch, "maximum", DefaultMaximum)


GenerateInteger(sch, random) == ToString(Draw(Minimum(sch), Maximum(sch), random))

GenerateString(sch, random) ==
    IF Has(sch, "enum") THEN sch.enum[Draw(1, Len(sch.enum) + 1, random)] ELSE "dummy"

NumItems(sch, random) ==
    Draw(Setting(sch, "minItems", 1), Setting(sch, "maxItems", 3), random)

\* A schema without a type is that of an object, or has alternatives.
GeneratedType(sch) ==
    CASE Has(sch, "type") -> sch.type
      [] ~Has(sch, "type") /\ Has(sch, "properties") -> "object"
      [] OTHER -> IF Has(sch, "oneOf") THEN "oneOf" ELSE ""

\* How generateValue can fail: with an error, or in Int63n, which panics if the
\* minimum is above the maximum.
RECURSIVE EmulationFailures(_)
EmulationFailures(sch) ==
    LET type == GeneratedType(sch)
    IN  CASE type \notin SchemaTypes \cup {"oneOf"} -> {"rejected"}
          [] type = "integer" ->
               IF Minimum(sch) > Maximum(sch) THEN {"panicked"} ELSE {}
          [] type = "array" ->
               IF Has(sch, "items") THEN EmulationFailures(sch.items)
                                    ELSE {"rejected"}
          [] OTHER ->
               UNION {EmulationFailures(Properties(sch)[name]) :
                        name \in DOMAIN Properties(sch)}

RECURSIVE GenerateValue(_, _)
GenerateValue(sch, random) ==
    LET type == GeneratedType(sch)
    IN  CASE type = "string" -> String(GenerateString(sch, random))
          [] type \in {"integer", "number"} -> Scalar(type, GenerateInteger(sch, random))
          [] type = "boolean" -> Scalar(type, IF random = 1 THEN "false" ELSE "true")
          [] type = "array" ->
               ListNode([i \in 1..NumItems(sch, random) |->
                           GenerateValue(sch.items, random)])
          [] type = "object" ->
               MapNode([name \in DOMAIN Properties(sch) |->
                          GenerateValue(Properties(sch)[name], random)])
          [] OTHER ->
               GenerateValue([type |-> sch.oneOf[Draw(1, Len(sch.oneOf) + 1, random)]],
                             random)

\* GenerateDummyCR: the fields common to all resources are not generated but
\* set.
TopLevelFields == {"apiVersion", "kind", "metadata"}

CRFailures(sch) ==
    UNION {EmulationFailures(sch.properties[name]) :
             name \in DOMAIN sch.properties \ TopLevelFields}

GenerateDummyCR(sch, random) ==
    MapNode([name \in DOMAIN sch.properties \ TopLevelFields |->
               GenerateValue(sch.properties[name], random)]
            @@ "apiVersion" :> String("dummy")
            @@ "kind" :> String("dummy")
            @@ "metadata" :> MapNode([name \in {"name", "namespace"} |->
                                        String("dummy")]))
=============================================================================
