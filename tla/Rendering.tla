----------------------------- MODULE Rendering -----------------------------
(***************************************************************************)
(* The way of a template through kro.  The template of a resource is       *)
(* parsed when the ResourceGroup is built and resolved when an instance is *)
(* reconciled; the schema and the status of the instance become a CRD and  *)
(* a dummy object when the ResourceGroup is built, and the status is       *)
(* written when the instance is reconciled.                                *)
(*                                                                         *)
(* A job is one such way, from the start to the end: what the author of    *)
(* the ResourceGroup wrote, in pieces, the values of the expressions, and  *)
(* which of them are known; for an instance also the values that they had  *)
(* in the dry run, which come from emulated objects.  The fields are taken *)
(* in any order, for they were found by ranging over Go maps.              *)
(***************************************************************************)
EXTENDS InstanceSchema, SimpleSchema

CONSTANT Jobs

VARIABLES
    job,          \* the templates and the values
    pc,           \* the part of the work that is being done
    descriptors,  \* the fields that have expressions
    conditions,   \* the expressions of the conditions of a resource
    todo,         \* the fields that are left
    field,        \* the field in work, or NoField
    parser,       \* the parser of the path of that field
    value,        \* the value that is about to be written
    resource,     \* the resource or the instance in memory
    errors,       \* the segments of the fields that could not be resolved
    schema,       \* the schema of the status, then that of the CRD
    dummy         \* the object that stands for the instance in dry runs

vars == <<job, pc, descriptors, conditions, todo, field, parser, value, resource,
          errors, schema, dummy>>

NoField == Failure

-----------------------------------------------------------------------------
(***************************************************************************)
(* What the author wrote: a string of a template is a sequence of pieces,  *)
(* literals and expressions, and its text is made of them.                 *)
(***************************************************************************)
Literal(text) == [expr |-> FALSE, text |-> text]
Expr(text) == [expr |-> TRUE, text |-> text]
Pieces(pieces) == [kind |-> "pieces", pieces |-> pieces]

\* The text of the pieces, with the values in the place of the expressions
\* that have one.
RECURSIVE Written(_, _)
Written(pieces, data) ==
    IF pieces = <<>> THEN ""
    ELSE (CASE ~Head(pieces).expr -> Head(pieces).text
            [] Head(pieces).expr /\ Head(pieces).text \in DOMAIN data ->
                 data[Head(pieces).text].text
            [] OTHER -> "${" \o Head(pieces).text \o "}")
         \o Written(Tail(pieces), data)

Expressions(pieces) == {pieces[i].text : i \in {j \in DOMAIN pieces : pieces[j].expr}}

\* A field of the spec: its type, outermost part first, and its markers.
Field(type, markers) == [kind |-> "field", type |-> type, markers |-> markers]

RECURSIVE TypeText(_)
TypeText(type) ==
    CASE Head(type) = "map" -> "map[string]" \o TypeText(Tail(type))
      [] Head(type) = "list" -> "[]" \o TypeText(Tail(type))
      [] OTHER -> Head(type)

RECURSIVE MarkersText(_)
MarkersText(markers) ==
    IF markers = <<>> THEN ""
    ELSE " " \o Head(markers).key \o "="
           \o (IF Head(markers).quoted THEN Quote(Head(markers).value)
                                       ELSE Head(markers).value)
           \o MarkersText(Tail(markers))

FieldText(f) ==
    TypeText(f.type) \o IF f.markers = <<>> THEN "" ELSE " |" \o MarkersText(f.markers)

RECURSIVE Source(_)
Source(tree) ==
    CASE tree.kind = "pieces" -> String(Written(tree.pieces, <<>>))
      [] tree.kind = "field" -> String(FieldText(tree))
      [] tree.kind = "map" ->
           MapNode([name \in DOMAIN tree.fields |-> Source(tree.fields[name])])
      [] tree.kind = "list" ->
           ListNode([i \in DOMAIN tree.items |-> Source(tree.items[i])])
      [] OTHER -> tree

\* The values that are known.
Data(j) == [e \in DOMAIN j.values \ j.unknown |-> j.values[e]]

-----------------------------------------------------------------------------
(***************************************************************************)
(* Building the ResourceGroup.                                             *)
(***************************************************************************)
Init ==
    /\ job \in Jobs
    /\ pc = "parse"
    /\ descriptors = {}
    /\ conditions = <<>>
    /\ todo = {}
    /\ field = NoField
    /\ parser = StartParser
    /\ value = Nil
    /\ resource = Nil
    /\ errors = {}
    /\ schema = ObjectSchema(<<>>)
    /\ dummy = Nil

\* buildRGResource; evaluateResourceExpressions starts with the original
\* object.
ParseTemplate(random) ==
    LET texts == [i \in DOMAIN job.conditions |-> Written(job.conditions[i], <<>>)]
    IN  /\ pc = "parse" /\ job.kind = "resource" /\ CRFailures(job.schema) = {}
        /\ dummy' = GenerateDummyCR(job.schema, random)
        /\ descriptors' = ParseResource(Source(job.template), job.schema, "")
        /\ pc' = IF Failure \in descriptors' \/ ~ConditionsAccepted(texts)
                   THEN "rejected" ELSE "read"
        /\ conditions' = ParseConditionExpressions(texts)
        /\ todo' = descriptors'
        /\ resource' = Source(job.template)
        /\ UNCHANGED <<job, field, parser, value, errors, schema>>

RejectResource ==
    /\ pc = "parse" /\ job.kind = "resource"
    /\ pc' \in CRFailures(job.schema)
    /\ UNCHANGED <<job, descriptors, conditions, todo, field, parser, value, resource,
                   errors, schema, dummy>>

\* buildInstanceSpecSchema, and the first part of buildStatusSchema.
ParseInstance ==
    /\ pc = "parse" /\ job.kind = "instance"
    /\ descriptors' = ParseSchemalessResource(Source(job.status), "")
    /\ pc' = IF Failure \in descriptors' \/ ~SpecAccepted(Source(job.spec))
               THEN "rejected" ELSE "schema"
    /\ todo' = descriptors'
    /\ UNCHANGED <<job, conditions, field, parser, value, resource, errors, schema,
                   dummy>>

\* The status writes only the fields whose expression is resolved.
TakeField(f) ==
    /\ pc \in {"schema", "read", "status"} /\ field = NoField
    /\ todo' = todo \ {f}
    /\ field' = IF pc = "status" /\ f.expressions[1] \notin DOMAIN Data(job)
                  THEN NoField ELSE f
    /\ parser' = StartParser
    /\ UNCHANGED <<job, pc, descriptors, conditions, value, resource, errors, schema,
                   dummy>>

\* One iteration of fieldpath.Parse.
ParsePath ==
    /\ field # NoField /\ ~Parsed(field.path, parser)
    /\ parser' = Iterate(field.path, parser)
    /\ UNCHANGED <<job, pc, descriptors, conditions, todo, field, value, resource,
                   errors, schema, dummy>>

PathParsed == field # NoField /\ Parsed(field.path, parser)

\* The values of the expressions of the field in the dry run, which reads the
\* emulated objects.
Evals(f) == [i \in DOMAIN f.expressions |-> job.emulated[f.expressions[i]]]

AddField ==
    /\ pc = "schema" /\ PathParsed /\ ~parser.failed /\ ValidEvals(Evals(field))
    /\ schema' = AddFieldToSchema(schema, parser.segments,
                                  InferSchema(Evals(field)[1]))
    /\ field' = NoField
    /\ UNCHANGED <<job, pc, descriptors, conditions, todo, parser, value, resource,
                   errors, dummy>>

RejectField ==
    /\ pc = "schema" /\ PathParsed
    /\ parser.failed \/ ~ValidEvals(Evals(field))
    /\ pc' = "rejected"
    /\ UNCHANGED <<job, descriptors, conditions, todo, field, parser, value, resource,
                   errors, schema, dummy>>

\* The fields of the status get their paths in the instance.
InStatus(f) == [f EXCEPT !.path = "status." \o @]

CRDSchema == NewCRDSchema(BuildOpenAPISchema(Source(job.spec)), schema)

\* The rest of buildInstanceResource.  The instance that is reconciled later
\* has the status of its last reconciliation.
BuildInstance(random) ==
    /\ pc = "schema" /\ todo = {} /\ field = NoField /\ CRFailures(CRDSchema) = {}
    /\ schema' = CRDSchema
    /\ dummy' = GenerateDummyCR(CRDSchema, random)
    /\ todo' = {InStatus(f) : f \in descriptors}
    /\ resource' = MapNode("status" :> job.base)
    /\ pc' = "status"
    /\ UNCHANGED <<job, descriptors, conditions, field, parser, value, errors>>

RejectSchema ==
    /\ pc = "schema" /\ todo = {} /\ field = NoField
    /\ pc' \in CRFailures(CRDSchema)
    /\ UNCHANGED <<job, descriptors, conditions, todo, field, parser, value, resource,
                   errors, schema, dummy>>

-----------------------------------------------------------------------------
(***************************************************************************)
(* Reconciling an instance: Resolve and UpsertValueAtPath.                 *)
(***************************************************************************)
\* No path starts with a dot, and none is empty.
ReadField ==
    /\ pc = "read" /\ PathParsed
    /\ ~parser.failed
    /\ CanResolve(GetValue(resource, parser.segments), field, Data(job))
    /\ value' = ResolvedValue(GetValue(resource, parser.segments), field, Data(job))
    /\ parser' = StartParser
    /\ pc' = "write"
    /\ UNCHANGED <<job, descriptors, conditions, todo, field, resource, errors, schema,
                   dummy>>

ReadFails ==
    \/ parser.failed
    \/ ~CanResolve(GetValue(resource, parser.segments), field, Data(job))

ReadError ==
    /\ pc = "read" /\ PathParsed /\ ReadFails
    /\ errors' = errors \cup {parser.segments}
    /\ field' = NoField
    /\ UNCHANGED <<job, pc, descriptors, conditions, todo, parser, value, resource,
                   schema, dummy>>

WriteField ==
    /\ pc = "write" /\ PathParsed
    /\ IF ~parser.failed /\ CanSet(resource, parser.segments)
         THEN /\ resource' = SetValue(resource, parser.segments, value)
              /\ UNCHANGED errors
         ELSE /\ errors' = errors \cup {parser.segments}
              /\ UNCHANGED resource
    /\ field' = NoField
    /\ pc' = "read"
    /\ UNCHANGED <<job, descriptors, conditions, todo, parser, value, schema, dummy>>

UpsertStatus ==
    /\ pc = "status" /\ PathParsed
    /\ ~parser.failed /\ CanSet(resource, parser.segments)
    /\ resource' = SetValue(resource, parser.segments,
                            Data(job)[field.expressions[1]])
    /\ field' = NoField
    /\ UNCHANGED <<job, pc, descriptors, conditions, todo, parser, value, errors,
                   schema, dummy>>

\* The first field that cannot be written ends evaluateInstanceStatuses.
StatusError ==
    /\ pc = "status" /\ PathParsed
    /\ parser.failed \/ ~CanSet(resource, parser.segments)
    /\ pc' = "failed"
    /\ UNCHANGED <<job, descriptors, conditions, todo, field, parser, value, resource,
                   errors, schema, dummy>>

Finish ==
    /\ pc \in {"read", "status"} /\ todo = {} /\ field = NoField
    /\ pc' = "done"
    /\ UNCHANGED <<job, descriptors, conditions, todo, field, parser, value, resource,
                   errors, schema, dummy>>

Ended == pc \in {"done", "failed", "rejected", "panicked"}

Stop == Ended /\ UNCHANGED vars

Next ==
    \/ \E random \in 1..2 : ParseTemplate(random)
    \/ RejectResource \/ ParseInstance
    \/ \E f \in todo : TakeField(f)
    \/ ParsePath
    \/ AddField \/ RejectField \/ RejectSchema
    \/ \E random \in 1..2 : BuildInstance(random)
    \/ ReadField \/ ReadError \/ WriteField
    \/ UpsertStatus \/ StatusError
    \/ Finish \/ Stop

\* The loop of fieldpath.Parse waits for nothing: it goes on while it can.
Spec == Init /\ [][Next]_vars /\ WF_vars(ParsePath)

-----------------------------------------------------------------------------
(***************************************************************************)
(* The reference: what the templates mean.                                 *)
(***************************************************************************)
IsExpression(tree) == Len(tree.pieces) = 1 /\ tree.pieces[1].expr

\* A field with an expression that has no value keeps its text.
RECURSIVE Render(_, _)
Render(tree, data) ==
    CASE tree.kind = "map" ->
           MapNode([name \in DOMAIN tree.fields |-> Render(tree.fields[name], data)])
      [] tree.kind = "list" ->
           ListNode([i \in DOMAIN tree.items |-> Render(tree.items[i], data)])
      [] tree.kind = "pieces" ->
           CASE ~(Expressions(tree.pieces) \subseteq DOMAIN data) -> Source(tree)
             [] IsExpression(tree) /\ Expressions(tree.pieces) \subseteq DOMAIN data ->
                  data[tree.pieces[1].text]
             [] OTHER -> String(Written(tree.pieces, data))
      [] OTHER -> tree

\* The places of the fields that have an expression without a value.
RECURSIVE Lacking(_, _, _)
Lacking(tree, data, place) ==
    CASE tree.kind = "map" ->
           UNION {Lacking(tree.fields[name], data, Append(place, Named(name))) :
                    name \in DOMAIN tree.fields}
      [] tree.kind = "list" ->
           UNION {Lacking(tree.items[i], data, Append(place, Indexed(i - 1))) :
                    i \in DOMAIN tree.items}
      [] tree.kind = "pieces" ->
           IF Expressions(tree.pieces) \subseteq DOMAIN data THEN {} ELSE {place}
      [] OTHER -> {}

\* The numbers of the jobs are at most this.
GreatestNumber == 9

IsIn(text, numbers) == \E i \in numbers : text = ToString(i)

\* Whether a scalar is in the enum and the range of the schema.
InLimits(node, sch) ==
    /\ Has(sch, "enum") => \E i \in DOMAIN sch.enum : node.text = sch.enum[i]
    /\ Has(sch, "minimum") => ~IsIn(node.text, 0..(sch.minimum - 1))
    /\ Has(sch, "maximum") => ~IsIn(node.text, (sch.maximum + 1)..GreatestNumber)

\* Whether a node has the types of the schema, and is in its limits if those
\* count; nil is left out.
RECURSIVE Fits(_, _, _)
Fits(node, sch, limits) ==
    CASE node.kind = "nil" -> TRUE
      [] node.kind # "nil" /\ Has(sch, "oneOf") ->
           \E i \in DOMAIN sch.oneOf : node.kind = sch.oneOf[i]
      [] node.kind = "map" /\ ~Has(sch, "oneOf") ->
           /\ sch.type = "object"
           /\ \/ Has(sch, "preserve")
              \/ sch = [type |-> "object"]
              \/ \A name \in DOMAIN node.fields :
                    /\ HasFieldSchema(sch, name)
                    /\ Fits(node.fields[name], GetFieldSchema(sch, name), limits)
      [] node.kind = "list" /\ ~Has(sch, "oneOf") ->
           /\ sch.type = "array"
           /\ Has(sch, "items") =>
                \A i \in DOMAIN node.items : Fits(node.items[i], sch.items, limits)
           /\ limits => /\ Len(node.items) >= Setting(sch, "minItems", 0)
                        /\ Has(sch, "maxItems") => Len(node.items) <= sch.maxItems
      [] OTHER ->
           /\ \/ node.kind = sch.type
              \/ node.kind = "integer" /\ sch.type = "number"
           /\ limits => InLimits(node, sch)

\* The API server would take the node for the schema.
Conforms(node, sch) == Fits(node, sch, TRUE)

\* An integer in the place of a number, in the text of a template.
RECURSIVE HasIntegerForNumber(_, _)
HasIntegerForNumber(tree, sch) ==
    CASE tree.kind = "map" ->
           \E name \in DOMAIN tree.fields :
              /\ HasFieldSchema(sch, name)
              /\ HasIntegerForNumber(tree.fields[name], GetFieldSchema(sch, name))
      [] tree.kind = "list" ->
           /\ Has(sch, "items")
           /\ \E i \in DOMAIN tree.items : HasIntegerForNumber(tree.items[i], sch.items)
      [] OTHER -> tree.kind = "integer" /\ Setting(sch, "type", "") = "number"

\* An expression behind an opening mark in the text is nested.
RECURSIVE HasNested(_)
HasNested(tree) ==
    CASE tree.kind = "map" -> \E name \in DOMAIN tree.fields : HasNested(tree.fields[name])
      [] tree.kind = "list" -> \E i \in DOMAIN tree.items : HasNested(tree.items[i])
      [] tree.kind = "pieces" ->
           \E i, j \in DOMAIN tree.pieces :
              /\ i < j /\ ~tree.pieces[i].expr /\ tree.pieces[j].expr
              /\ Index(tree.pieces[i].text, 1, "${") # 0
      [] OTHER -> FALSE

\* The status after the values that are known were written over the old one.
RECURSIVE AnyKnown(_, _)
AnyKnown(tree, data) ==
    CASE tree.kind = "map" ->
           \E name \in DOMAIN tree.fields : AnyKnown(tree.fields[name], data)
      [] tree.kind = "list" -> \E i \in DOMAIN tree.items : AnyKnown(tree.items[i], data)
      [] tree.kind = "pieces" ->
           IsExpression(tree) /\ Expressions(tree.pieces) \subseteq DOMAIN data
      [] OTHER -> FALSE

RECURSIVE Overlay(_, _, _)
Overlay(old, tree, data) ==
    CASE ~AnyKnown(tree, data) -> old
      [] AnyKnown(tree, data) /\ tree.kind = "map" ->
           LET known == {name \in DOMAIN tree.fields : AnyKnown(tree.fields[name], data)}
           IN  MapNode([name \in known |-> Overlay(Child(old, Named(name)),
                                                   tree.fields[name], data)]
                       @@ IF old.kind = "map" THEN old.fields ELSE <<>>)
      [] AnyKnown(tree, data) /\ tree.kind = "list" ->
           LET items == IF old.kind = "list" THEN old.items ELSE <<>>
               known == {i \in DOMAIN tree.items : AnyKnown(tree.items[i], data)}
           IN  ListNode([i \in 1..Max(known \cup {Len(items)}) |->
                           CASE i \in known -> Overlay(Child(old, Indexed(i - 1)),
                                                       tree.items[i], data)
                             [] i \notin known /\ i <= Len(items) -> items[i]
                             [] OTHER -> Nil])
      [] OTHER -> data[tree.pieces[1].text]

\* A status from whose values in the dry run no schema can be made: several
\* expressions in one text that are not all strings, or a list without items.
RECURSIVE LacksSchema(_, _)
LacksSchema(tree, values) ==
    CASE tree.kind = "map" ->
           \E name \in DOMAIN tree.fields : LacksSchema(tree.fields[name], values)
      [] tree.kind = "list" ->
           \E i \in DOMAIN tree.items : LacksSchema(tree.items[i], values)
      [] OTHER ->
           \/ IsExpression(tree) /\ values[tree.pieces[1].text] = ListNode(<<>>)
           \/ \E i, j \in DOMAIN tree.pieces :
                 /\ i # j /\ tree.pieces[i].expr /\ tree.pieces[j].expr
                 /\ values[tree.pieces[i].text].kind # "string"

RECURSIVE HasList(_)
HasList(tree) ==
    \/ tree.kind = "list"
    \/ tree.kind = "map" /\ \E name \in DOMAIN tree.fields : HasList(tree.fields[name])

\* The schema that a field of the spec declares.
RECURSIVE TypeMeaning(_)
TypeMeaning(type) ==
    CASE Head(type) = "map" ->
           [type |-> "object", additional |-> TypeMeaning(Tail(type))]
      [] Head(type) = "list" -> [type |-> "array", items |-> TypeMeaning(Tail(type))]
      [] OTHER -> [type |-> Head(type)]

Keys(f) == {f.markers[i].key : i \in DOMAIN f.markers}
ValueOf(f, key) == f.markers[CHOOSE i \in DOMAIN f.markers : f.markers[i].key = key].value

FieldMeaning(f) ==
    [key \in Keys(f) \cap {"default", "description"} |->
       IF key = "default" /\ f.type = <<"string">> THEN Quote(ValueOf(f, key))
                                                   ELSE ValueOf(f, key)]
    @@ TypeMeaning(f.type)

RECURSIVE Meaning(_)
Meaning(tree) ==
    IF tree.kind = "field" THEN FieldMeaning(tree)
    ELSE [type |-> "object",
          properties |-> [name \in DOMAIN tree.fields |-> Meaning(tree.fields[name])],
          required |-> {name \in DOMAIN tree.fields :
                          /\ tree.fields[name].kind = "field"
                          /\ "required" \in Keys(tree.fields[name])}]

\* The atomic types and the markers of the SimpleSchema.
KnownField(f) ==
    /\ f.type[Len(f.type)] \in {"boolean", "integer", "float", "string"}
    /\ Keys(f) \subseteq {"required", "default", "description"}

\* A float that is not the value of a map.
IsFloat(f) == f.type[Len(f.type)] = "float" /\ \A i \in DOMAIN f.type : f.type[i] # "map"

RECURSIVE SpecFields(_)
SpecFields(tree) ==
    IF tree.kind = "field" THEN {tree}
    ELSE UNION {SpecFields(tree.fields[name]) : name \in DOMAIN tree.fields}

-----------------------------------------------------------------------------
(***************************************************************************)
(* Properties.                                                             *)
(***************************************************************************)

\* Resolve ends with the template as its author means it: every field whose
\* expressions all have values holds them in the right places, the errors are
\* those of the other fields, which keep their text, and nothing else changed;
\* whatever the order in which the fields were found, dots in their names and
\* empty names included (resolver.go:60-125, parser.go:247).
RendersTemplate ==
    pc = "done" /\ job.kind = "resource" =>
        /\ resource = Render(job.template, Data(job))
        /\ errors = Lacking(job.template, Data(job), <<>>)
        /\ \A i \in DOMAIN conditions : conditions[i] = job.conditions[i][1].text




\* evaluateInstanceStatuses writes the values that are known over the status
\* of the last reconciliation and leaves everything else in it alone,
\* whatever the order of the fields.
StatusIsOverlay ==
    pc = "done" /\ job.kind = "instance" =>
        resource.fields["status"] = Overlay(job.base, job.status, Data(job))

\* The CRD that is made for a status without lists takes the status that is
\* written, if it takes the one before and each value written fits what the
\* emulated value of its expression was taken for: a map, which is emulated
\* without keys, fits only as long as it has none (field_descriptor.go:129-183,
\* conversion_cel.go:86-101).
StatusFits ==
    /\ pc = "done" /\ job.kind = "instance" /\ ~HasList(job.status)
    /\ Conforms(MapNode("status" :> job.base), schema)
    /\ \A f \in descriptors :
          f.expressions[1] \in DOMAIN Data(job) =>
              Conforms(Data(job)[f.expressions[1]],
                       InferSchema(job.emulated[f.expressions[1]]))
    => Conforms(resource, schema)

\* fieldpath.Parse comes to an end for every path that the expression parser
\* put together.
PathsEnd == field # NoField ~> PathParsed
=============================================================================
