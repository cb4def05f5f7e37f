---------------------------- MODULE SimpleSchema ----------------------------
(***************************************************************************)
(* The format in which a ResourceGroup declares the spec of its instances  *)
(* (pkg/simpleschema): a map from field names to texts of the form         *)
(* "type | marker=value ...", or to maps of that kind, which becomes an    *)
(* OpenAPI schema.  Custom types are never loaded and are left out.        *)
(***************************************************************************)
EXTENDS ExpressionParser

AtomicTypes == {"boolean", "integer", "float", "string"}
MarkerTypes == {"required", "default", "description"}

Invalid == [type |-> "invalid"]

-----------------------------------------------------------------------------
(***************************************************************************)
(* Types (atomic.go, and handleMapType and handleSliceType).               *)
(***************************************************************************)

\* The first position at which the brackets opened before text are closed.
RECURSIVE FindMatchingBracket(_, _, _)
FindMatchingBracket(text, i, depth) ==
    CASE i > Len(text) -> i
      [] IsAt(text, i, "[") -> FindMatchingBracket(text, i + 1, depth + 1)
      [] IsAt(text, i, "]") /\ depth = 1 -> i
      [] IsAt(text, i, "]") /\ depth # 1 -> FindMatchingBracket(text, i + 1, depth - 1)
      [] OTHER -> FindMatchingBracket(text, i + 1, depth)

\* The value type of a map with string keys; "" when there is none.
ParseMapType(type) ==
    LET end == FindMatchingBracket(type, 5, 1)
        valueType == From(type, end + 1)
    IN  IF HasPrefix(type, "map[") /\ SubSeq(type, 5, end - 1) = "string"
             /\ end <= Len(type)
          THEN IF HasSuffix(valueType, "]") THEN Before(valueType, Len(valueType))
                                            ELSE valueType
          ELSE ""

RECURSIVE TypeSchema(_)
TypeSchema(type) ==
    CASE type \in AtomicTypes -> [type |-> type]
      [] HasPrefix(type, "map") ->
           IF TypeSchema(ParseMapType(type)) = Invalid THEN Invalid
           ELSE [type |-> "object", additional |-> TypeSchema(ParseMapType(type))]
      [] HasPrefix(type, "[]") ->
           IF TypeSchema(From(type, 3)) = Invalid THEN Invalid
           ELSE [type |-> "array", items |-> TypeSchema(From(type, 3))]
      [] OTHER -> Invalid

-----------------------------------------------------------------------------
(***************************************************************************)
(* Markers (markers.go).  The scanner takes one character after the other; *)
(* current is the key of the marker whose value it reads, or "".           *)
(***************************************************************************)
RECURSIVE Unescape(_, _)
Unescape(text, escaped) ==
    CASE text = "" -> ""
      [] text # "" /\ escaped ->
           (IF Char(text, 1) \in {"\"", "\\"} THEN "" ELSE "\\")
             \o Char(text, 1) \o Unescape(From(text, 2), FALSE)
      [] text # "" /\ ~escaped /\ IsAt(text, 1, "\\") ->
           Unescape(From(text, 2), TRUE)
      [] OTHER -> Char(text, 1) \o Unescape(From(text, 2), FALSE)

\* A value that is one quote only makes the code panic; it is not modelled.
ProcessValue(value) ==
    IF HasPrefix(value, "\"") /\ HasSuffix(value, "\"")
      THEN Unescape(SubSeq(value, 2, Len(value) - 1), FALSE)
      ELSE TrimSpace(value)

StartScanner == [current |-> "", inQuotes |-> FALSE, bracketCount |-> 0,
                 buffer |-> "", escaped |-> FALSE, result |-> <<>>,
                 failed |-> FALSE]

Complete(s) ==
    IF s.current = "" THEN s
    ELSE [s EXCEPT !.result = Append(@, [key |-> s.current,
                                         value |-> ProcessValue(s.buffer)]),
                   !.current = "", !.buffer = ""]


TogglesQuotes(s, char) == char = "\"" /\ ~s.escaped

ScanChar(s, char) ==
    LET written == [s EXCEPT !.buffer = @ \o char]
    IN  CASE char = "=" /\ s.current = "" /\ ~s.inQuotes /\ s.bracketCount = 0 ->
               [s EXCEPT !.current = TrimSpace(s.buffer), !.buffer = "",
                         !.failed = TrimSpace(s.buffer) \notin MarkerTypes]
          [] TogglesQuotes(s, char) -> [written EXCEPT !.inQuotes = ~@]
          [] char = "\\" /\ s.inQuotes /\ ~s.escaped ->
               [written EXCEPT !.escaped = TRUE]
          [] char \in {"{", "["} /\ ~s.inQuotes ->
               [written EXCEPT !.bracketCount = @ + 1]
          [] char \in {"}", "]"} /\ ~s.inQuotes ->
               [written EXCEPT !.bracketCount = @ - 1, !.failed = s.bracketCount = 0]
          [] char = " " /\ ~s.inQuotes /\ s.bracketCount = 0 -> Complete(s)
          [] OTHER -> [written EXCEPT !.escaped = @ /\ ~s.inQuotes]

RECURSIVE Scan(_, _)
Scan(text, s) ==
    IF s.failed \/ text = "" THEN s ELSE Scan(From(text, 2), ScanChar(s, Char(text, 1)))

ParseMarkers(text) == Scan(text, StartScanner)
MarkersAccepted(s) == ~s.failed /\ ~s.inQuotes /\ s.bracketCount = 0
Markers(s) == Complete(s).result

-----------------------------------------------------------------------------
(***************************************************************************)
(* Fields (field.go and transform.go).                                     *)
(***************************************************************************)
TypePart(text) == TrimSpace(Before(text, Find(text, 1, {"|"})))
MarkerPart(text) == TrimSpace(From(text, Find(text, 1, {"|"}) + 1))

FieldAccepted(text) ==
    /\ ~HasChar(MarkerPart(text), "|")
    /\ TypeSchema(TypePart(text)) # Invalid
    /\ MarkersAccepted(ParseMarkers(MarkerPart(text)))

\* The markers change the schema of the field one after the other; the raw
\* JSON of a default is its text, in quotes for a string.
RECURSIVE ApplyMarkers(_, _)
ApplyMarkers(schema, markers) ==
    IF markers = <<>> THEN schema
    ELSE LET marker == Head(markers)
         IN  ApplyMarkers(
               CASE marker.key = "default" ->
                      ("default" :> IF schema.type = "string"
                                      THEN "\"" \o marker.value \o "\""
                                      ELSE marker.value) @@ schema
                 [] marker.key = "description" ->
                      ("description" :> marker.value) @@ schema
                 [] OTHER -> schema,
               Tail(markers))

FieldMarkers(text) == Markers(ParseMarkers(MarkerPart(text)))
FieldSchema(text) == ApplyMarkers(TypeSchema(TypePart(text)), FieldMarkers(text))
FieldRequired(text) == \E i \in DOMAIN FieldMarkers(text) :
                          FieldMarkers(text)[i].key = "required"

RECURSIVE SpecAccepted(_)
SpecAccepted(node) ==
    CASE node.kind = "map" ->
           \A name \in DOMAIN node.fields : SpecAccepted(node.fields[name])
      [] node.kind = "string" -> FieldAccepted(node.text)
      [] OTHER -> FALSE

\* Only the fields that are texts can have markers.
RequiredFields(fields) ==
    {name \in DOMAIN fields : /\ fields[name].kind = "string"
                              /\ FieldRequired(fields[name].text)}

RECURSIVE BuildOpenAPISchema(_)
BuildOpenAPISchema(node) ==
    IF node.kind = "string" THEN FieldSchema(node.text)
    ELSE [type |-> "object",
          properties |-> [name \in DOMAIN node.fields |->
                            BuildOpenAPISchema(node.fields[name])],
          required |-> RequiredFields(node.fields)]
=============================================================================
