--------------------------- MODULE ValueResolver ---------------------------
(***************************************************************************)
(* The value resolver (internal/runtime/resolver): the reading and the     *)
(* writing of a node at the segments of a path, and the value of a field   *)
(* from the values of its expressions.  A node that is written to is       *)
(* replaced by the node with the value in it: the code changes maps and    *)
(* lists in place, and makes the parent point to a list that it had to     *)
(* copy in order to make it longer.                                        *)
(***************************************************************************)
EXTENDS ExpressionParser

Missing == [kind |-> "missing"]

\* The node that a segment leads to.
Child(node, segment) ==
    CASE segment.index >= 0 /\ node.kind = "list"
         /\ segment.index < Len(node.items) -> node.items[segment.index + 1]
      [] segment.index < 0 /\ node.kind = "map"
         /\ segment.name \in DOMAIN node.fields -> node.fields[segment.name]
      [] OTHER -> Missing

RECURSIVE GetValue(_, _)
GetValue(node, segments) ==
    IF segments = <<>> THEN node
    ELSE GetValue(Child(node, Head(segments)), Tail(segments))

-----------------------------------------------------------------------------
(***************************************************************************)
(* Writing: nodes that are not there, or nil, are made on the way; a node  *)
(* of the wrong kind is an error, before anything was changed.             *)
(***************************************************************************)
Absent == {"nil", "missing"}

RECURSIVE CanSet(_, _)
CanSet(node, segments) ==
    segments # <<>> =>
        /\ node.kind \in Absent
             \cup {IF Head(segments).index >= 0 THEN "list" ELSE "map"}
        /\ CanSet(Child(node, Head(segments)), Tail(segments))

\* Mutant: a list that is too short is replaced by a new one.
NewList(items, length) == [i \in 1..length |-> Nil]

Resized(items, length) ==
    [i \in 1..length |-> IF i <= Len(items) THEN items[i] ELSE Nil]

HandleArraySegment(node, index) ==
    CASE node.kind \in Absent -> Resized(<<>>, index + 1)
      [] node.kind = "list" /\ index >= Len(node.items) ->
           Resized(node.items, index + 1)
      [] OTHER -> node.items

RECURSIVE SetValue(_, _, _)
SetValue(node, segments, value) ==
    CASE segments = <<>> -> value
      [] segments # <<>> /\ Head(segments).index >= 0 ->
           ListNode([HandleArraySegment(node, Head(segments).index)
                       EXCEPT ![Head(segments).index + 1] =
                         SetValue(@, Tail(segments), value)])
      [] OTHER ->
           MapNode(Head(segments).name
                     :> SetValue(Child(node, Head(segments)), Tail(segments), value)
                   @@ IF node.kind = "map" THEN node.fields ELSE <<>>)

-----------------------------------------------------------------------------
(***************************************************************************)
(* The value of a field.                                                   *)
(***************************************************************************)
HasData(field, data) ==
    \A i \in DOMAIN field.expressions :
        Trim(field.expressions[i], Marks) \in DOMAIN data

\* Scalars only: a list or a map in a longer text is not modelled.
Substituted(text, expression, data) ==
    ReplaceAll(text, "${" \o expression \o "}", data[Trim(expression, Marks)].text)

RECURSIVE Replaced(_, _, _)
Replaced(text, expressions, data) ==
    IF expressions = <<>> THEN text
    ELSE Replaced(Substituted(text, Head(expressions), data), Tail(expressions), data)

\* resolveField, when there is data for every expression.
CanResolve(node, field, data) ==
    /\ node.kind # "missing"
    /\ field.standalone \/ node.kind = "string"
    /\ HasData(field, data)

ResolvedValue(node, field, data) ==
    IF field.standalone
      THEN data[Trim(field.expressions[1], Marks)]
      ELSE String(Replaced(node.text, field.expressions, data))
=============================================================================
