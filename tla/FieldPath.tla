----------------------------- MODULE FieldPath -----------------------------
(***************************************************************************)
(* Paths to the fields of a resource (internal/graph/fieldpath, and        *)
(* joinPathAndFieldName of the expression parser).  A path is a text that  *)
(* the expression parser puts together and that the resolver and the       *)
(* schema of the status take apart again.                                  *)
(*                                                                         *)
(* Parse is a loop over the text.  One iteration is an operator here, and  *)
(* the module that needs the segments takes the iterations one by one.     *)
(***************************************************************************)
EXTENDS Text

\* Segments: a name has the index -1.
Named(name) == [name |-> name, index |-> -1]
Indexed(i) == [name |-> "", index |-> i]

-----------------------------------------------------------------------------
(***************************************************************************)
(* Writing paths.                                                          *)
(***************************************************************************)

JoinPathAndFieldName(path, name) ==
    CASE name = "" \/ HasChar(name, ".") -> path \o "[" \o Quote(name) \o "]"
      [] name # "" /\ ~HasChar(name, ".") /\ path = "" -> name
      [] OTHER -> path \o "." \o name

ItemPath(path, i) == path \o "[" \o ToString(i) \o "]"

-----------------------------------------------------------------------------
(***************************************************************************)
(* Reading paths.  The state of the parser is the position of the next     *)
(* character, the segments so far, and whether it failed.                  *)
(***************************************************************************)
StartParser == [pos |-> 1, segments |-> <<>>, failed |-> FALSE]

Failed(p) == [p EXCEPT !.failed = TRUE]
Segment(p, segment, pos) ==
    [p EXCEPT !.segments = Append(@, segment), !.pos = pos]

ParseQuotedField(path, p) ==
    LET quote == Find(path, p.pos + 2, {"\""})
    IN  IF IsAt(path, quote + 1, "]")
          THEN Segment(p, Named(SubSeq(path, p.pos + 2, quote - 1)), quote + 2)
          ELSE Failed(p)

ParseUnquotedField(path, p) ==
    LET end == Find(path, p.pos, {".", "["})
    IN  IF end = p.pos THEN Failed(p)
        ELSE Segment(p, Named(SubSeq(path, p.pos, end - 1)), end)

\* Indices are of one digit here.
ParseArrayIndex(path, p) ==
    LET end == Find(path, p.pos + 1, {"]"})
        digits == {i \in 0..9 : SubSeq(path, p.pos + 1, end - 1) = ToString(i)}
    IN  IF end > Len(path) \/ digits = {} THEN Failed(p)
        ELSE Segment(p, Indexed(Min(digits)), end + 1)

\* The three parts of an iteration: a name, an index, a dot.  The last
\* character of a path does not start a name.
ParseName(path, p) ==
    CASE p.pos < Len(path) /\ IsAt(path, p.pos, "[\"") -> ParseQuotedField(path, p)
      [] p.pos < Len(path) /\ ~IsAt(path, p.pos, "[") -> ParseUnquotedField(path, p)
      [] OTHER -> p

\* Mutant: an index is only taken behind a name.
ParseIndexOfName(path, p) ==
    IF /\ ~p.failed /\ IsAt(path, p.pos, "[") /\ ~IsAt(path, p.pos, "[\"")
       /\ p.segments # <<>> /\ p.segments[Len(p.segments)].index < 0
      THEN ParseArrayIndex(path, p)
      ELSE p

ParseIndex(path, p) ==
    IF ~p.failed /\ IsAt(path, p.pos, "[") /\ ~IsAt(path, p.pos, "[\"")
      THEN ParseArrayIndex(path, p)
      ELSE p

SkipDot(path, p) ==
    IF ~p.failed /\ IsAt(path, p.pos, ".") THEN [p EXCEPT !.pos = @ + 1] ELSE p

Iterate(path, p) == SkipDot(path, ParseIndex(path, ParseName(path, p)))

Parsed(path, p) == p.failed \/ p.pos > Len(path)
=============================================================================
