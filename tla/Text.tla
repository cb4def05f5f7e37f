-------------------------------- MODULE Text --------------------------------
(***************************************************************************)
(* The functions of Go's packages strings and fmt that the front end of    *)
(* kro uses.  A text is a string, the sequence of its characters; the      *)
(* first one is at position 1.                                             *)
(***************************************************************************)
EXTENDS Integers, Sequences, FiniteSetsExt, TLC

Char(text, i) == SubSeq(text, i, i)
From(text, i) == SubSeq(text, i, Len(text))
Before(text, i) == SubSeq(text, 1, i - 1)

\* The first position, from pos on, of one of the characters; the one behind
\* the end when there is none.
Find(text, pos, chars) ==
    CHOOSE i \in pos..(Len(text) + 1) :
        /\ i > Len(text) \/ Char(text, i) \in chars
        /\ \A j \in pos..(i - 1) : Char(text, j) \notin chars

HasChar(text, char) == Find(text, 1, {char}) <= Len(text)

IsAt(text, i, part) ==
    i + Len(part) <= Len(text) + 1 /\ SubSeq(text, i, i + Len(part) - 1) = part

HasPrefix(text, part) == IsAt(text, 1, part)
HasSuffix(text, part) ==
    Len(part) <= Len(text) /\ IsAt(text, Len(text) - Len(part) + 1, part)

\* strings.Index: 0 when the part does not occur from pos on.
Index(text, pos, part) ==
    LET found == {i \in pos..Len(text) : IsAt(text, i, part)}
    IN  IF found = {} THEN 0 ELSE Min(found)

\* strings.Trim
Trim(text, cutset) ==
    LET kept == {i \in 1..Len(text) : Char(text, i) \notin cutset}
    IN  IF kept = {} THEN "" ELSE SubSeq(text, Min(kept), Max(kept))

TrimSpace(text) == Trim(text, {" "})

\* strings.Replace of every occurrence.
RECURSIVE ReplaceAll(_, _, _)
ReplaceAll(text, old, new) ==
    IF Index(text, 1, old) = 0
      THEN text
      ELSE Before(text, Index(text, 1, old)) \o new
             \o ReplaceAll(From(text, Index(text, 1, old) + Len(old)), old, new)

\* A quote or a backslash gets a backslash in front.
RECURSIVE Escape(_)
Escape(text) ==
    IF text = "" THEN ""
    ELSE (IF Char(text, 1) \in {"\"", "\\"} THEN "\\" ELSE "")
           \o Char(text, 1) \o Escape(From(text, 2))

\* The format %q.
Quote(text) == "\"" \o Escape(text) \o "\""
=============================================================================
