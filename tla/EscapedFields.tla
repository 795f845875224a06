--------------------------- MODULE EscapedFields ---------------------------
(***************************************************************************)
(* split_escaped and unescape_cef (src/ulpf/parsing/base.py), with which    *)
(* the CEF and LEEF parsers take their headers apart: fields with a bar     *)
(* between them, in which a backslash escapes bars and backslashes.         *)
(* A CEF header is split a fixed number of times: what comes then is the    *)
(* extension, which has rules of its own.                                   *)
(***************************************************************************)
EXTENDS Integers, Sequences, SequencesExt

CONSTANTS
  Characters,   \* the alphabet of the texts
  Headers       \* the inputs: sequences of fields

ASSUME HeadersAssumption ==
  /\ {"|", "\\", "n", "nl"} \subseteq Characters
  /\ Headers \subseteq Seq(Seq(Characters))

VARIABLES
  fields,     \* the fields that the sender wrote
  maxsplit,   \* the number of splits, or -1
  position,   \* the character the loop looks at
  parts,      \* the parts that are complete
  current,    \* the part that is not
  escaped,    \* the last character was a backslash that escapes
  splits,     \* the splits so far
  returned

field_vars == <<fields, maxsplit, position, parts, current, escaped, splits, returned>>

HeaderInit(written, limit) ==
  /\ fields = written /\ maxsplit = limit
  /\ position = 1 /\ parts = <<>> /\ current = <<>> /\ escaped = FALSE /\ splits = 0
  /\ returned = FALSE

----------------------------------------------------------------------------
\* The sender: it escapes bars, backslashes and ends of lines, but not the extension.
Escape(field) ==
  FlattenSeq([i \in DOMAIN field |->
    IF field[i] = "nl" THEN <<"\\", "n">>
    ELSE IF field[i] \in {"|", "\\"} THEN <<"\\", field[i]>> ELSE <<field[i]>>])
Text ==
  FlattenSeq([i \in DOMAIN fields |->
    (IF i = Len(fields) /\ maxsplit >= 0 THEN fields[i] ELSE Escape(fields[i]))
      \o (IF i = Len(fields) THEN <<>> ELSE <<"|">>)])

----------------------------------------------------------------------------
Char == Text[position]

\* (variant) a backslash that is escaped escapes the next character
EscapesAlways(char) == char = "\\"
Escapes(char) == char = "\\" /\ ~ escaped

Separates == Char = "|" /\ ~ escaped /\ (maxsplit < 0 \/ splits < maxsplit)

Separate ==
  /\ ~ returned /\ position <= Len(Text) /\ Separates
  /\ parts' = Append(parts, current) /\ current' = <<>> /\ splits' = splits + 1
  /\ position' = position + 1
  /\ UNCHANGED <<fields, maxsplit, escaped, returned>>

Take ==
  /\ ~ returned /\ position <= Len(Text) /\ ~ Separates
  /\ current' = Append(current, Char)
  /\ escaped' = Escapes(Char)
  /\ position' = position + 1
  /\ UNCHANGED <<fields, maxsplit, parts, splits, returned>>

ReturnParts ==
  /\ ~ returned /\ position > Len(Text)
  /\ parts' = Append(parts, current)
  /\ returned' = TRUE
  /\ UNCHANGED <<fields, maxsplit, position, current, escaped, splits>>

HeaderNext == Separate \/ Take \/ ReturnParts

\* unescape_cef: a backslash at the end stands for itself.
Replacements(char) == IF char = "n" THEN "nl" ELSE char
Unescape(value) ==
  LET from[i \in 1..(Len(value) + 1)] ==
        IF i > Len(value) THEN <<>>
        ELSE IF value[i] = "\\" /\ i < Len(value)
        THEN <<Replacements(value[i + 1])>> \o from[i + 2]
        ELSE <<value[i]>> \o from[i + 1]
  IN from[1]

\* Every field arrives as it was sent, whatever bars, backslashes and ends of lines it
\* has, and the extension arrives untouched.
FieldsSurviveEscaping ==
  returned =>
    /\ Len(parts) = Len(fields)
    /\ \A i \in DOMAIN fields :
         IF i = Len(fields) /\ maxsplit >= 0 THEN parts[i] = fields[i]
         ELSE Unescape(parts[i]) = fields[i]
=============================================================================
