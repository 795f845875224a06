------------------------------ MODULE ScrubSql ------------------------------
(***************************************************************************)
(* scrub_sql (src/ulpf/services/sql_guard.py), the scan that leaves of a    *)
(* statement its syntax, without quoted values and comments, and what       *)
(* TrinoService.query makes of the result.                                  *)
(*                                                                         *)
(* A statement is a sequence of characters, one of which stands for a word: *)
(* "S" for one that begins a read, "D" for one that changes data, "x" for   *)
(* any other; words that are not separated are one word.                    *)
(***************************************************************************)
EXTENDS Integers, Sequences, FiniteSets, SequencesExt

CONSTANT SqlTexts   \* the inputs

Quotes == {"'", "\""}
WordChars == {"S", "D", "x"}
Spaces == {" ", "nl"}
SqlChars == Quotes \cup WordChars \cup Spaces \cup {"-", "/", "*", ";"}

ASSUME SqlTextsAssumption == SqlTexts \subseteq Seq(SqlChars)

VARIABLES
  statement,   \* the input
  index,       \* the character the scan looks at
  quote,       \* the quote that opened the literal around it, or "none"
  depth,       \* how many comments are open around it
  output,      \* what is kept so far
  verdict      \* "scanning", "unterminated", "scrubbed", or what query decided

sql_vars == <<statement, index, quote, depth, output, verdict>>

SqlInit(s) ==
  /\ statement = s /\ index = 1 /\ quote = "none" /\ depth = 0
  /\ output = <<>> /\ verdict = "scanning"

CharAt(i) == IF i \in DOMAIN statement THEN statement[i] ELSE "end"
Found(first, second) == CharAt(index) = first /\ CharAt(index + 1) = second

Scanning == verdict = "scanning" /\ index <= Len(statement)
InSyntax == Scanning /\ quote = "none" /\ depth = 0
Advance(n) == index' = index + n
Keep(char) == output' = Append(output, char)

OpenQuote ==
  /\ InSyntax /\ CharAt(index) \in Quotes
  /\ quote' = CharAt(index) /\ Advance(1)
  /\ UNCHANGED <<statement, depth, output, verdict>>

\* A quote that is written twice belongs to the value.
\* (variant) a literal ends at the first quote
NeverDoubled == FALSE
Doubled == Found(quote, quote)

Quoted ==
  /\ Scanning /\ quote # "none"
  /\ IF CharAt(index) = quote /\ ~ Doubled
     THEN quote' = "none" /\ Advance(1) /\ Keep(" ")
     ELSE Advance(IF Doubled THEN 2 ELSE 1) /\ UNCHANGED <<quote, output>>
  /\ UNCHANGED <<statement, depth, verdict>>

\* To the end of the line, or of the statement.
LineComment ==
  /\ InSyntax /\ Found("-", "-")
  /\ LET ends == {i \in DOMAIN statement : i >= index /\ statement[i] = "nl"} \cup {Len(statement)}
     IN index' = (CHOOSE i \in ends : \A j \in ends : i <= j) + 1
  /\ Keep(" ")
  /\ UNCHANGED <<statement, quote, depth, verdict>>

OpenComment ==
  /\ InSyntax /\ Found("/", "*")
  /\ depth' = 1 /\ Advance(2)
  /\ UNCHANGED <<statement, quote, output, verdict>>

\* Comments nest, here and in the reference (in Trino's own lexer they do not).
Commented ==
  /\ Scanning /\ depth > 0
  /\ IF Found("/", "*") THEN depth' = depth + 1 /\ Advance(2)
     ELSE IF Found("*", "/") THEN depth' = depth - 1 /\ Advance(2)
     ELSE UNCHANGED depth /\ Advance(1)
  /\ IF depth' = 0 THEN Keep(" ") ELSE UNCHANGED output
  /\ UNCHANGED <<statement, quote, verdict>>

Copy ==
  /\ InSyntax /\ CharAt(index) \notin Quotes
  /\ ~ Found("-", "-") /\ ~ Found("/", "*")
  /\ Keep(CharAt(index)) /\ Advance(1)
  /\ UNCHANGED <<statement, quote, depth, verdict>>

EndScan ==
  /\ verdict = "scanning" /\ index > Len(statement)
  /\ verdict' = IF quote # "none" \/ depth > 0 THEN "unterminated" ELSE "scrubbed"
  /\ UNCHANGED <<statement, index, quote, depth, output>>

----------------------------------------------------------------------------
\* query

\* strip and rstrip
Strip(s, chars) ==
  LET kept == {i \in DOMAIN s : s[i] \notin chars}
  IN IF kept = {} THEN <<>>
     ELSE SubSeq(s, CHOOSE i \in kept : \A j \in kept : i <= j,
                    CHOOSE i \in kept : \A j \in kept : j <= i)
RStrip(s, chars) ==
  LET kept == {i \in DOMAIN s : s[i] \notin chars}
  IN SubSeq(s, 1, IF kept = {} THEN 0 ELSE CHOOSE i \in kept : \A j \in kept : j <= i)

\* BLOCKED_MULTI_STATEMENT: more text behind a semicolon.
\* (variant) without the white space between the two
SeveralAdjacent(s) == \E i \in 1..(Len(s) - 1) : s[i] = ";" /\ s[i + 1] \notin Spaces
Several(s) == \E i, j \in DOMAIN s : i < j /\ s[i] = ";" /\ s[j] \notin Spaces

\* The first word, up to white space, is one that begins a read.
BeginsRead(s) == s[1] = "S" /\ (Len(s) > 1 => s[2] \in Spaces)

\* MUTATING_KEYWORDS: the word stands alone.
Mutates(s) ==
  \E i \in DOMAIN s :
    /\ s[i] = "D"
    /\ i > 1 => s[i - 1] \notin WordChars
    /\ i < Len(s) => s[i + 1] \notin WordChars

Decision(s, may_write) ==
  IF Strip(Strip(s, {";"}), Spaces) = <<>> THEN "empty"
  ELSE IF Several(RStrip(s, {";"})) THEN "several"
  ELSE IF may_write THEN "run" ELSE IF BeginsRead(s) /\ ~ Mutates(s) THEN "read" ELSE "refused"

\* may_write: allow_mutating_sql, or a caller that does not ask for a read.
Query ==
  /\ verdict = "scrubbed"
  /\ \E may_write \in BOOLEAN : verdict' = Decision(Strip(output, Spaces), may_write)
  /\ UNCHANGED <<statement, index, quote, depth, output>>

SqlNext ==
  \/ OpenQuote \/ Quoted \/ LineComment \/ OpenComment \/ Commented \/ Copy \/ EndScan \/ Query

----------------------------------------------------------------------------
(***************************************************************************)
(* Reference: the literals and comments of a statement, as intervals.       *)
(***************************************************************************)

\* The last position of a set, or of none.
LeastOr(S, default) == IF S = {} THEN default ELSE CHOOSE i \in S : \A j \in S : i <= j

\* A literal that begins at i ends with the first row of its quotes that is of odd length.
LiteralEnd(i) ==
  LET q == statement[i]
      row(a, b) == /\ \A k \in a..b : statement[k] = q
                   /\ a > i + 1 => statement[a - 1] # q
                   /\ b < Len(statement) => statement[b + 1] # q
  IN LeastOr({b \in (i + 1)..Len(statement) :
                \E a \in (i + 1)..b : row(a, b) /\ (b - a) % 2 = 0}, 0)

\* The marks in the comment that begins at i: every other pair of a row in which / and *
\* alternate.  The comment ends where as many are closed as opened.
Marks(i) ==
  LET pair(k) == {CharAt(k), CharAt(k + 1)} = {"/", "*"}
  IN {p \in (i + 2)..(Len(statement) - 1) :
        \E a \in (i + 2)..p : /\ (p - a) % 2 = 0
                              /\ \A k \in a..p : pair(k)
                              /\ a > i + 2 => ~ pair(a - 1)}
CommentEnd(i) ==
  LET marks == Marks(i)
      opened(p) == {m \in marks : m <= p /\ statement[m] = "/"}
      closed(p) == {m \in marks : m <= p /\ statement[m] = "*"}
  IN LeastOr({p + 1 : p \in {m \in marks : Cardinality(closed(m)) > Cardinality(opened(m))}}, 0)

LineEnd(i) == LeastOr({k \in i..Len(statement) : statement[k] = "nl"}, Len(statement))

\* What is left from i on; "open" when a literal or a comment does not end.
SyntaxFrom[i \in 1..(Len(statement) + 1)] ==
  LET after(end) == IF end = 0 THEN <<"open">> ELSE <<" ">> \o SyntaxFrom[end + 1]
  IN IF i > Len(statement) THEN <<>>
     ELSE IF statement[i] \in Quotes THEN after(LiteralEnd(i))
     ELSE IF CharAt(i) = "-" /\ CharAt(i + 1) = "-" THEN after(LineEnd(i))
     ELSE IF CharAt(i) = "/" /\ CharAt(i + 1) = "*" THEN after(CommentEnd(i))
     ELSE <<statement[i]>> \o SyntaxFrom[i + 1]
Syntax == SyntaxFrom[1]
Unterminated == \E i \in DOMAIN Syntax : Syntax[i] = "open"

\* The scan keeps the syntax of the statement, quoted values and comments as one blank
\* each, whatever they contain, and fails exactly when one of them does not end.
ScrubbedIsSyntax ==
  /\ verdict = "unterminated" => Unterminated
  /\ verdict \notin {"scanning", "unterminated"} => ~ Unterminated /\ output = Syntax

\* "Run one SQL statement at a time": what is run has one statement, between semicolons
\* outside of quotes and comments, that is not empty; without the permission to write it
\* begins a read and no word of it changes data.
StatementStarts ==
  {i \in DOMAIN Syntax :
     /\ Syntax[i] \notin Spaces \cup {";"}
     /\ LET before == {j \in 1..(i - 1) : Syntax[j] \notin Spaces}
        IN before # {} => Syntax[CHOOSE j \in before : \A k \in before : k <= j] = ";"}
OneStatementIsRun ==
  /\ verdict \in {"run", "read"} => Cardinality(StatementStarts) = 1
  /\ verdict = "read" =>
       /\ \A i \in StatementStarts : Syntax[i] = "S"
       /\ \A i \in DOMAIN Syntax :
            Syntax[i] = "D" =>
              \E j \in {i - 1, i + 1} \cap DOMAIN Syntax : Syntax[j] \in WordChars
=============================================================================
