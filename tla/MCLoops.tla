------------------------------- MODULE MCLoops -------------------------------
(***************************************************************************)
(* The loops over one text or one list, for TLC, each on inputs of its own: *)
(* scrub_sql with query, the header splitter, and _merge_batches.           *)
(***************************************************************************)
EXTENDS ScrubSql, EscapedFields, MergeBatches

VARIABLE task   \* the loop that runs

UpTo(n, S) == UNION {[1..k -> S] : k \in 0..n}

\* Every mixture of quotes and comments, comments in comments, and several statements.
MCStatements ==
  UpTo(5, {"'", "\"", "-", "/", "*", "nl", "x"}) \cup UpTo(8, {"/", "*", "x"})
    \cup UpTo(6, {";", " ", "S", "D", "'"})

FieldChars == {"|", "\\", "n", "nl"}
MCHeaders ==
  {<<a, b, c>> : a \in UpTo(2, FieldChars), b \in UpTo(3, FieldChars), c \in UpTo(1, FieldChars)}

\* quarantine_events with a small query limit.  A statement for one event takes 1078 bytes
\* beside its values, so 1922 is the largest event the limit of 3000 lets through and 850
\* puts two events, never three, into one statement; 150 fits beside two of them only if
\* its value group is not counted.
MCTable == Layout["quarantine_events"]
MCBatches == UpTo(5, {150, 850, 1922, 1923})

\* The loops that do not run hold an empty input.
Init ==
  \/ task = "scrub" /\ (\E s \in SqlTexts : SqlInit(s)) /\ HeaderInit(<<>>, 0) /\ MergeInit(<<>>)
  \/ /\ task = "split" /\ SqlInit(<<>>) /\ MergeInit(<<>>)
     /\ \E h \in Headers, limit \in {-1, 2} : HeaderInit(h, limit)
  \/ task = "merge" /\ SqlInit(<<>>) /\ HeaderInit(<<>>, 0) /\ \E b \in Batches : MergeInit(b)

Next ==
  /\ \/ task = "scrub" /\ SqlNext /\ UNCHANGED <<field_vars, merge_vars>>
     \/ task = "split" /\ HeaderNext /\ UNCHANGED <<sql_vars, merge_vars>>
     \/ task = "merge" /\ MergeNext /\ UNCHANGED <<sql_vars, field_vars>>
  /\ UNCHANGED task

Spec == Init /\ [][Next]_<<sql_vars, field_vars, merge_vars, task>>
==============================================================================
