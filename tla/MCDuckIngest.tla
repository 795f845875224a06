----------------------------- MODULE MCDuckIngest -----------------------------
(***************************************************************************)
(* Instances of DuckIngest for TLC.                                        *)
(***************************************************************************)
EXTENDS DuckIngest

CONSTANTS
  s1, s2,   \* sessions
  a, b, c,  \* event identifiers
  blank     \* an event_id of white space

good(id) == [id |-> id, ok |-> TRUE]
bad(id) == [id |-> id, ok |-> FALSE]

TwoSessions == {s1, s2}

\* c is one event that two parsers judge differently.
MCEvents == {good(a), bad(b), good(c), bad(c), good(blank)}

\* Overlapping batches, one with a repeated identifier.
MCInputs == {<<good(a), bad(b), good(a)>>, <<bad(c), good(a), good(c)>>, <<bad(c), bad(b)>>}
===============================================================================
