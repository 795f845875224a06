----------------------------- MODULE MCTrinoIngest -----------------------------
(***************************************************************************)
(* Instances of TrinoIngest for TLC: writers and event identifiers are     *)
(* model values, the batches and the outcomes of the size checks are       *)
(* defined here.                                                           *)
(***************************************************************************)
EXTENDS TrinoIngest, MergeSizes, TLC

CONSTANTS
  w1, w2,      \* writers
  a, b, c, d,  \* event identifiers
  blank        \* an event_id of white space

good(id) == [id |-> id, ok |-> TRUE]
bad(id) == [id |-> id, ok |-> FALSE]

\* c is one event that two parsers judge differently; c and d are large.
MCEvents == {good(a), bad(b), good(c), bad(c), good(d), good(blank)}

TwoWriters == {w1, w2}
OneWriter == {w1}
WriterSymmetry == Permutations(TwoWriters)

\* Every event is small enough for every statement.
AllFit == [t \in Tables |-> MCEvents]

\* Overlapping batches, so that two writers race for the same rows; one repeats an
\* identifier, one holds an event whose verdict differs from its twin's.
RaceInputs == {<<good(a), bad(b), good(a)>>, <<good(a), good(c)>>, <<bad(c), good(a)>>}

\* The sizes: with ULPF_TRINO_MAX_QUERY_BYTES = 10000 the values of a row take up to 8000
\* bytes without any refusal.  A normalized row carries the OCSF document as well: that of
\* d (9000 bytes) is refused by the pre-check; that of c (8200) is counted as 9894 bytes by
\* the pre-check and as 10430 by its MERGE.
MaxQueryBytes == 10000
ValueBytes(t, e) ==
  IF e.id \notin {c, d} THEN 500
  ELSE IF t = "raw_events" THEN 7900
  ELSE IF e.id = c THEN 8200 ELSE 9000

SizeAsserted ==
  [t \in Tables |-> {e \in MCEvents : AssertAccepts(Layout[t], ValueBytes(t, e), MaxQueryBytes)}]
SizeMerged ==
  [t \in Tables |-> {e \in MCEvents : MergeAccepts(Layout[t], ValueBytes(t, e), MaxQueryBytes)}]

GapInputs == {<<good(a), bad(b)>>, <<good(a), good(c)>>}
RetryInputs == {<<>>, <<good(blank)>>, <<good(a), bad(b)>>, <<good(c)>>, <<good(d), bad(b)>>}
===============================================================================
