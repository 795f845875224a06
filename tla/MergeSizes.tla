------------------------------ MODULE MergeSizes ------------------------------
(***************************************************************************)
(* The byte counts by which trino.py decides whether an event fits into a  *)
(* MERGE statement.  _assert_events_fit counts them before anything is     *)
(* written, _merge_batches counts them again while it fills a batch, each  *)
(* with its own allowance for the text of the statement.                   *)
(*                                                                         *)
(* A layout is the shape of a table: the length of its qualified name, the *)
(* number of its columns, and the length of its column list joined with    *)
(* ", ".  v is the size of an event's values: the sum over its columns of  *)
(* _prepared_value_size + 1.                                               *)
(***************************************************************************)
EXTENDS Integers

Layout ==
  [raw_events        |-> [name |-> 26, columns |-> 13, aliases |-> 188],
   application_logs  |-> [name |-> 32, columns |-> 40, aliases |-> 514],
   quarantine_events |-> [name |-> 33, columns |-> 15, aliases |-> 213]]

\* "(?, ?, ..., ?)": two parentheses, the question marks, and ", " between them.
ValueGroupBytes(layout) == 2 + layout.columns + 2 * (layout.columns - 1)

\* The column list with "source." before each column.
InsertsBytes(layout) == layout.aliases + 7 * layout.columns

FixedBytes(layout) == layout.name + 2 * layout.aliases + InsertsBytes(layout) + 256

EventBytes(layout, v) == ValueGroupBytes(layout) + v

\* The event may be put into a batch of _merge_batches.
MergeAccepts(layout, v, maxQueryBytes) ==
  EventBytes(layout, v) + FixedBytes(layout) <= maxQueryBytes

\* The event passes _assert_events_fit.
AssertAccepts(layout, v, maxQueryBytes) ==
  (3 * layout.columns + 2 + v) + (layout.name + 2 * layout.aliases + 512) <= maxQueryBytes
===============================================================================
