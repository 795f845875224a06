----------------------------- MODULE MergeBatches -----------------------------
(***************************************************************************)
(* The loop of TrinoService._merge_batches: events are taken in order and  *)
(* gathered into batches that stay within insert_batch_size rows and       *)
(* trino_max_query_bytes of estimated text; each full batch becomes one    *)
(* MERGE statement.  TrinoIngest abstracts from where the loop cuts.       *)
(*                                                                         *)
(* An event is the size of its values (see MergeSizes).                    *)
(***************************************************************************)
EXTENDS MergeSizes, SequencesExt

CONSTANTS
  Table,            \* the layout of the table that is written
  Batches,          \* the event lists the loop may be given
  InsertBatchSize,  \* config.insert_batch_size
  MaxQueryBytes     \* config.trino_max_query_bytes

ASSUME TableAssumption ==
  /\ Table \in [name : Nat, columns : Nat \ {0}, aliases : Nat]
  /\ Batches \subseteq Seq(Nat)
  /\ InsertBatchSize \in Nat \ {0}
  /\ MaxQueryBytes \in Nat \ {0}

VARIABLES
  events,      \* the argument
  next,        \* index of the event the loop looks at
  batch,       \* the values gathered and not sent
  estimated,   \* estimated_size
  statements,  \* the MERGE statements sent: rows and the estimate they were sent with
  ended        \* "no", "returned" or "raised"

merge_vars == <<events, next, batch, estimated, statements, ended>>

MergeInit(list) ==
  /\ events = list
  /\ next = 1
  /\ batch = <<>>
  /\ estimated = FixedBytes(Table)
  /\ statements = <<>>
  /\ ended = "no"

\* (variant) The value group of the event is not counted.
FullIgnoringGroup(v) ==
  batch # <<>> /\ (Len(batch) >= InsertBatchSize \/ estimated + v > MaxQueryBytes)

Full(v) ==
  batch # <<>> /\ (Len(batch) >= InsertBatchSize \/ estimated + EventBytes(Table, v) > MaxQueryBytes)

\* The statement the batch in hand becomes.
Statement == [rows |-> batch, bytes |-> estimated]

RejectEvent ==
  /\ ended = "no"
  /\ next <= Len(events)
  /\ ~ MergeAccepts(Table, events[next], MaxQueryBytes)
  /\ ended' = "raised"
  /\ UNCHANGED <<events, next, batch, estimated, statements>>

AddEvent ==
  /\ ended = "no"
  /\ next <= Len(events)
  /\ MergeAccepts(Table, events[next], MaxQueryBytes)
  /\ ~ Full(events[next])
  /\ batch' = Append(batch, events[next])
  /\ estimated' = estimated + EventBytes(Table, events[next])
  /\ next' = next + 1
  /\ UNCHANGED <<events, statements, ended>>

FlushAndAddEvent ==
  /\ ended = "no"
  /\ next <= Len(events)
  /\ MergeAccepts(Table, events[next], MaxQueryBytes)
  /\ Full(events[next])
  /\ statements' = Append(statements, Statement)
  /\ batch' = <<events[next]>>
  /\ estimated' = FixedBytes(Table) + EventBytes(Table, events[next])
  /\ next' = next + 1
  /\ UNCHANGED <<events, ended>>

\* (variant) The batch in hand is forgotten when the loop ends.
FinishWithoutFlush ==
  /\ ended = "no"
  /\ next > Len(events)
  /\ ended' = "returned"
  /\ UNCHANGED <<events, next, batch, estimated, statements>>

Finish ==
  /\ ended = "no"
  /\ next > Len(events)
  /\ statements' = IF batch = <<>> THEN statements ELSE Append(statements, Statement)
  /\ batch' = <<>>
  /\ ended' = "returned"
  /\ UNCHANGED <<events, next, estimated>>

MergeNext == RejectEvent \/ AddEvent \/ FlushAndAddEvent \/ Finish

-------------------------------------------------------------------------------
(***************************************************************************)
(* Properties.                                                             *)
(***************************************************************************)

\* No MERGE is larger than the configured query size or row limit, and the estimate it
\* was sent with is the size of the rows it carries (trino_max_query_bytes).
StatementsWithinBudget ==
  \A k \in DOMAIN statements :
    /\ statements[k].bytes <= MaxQueryBytes
    /\ Len(statements[k].rows) <= InsertBatchSize
    /\ statements[k].bytes =
         FixedBytes(Table) + SumFunction([i \in DOMAIN statements[k].rows |->
                                            EventBytes(Table, statements[k].rows[i])])

\* The statements carry the events in their order, each once; when the loop returns,
\* all of them, and when it raises, those before the batch in hand.
StatementsCarryEvents ==
  LET carried == FlattenSeq([k \in DOMAIN statements |-> statements[k].rows])
  IN  /\ carried \o batch = SubSeq(events, 1, next - 1)
      /\ ended = "returned" => carried = events

===============================================================================
