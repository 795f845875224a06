------------------------------ MODULE TrinoIngest ------------------------------
(***************************************************************************)
(* TrinoService.ingest_events (src/ulpf/services/trino.py): concurrent     *)
(* writers - the Kafka worker, the Streamlit sessions - each turn a batch  *)
(* of normalized events into a run row, one MERGE per batch of rows into   *)
(* raw_events, application_logs and quarantine_events, three reads, and    *)
(* the final update of the run row.                                        *)
(*                                                                         *)
(* A statement is planned on the table snapshot it reads and commits       *)
(* later: two writers race, the loser is told of an Iceberg commit         *)
(* conflict and re-executes.  A statement whose answer is lost (the 3 s    *)
(* request timeout, a dropped connection, the death of the writer) may     *)
(* still commit at any later moment.                                       *)
(*                                                                         *)
(* The payload of an event is abstracted to its identity, its parse        *)
(* verdict and the two size checks (Fits, Mergeable; module MergeSizes     *)
(* computes those with the code's own byte counts).                        *)
(***************************************************************************)
EXTENDS Integers, FiniteSets, Sequences

CONSTANTS
  Writers,          \* threads and processes that call ingest_events
  Events,           \* normalized events, records [id, ok]: event_id, parse_success
  Inputs,           \* the batches handed to ingest_events: sequences of events
  BlankId,          \* an event_id that is empty or only white space
  Fits,             \* Fits[t]: events that pass _assert_events_fit for table t
  Mergeable,        \* Mergeable[t]: events that _merge_batches of t accepts
  InsertBatchSize,  \* config.insert_batch_size
  CommitRetries,    \* config.iceberg_commit_retries
  MaxRuns,          \* bound: how many runs are started
  MaxFaults         \* bound: how many statements are lost or writers crash

Tables == {"raw_events", "application_logs", "quarantine_events"}
EventIds == {e.id : e \in Events}
Runs == 1..MaxRuns

ASSUME WritersAssumption == IsFiniteSet(Writers)
ASSUME EventsAssumption ==
  /\ IsFiniteSet(Events)
  /\ \A e \in Events : e = [id |-> e.id, ok |-> e.ok] /\ e.ok \in BOOLEAN
ASSUME InputsAssumption == Inputs \subseteq Seq(Events)
ASSUME SizesAssumption ==
  /\ Fits \in [Tables -> SUBSET Events]
  /\ Mergeable \in [Tables -> SUBSET Events]
  /\ \A t \in Tables : Mergeable[t] \subseteq Fits[t]
ASSUME ConfigAssumption ==
  /\ InsertBatchSize \in Nat \ {0}
  /\ CommitRetries \in Nat
  /\ MaxRuns \in Nat
  /\ MaxFaults \in Nat

Completed == {"COMPLETED", "COMPLETED_WITH_QUARANTINE"}
Queued == -1    \* base snapshot of a statement that Trino has not planned yet

\* A row of ingestion_runs; the row of a run that has none is NoRow.
NoRow == [status |-> "NONE", received |-> 0, committed |-> 0,
          quarantined |-> 0, duplicates |-> 0, snapshot |-> 0]

NoPlan == [base |-> Queued, rows |-> {}]
NoTally == [committed |-> 0, quarantined |-> 0, snapshot |-> 0]

VARIABLES
  table,          \* table[t]: rows [id, run, ok, snap], snap the commit that added it
  version,        \* version[t]: snapshots committed on t
  runs,           \* ingestion_runs: run -> row
  lostMerges,     \* MERGE statements whose client has given up on them
  lostRunWrites,  \* writes of ingestion_runs whose client has given up on them
  pc,             \* where each writer stands in ingest_events
  run,            \* run_id of the writer's call
  todo,           \* items of the current table not sent yet
  sent,           \* the batch of the MERGE under way, {} when there is none
  plan,           \* the snapshot that MERGE read and the rows it found missing
  attempt,        \* attempt of _execute_write_on_connection
  tally,          \* counts and snapshot id read back at the end
  result,         \* what the last call of the writer came back with
  nextRun,        \* the next fresh run_id
  batchOf,        \* history: the batch each run was given
  returned,       \* history: the IngestionResults handed to callers
  oversized,      \* history: runs that raised "event is too large"
  faults          \* faults so far, for the bound MaxFaults

server == <<table, version, runs, lostMerges, lostRunWrites>>
client == <<pc, run, todo, sent, plan, attempt, tally, result>>
history == <<nextRun, batchOf, returned, oversized>>
vars == <<server, client, history, faults>>

-------------------------------------------------------------------------------
(***************************************************************************)
(* The batch of a run.                                                     *)
(***************************************************************************)

\* {event.event_id: event for event in received}.values(): the last one wins.
Items(input) ==
  {input[i] : i \in {k \in DOMAIN input :
                       \A j \in DOMAIN input : j > k => input[j].id # input[k].id}}

\* (variant) The repetitions inside the batch are forgotten.
RepetitionsForgotten(input) == 0

InputDuplicates(input) == Len(input) - Cardinality(Items(input))

\* The items that ingest_events writes to table t: all, the valid, the invalid ones.
Destined(t, items) ==
  {e \in items : \/ t = "raw_events"
                 \/ t = "application_logs" /\ e.ok
                 \/ t = "quarantine_events" /\ ~ e.ok}

\* The step that follows the last batch of a table.
After(t) ==
  IF t = "raw_events" THEN "application_logs"
  ELSE IF t = "application_logs" THEN "quarantine_events"
  ELSE "count_committed"

-------------------------------------------------------------------------------
(***************************************************************************)
(* Trino and Iceberg, as trino.py uses them.                               *)
(***************************************************************************)

\* (variant) A plain INSERT.
EveryRow(t, S) == S

\* WHEN NOT MATCHED: the events of S whose id no row of t carries.
Unmatched(t, S) == {e \in S : \A r \in table[t] : r.id # e.id}

\* The rows a commit numbered snap of run r adds for the events S.
NewRows(S, r, snap) == {[id |-> e.id, run |-> r, ok |-> e.ok, snap |-> snap] : e \in S}

\* Iceberg commits only a change: a MERGE that matched everything adds no snapshot.
CommitRows(t, S, r) ==
  IF S = {}
  THEN UNCHANGED <<table, version>>
  ELSE /\ version' = [version EXCEPT ![t] = @ + 1]
       /\ table' = [table EXCEPT ![t] = @ \cup NewRows(S, r, version[t] + 1)]

CountForRun(t, r) == Cardinality({row \in table[t] : row.run = r})

\* The rows that the three writes of ingestion_runs give a run.
RunningRow(r) ==
  [status |-> "RUNNING",
   received |-> Len(batchOf[r]),
   committed |-> 0,
   quarantined |-> Cardinality({i \in DOMAIN batchOf[r] : ~ batchOf[r][i].ok}),
   duplicates |-> 0,
   snapshot |-> 0]

CompletedRow(r, counts) ==
  [status |-> IF counts.quarantined > 0 THEN "COMPLETED_WITH_QUARANTINE" ELSE "COMPLETED",
   received |-> Len(batchOf[r]),
   committed |-> counts.committed,
   quarantined |-> counts.quarantined,
   duplicates |-> InputDuplicates(batchOf[r]) + Cardinality(Items(batchOf[r]))
                    - counts.committed - counts.quarantined,
   snapshot |-> counts.snapshot]

FailedRow(r) ==
  [status |-> "FAILED", received |-> Len(batchOf[r]), committed |-> 0,
   quarantined |-> 0, duplicates |-> 0, snapshot |-> 0]

\* The write of ingestion_runs that writer w issues at each of these steps.
RunWriteSteps == {"insert_run", "finish_run", "record_failure"}

RunWrite(w) ==
  [run |-> run[w],
   step |-> pc[w],
   row |-> IF pc[w] = "insert_run" THEN RunningRow(run[w])
           ELSE IF pc[w] = "finish_run" THEN CompletedRow(run[w], tally[w])
           ELSE FailedRow(run[w])]

\* MERGE ... WHEN NOT MATCHED for the insert, UPDATE ... WHERE run_id for the rest.
ApplyRunWrite(x) ==
  runs' = IF (x.step = "insert_run") <=> (runs[x.run] = NoRow)
          THEN [runs EXCEPT ![x.run] = x.row]
          ELSE runs

-------------------------------------------------------------------------------
Init ==
  /\ table = [t \in Tables |-> {}]
  /\ version = [t \in Tables |-> 0]
  /\ runs = [r \in Runs |-> NoRow]
  /\ lostMerges = {}
  /\ lostRunWrites = {}
  /\ pc = [w \in Writers |-> "idle"]
  /\ run = [w \in Writers |-> 0]
  /\ todo = [w \in Writers |-> {}]
  /\ sent = [w \in Writers |-> {}]
  /\ plan = [w \in Writers |-> NoPlan]
  /\ attempt = [w \in Writers |-> 0]
  /\ tally = [w \in Writers |-> NoTally]
  /\ result = [w \in Writers |-> "NONE"]
  /\ nextRun = 1
  /\ batchOf = [r \in Runs |-> <<>>]
  /\ returned = {}
  /\ oversized = {}
  /\ faults = 0

Goto(w, step) == pc' = [pc EXCEPT ![w] = step]
Return(w, outcome) == Goto(w, "idle") /\ result' = [result EXCEPT ![w] = outcome]

(***************************************************************************)
(* The call.  An empty batch and a batch with a blank event_id come back   *)
(* before anything is written.                                             *)
(***************************************************************************)
IngestNothing(w) ==
  /\ pc[w] = "idle"
  /\ <<>> \in Inputs
  /\ result' = [result EXCEPT ![w] = "EMPTY"]
  /\ UNCHANGED <<server, pc, run, todo, sent, plan, attempt, tally, history, faults>>

IngestUnidentified(w) ==
  /\ pc[w] = "idle"
  /\ \E input \in Inputs : \E i \in DOMAIN input : input[i].id = BlankId
  /\ result' = [result EXCEPT ![w] = "RAISED"]
  /\ UNCHANGED <<server, pc, run, todo, sent, plan, attempt, tally, history, faults>>

\* (variant) The run_id is kept from one attempt of a caller to its next.
ReuseRunId(w, input) ==
  /\ pc[w] = "idle"
  /\ nextRun <= MaxRuns
  /\ input # <<>>
  /\ LET r == IF run[w] = 0 THEN nextRun ELSE run[w]
     IN  /\ run' = [run EXCEPT ![w] = r]
         /\ batchOf' = [batchOf EXCEPT ![r] = input]
  /\ nextRun' = nextRun + 1
  /\ Goto(w, "insert_run")
  /\ UNCHANGED <<server, todo, sent, plan, attempt, tally, result, returned, oversized, faults>>

IngestEvents(w, input) ==
  /\ pc[w] = "idle"
  /\ nextRun <= MaxRuns
  /\ input # <<>>
  /\ \A i \in DOMAIN input : input[i].id # BlankId
  /\ run' = [run EXCEPT ![w] = nextRun]
  /\ batchOf' = [batchOf EXCEPT ![nextRun] = input]
  /\ nextRun' = nextRun + 1
  /\ tally' = [tally EXCEPT ![w] = NoTally]
  /\ attempt' = [attempt EXCEPT ![w] = 0]
  /\ result' = [result EXCEPT ![w] = "NONE"]
  /\ Goto(w, "insert_run")
  /\ UNCHANGED <<server, todo, sent, plan, returned, oversized, faults>>

\* The RUNNING row is committed and acknowledged.
InsertRun(w) ==
  /\ pc[w] = "insert_run"
  /\ ApplyRunWrite(RunWrite(w))
  /\ attempt' = [attempt EXCEPT ![w] = 0]
  /\ Goto(w, "assert_fit")
  /\ UNCHANGED <<table, version, lostMerges, lostRunWrites, run, todo, sent, plan,
                 tally, result, history, faults>>

\* raise ValueError("A single event is too large ...")
RaiseTooLarge(w) ==
  /\ oversized' = oversized \cup {run[w]}
  /\ todo' = [todo EXCEPT ![w] = {}]
  /\ attempt' = [attempt EXCEPT ![w] = 0]
  /\ Goto(w, "record_failure")
  /\ UNCHANGED <<server, run, sent, plan, tally, result, nextRun, batchOf, returned, faults>>

\* The three _assert_events_fit calls.
AssertEventsFit(w) ==
  LET items == Items(batchOf[run[w]])
  IN  /\ pc[w] = "assert_fit"
      /\ IF \A t \in Tables : Destined(t, items) \subseteq Fits[t]
         THEN /\ todo' = [todo EXCEPT ![w] = items]
              /\ Goto(w, "raw_events")
              /\ UNCHANGED <<server, run, sent, plan, attempt, tally, result, history, faults>>
         ELSE RaiseTooLarge(w)

(***************************************************************************)
(* _merge_batches on table pc[w].  Where the byte budget cuts a batch      *)
(* depends on sizes the model leaves out, so any nonempty subset of at     *)
(* most InsertBatchSize items may be sent; the loop raises before it       *)
(* flushes the batch in hand when the next event is too large.             *)
(***************************************************************************)
SendBatch(w, batch) ==
  /\ pc[w] \in Tables
  /\ sent[w] = {}
  /\ batch # {}
  /\ batch \subseteq Mergeable[pc[w]]
  /\ Cardinality(batch) <= InsertBatchSize
  /\ todo[w] = batch \/ (todo[w] \ batch) \cap Mergeable[pc[w]] # {}
  /\ sent' = [sent EXCEPT ![w] = batch]
  /\ todo' = [todo EXCEPT ![w] = @ \ batch]
  /\ UNCHANGED <<server, pc, run, plan, attempt, tally, result, history, faults>>

RejectBatch(w) ==
  /\ pc[w] \in Tables
  /\ sent[w] = {}
  /\ ~ todo[w] \subseteq Mergeable[pc[w]]
  /\ RaiseTooLarge(w)

NextTable(w) ==
  /\ pc[w] \in Tables
  /\ sent[w] = {}
  /\ todo[w] = {}
  /\ todo' = [todo EXCEPT ![w] = IF After(pc[w]) \in Tables
                                 THEN Destined(After(pc[w]), Items(batchOf[run[w]]))
                                 ELSE {}]
  /\ Goto(w, After(pc[w]))
  /\ UNCHANGED <<server, run, sent, plan, attempt, tally, result, history, faults>>

\* Trino reads the target and finds which of the rows are not matched.
PlanMerge(w) ==
  /\ sent[w] # {}
  /\ plan[w] = NoPlan
  /\ plan' = [plan EXCEPT ![w] = [base |-> version[pc[w]], rows |-> Unmatched(pc[w], sent[w])]]
  /\ UNCHANGED <<server, pc, run, todo, sent, attempt, tally, result, history, faults>>

\* Iceberg commits on top of the snapshot that was read, or there is nothing to commit.
CommitMerge(w) ==
  /\ sent[w] # {}
  /\ plan[w] # NoPlan
  /\ plan[w].rows = {} \/ plan[w].base = version[pc[w]]
  /\ CommitRows(pc[w], plan[w].rows, run[w])
  /\ sent' = [sent EXCEPT ![w] = {}]
  /\ plan' = [plan EXCEPT ![w] = NoPlan]
  /\ attempt' = [attempt EXCEPT ![w] = 0]
  /\ UNCHANGED <<runs, lostMerges, lostRunWrites, pc, run, todo, tally, result, history, faults>>

\* (variant) The last conflict leaves the retry loop without raising.
SwallowConflict(w) ==
  /\ sent[w] # {}
  /\ plan[w] # NoPlan
  /\ plan[w].rows # {}
  /\ plan[w].base # version[pc[w]]
  /\ plan' = [plan EXCEPT ![w] = NoPlan]
  /\ IF attempt[w] < CommitRetries
     THEN attempt' = [attempt EXCEPT ![w] = @ + 1] /\ UNCHANGED sent
     ELSE attempt' = [attempt EXCEPT ![w] = 0] /\ sent' = [sent EXCEPT ![w] = {}]
  /\ UNCHANGED <<server, pc, todo, run, tally, result, history, faults>>

\* ICEBERG_COMMIT_ERROR or TRANSACTION_CONFLICT: execute again, or raise.
ConflictMerge(w) ==
  /\ sent[w] # {}
  /\ plan[w] # NoPlan
  /\ plan[w].rows # {}
  /\ plan[w].base # version[pc[w]]
  /\ plan' = [plan EXCEPT ![w] = NoPlan]
  /\ IF attempt[w] < CommitRetries
     THEN /\ attempt' = [attempt EXCEPT ![w] = @ + 1]
          /\ UNCHANGED <<pc, todo, sent>>
     ELSE /\ attempt' = [attempt EXCEPT ![w] = 0]
          /\ sent' = [sent EXCEPT ![w] = {}]
          /\ todo' = [todo EXCEPT ![w] = {}]
          /\ Goto(w, "record_failure")
  /\ UNCHANGED <<server, run, tally, result, history, faults>>

(***************************************************************************)
(* The counts by ingestion_run_id, the last snapshot, the final row.       *)
(***************************************************************************)
Tally(w, committed, quarantined, snapshot) ==
  tally' = [tally EXCEPT ![w] =
              [committed |-> committed, quarantined |-> quarantined, snapshot |-> snapshot]]

CountCommitted(w) ==
  /\ pc[w] = "count_committed"
  /\ Tally(w, CountForRun("application_logs", run[w]), 0, 0)
  /\ Goto(w, "count_quarantined")
  /\ UNCHANGED <<server, run, todo, sent, plan, attempt, result, history, faults>>

CountQuarantined(w) ==
  /\ pc[w] = "count_quarantined"
  /\ Tally(w, tally[w].committed, CountForRun("quarantine_events", run[w]), 0)
  /\ Goto(w, "read_snapshot")
  /\ UNCHANGED <<server, run, todo, sent, plan, attempt, result, history, faults>>

\* (variant) ORDER BY committed_at without DESC.
ReadFirstSnapshot(w) ==
  /\ pc[w] = "read_snapshot"
  /\ Tally(w, tally[w].committed, tally[w].quarantined,
           IF version["application_logs"] = 0 THEN 0 ELSE 1)
  /\ Goto(w, "finish_run")
  /\ UNCHANGED <<server, run, todo, sent, plan, attempt, result, history, faults>>

ReadSnapshot(w) ==
  /\ pc[w] = "read_snapshot"
  /\ Tally(w, tally[w].committed, tally[w].quarantined, version["application_logs"])
  /\ Goto(w, "finish_run")
  /\ UNCHANGED <<server, run, todo, sent, plan, attempt, result, history, faults>>

FinishRun(w) ==
  /\ pc[w] = "finish_run"
  /\ ApplyRunWrite(RunWrite(w))
  /\ returned' = returned \cup {[run |-> run[w], row |-> RunWrite(w).row]}
  /\ Return(w, RunWrite(w).row.status)
  /\ UNCHANGED <<table, version, lostMerges, lostRunWrites, run, todo, sent, plan,
                 attempt, tally, nextRun, batchOf, oversized, faults>>

\* The except branch: FAILED is recorded, then the exception goes on to the caller.
RecordFailure(w) ==
  /\ pc[w] = "record_failure"
  /\ ApplyRunWrite(RunWrite(w))
  /\ Return(w, "RAISED")
  /\ UNCHANGED <<table, version, lostMerges, lostRunWrites, run, todo, sent, plan,
                 attempt, tally, history, faults>>

\* Where a statement that raised leaves the call.
RaiseFrom(w) ==
  IF pc[w] = "record_failure"
  THEN Return(w, "RAISED")
  ELSE Goto(w, "record_failure") /\ UNCHANGED result

\* (variant) A retry loop that forgets how often it has tried.
RetryForever(w) ==
  /\ pc[w] \in RunWriteSteps
  /\ attempt' = [attempt EXCEPT ![w] = (@ + 1) % (CommitRetries + 1)]
  /\ UNCHANGED <<server, pc, result, run, todo, sent, plan, tally, history, faults>>

\* (variant) The limit of the retries is passed by one.
OneRetryTooMany(w) ==
  /\ pc[w] \in RunWriteSteps
  /\ IF attempt[w] <= CommitRetries
     THEN /\ attempt' = [attempt EXCEPT ![w] = @ + 1]
          /\ UNCHANGED <<pc, result>>
     ELSE /\ attempt' = [attempt EXCEPT ![w] = 0]
          /\ RaiseFrom(w)
  /\ UNCHANGED <<server, run, todo, sent, plan, tally, history, faults>>

\* Another run committed to ingestion_runs meanwhile: execute again, or raise.
ConflictRunWrite(w) ==
  /\ pc[w] \in RunWriteSteps
  /\ IF attempt[w] < CommitRetries
     THEN /\ attempt' = [attempt EXCEPT ![w] = @ + 1]
          /\ UNCHANGED <<pc, result>>
     ELSE /\ attempt' = [attempt EXCEPT ![w] = 0]
          /\ RaiseFrom(w)
  /\ UNCHANGED <<server, run, todo, sent, plan, tally, history, faults>>

-------------------------------------------------------------------------------
(***************************************************************************)
(* Faults.                                                                 *)
(***************************************************************************)

\* The statement under way, if any, stays behind in Trino.
LeaveStatementBehind(w) ==
  /\ lostMerges' = lostMerges \cup
       (IF sent[w] = {} THEN {}
        ELSE {[table |-> pc[w], run |-> run[w], events |-> sent[w], base |-> plan[w].base]})
  /\ lostRunWrites' = lostRunWrites \cup
       (IF pc[w] \in RunWriteSteps THEN {RunWrite(w)} ELSE {})

\* The client gets an error that is no conflict marker: a timeout, a lost connection,
\* a failed query.  Whether the statement took effect is not known.
LoseAnswer(w) ==
  /\ faults < MaxFaults
  /\ faults' = faults + 1
  /\ \/ sent[w] # {}
     \/ pc[w] \in RunWriteSteps \cup {"count_committed", "count_quarantined", "read_snapshot"}
  /\ LeaveStatementBehind(w)
  /\ sent' = [sent EXCEPT ![w] = {}]
  /\ todo' = [todo EXCEPT ![w] = {}]
  /\ plan' = [plan EXCEPT ![w] = NoPlan]
  /\ attempt' = [attempt EXCEPT ![w] = 0]
  /\ RaiseFrom(w)
  /\ UNCHANGED <<table, version, runs, run, tally, history>>

\* The writer's process dies; nothing of the call survives but what Trino has.
Crash(w) ==
  /\ faults < MaxFaults
  /\ faults' = faults + 1
  /\ pc[w] # "idle"
  /\ LeaveStatementBehind(w)
  /\ sent' = [sent EXCEPT ![w] = {}]
  /\ todo' = [todo EXCEPT ![w] = {}]
  /\ plan' = [plan EXCEPT ![w] = NoPlan]
  /\ attempt' = [attempt EXCEPT ![w] = 0]
  /\ Goto(w, "idle")
  /\ UNCHANGED <<table, version, runs, run, tally, result, history>>

\* A MERGE left behind commits: it was still queued, or its snapshot is still the last.
LandMerge(m) ==
  /\ m.base \in {Queued, version[m.table]}
  /\ CommitRows(m.table, Unmatched(m.table, m.events), m.run)
  /\ lostMerges' = lostMerges \ {m}
  /\ UNCHANGED <<runs, lostRunWrites, client, history, faults>>

LandRunWrite(x) ==
  /\ ApplyRunWrite(x)
  /\ lostRunWrites' = lostRunWrites \ {x}
  /\ UNCHANGED <<table, version, lostMerges, client, history, faults>>

-------------------------------------------------------------------------------
\* One step of a call, Trino's part of it included.
CallStep(w) ==
  \/ InsertRun(w)
  \/ AssertEventsFit(w)
  \/ \E batch \in SUBSET todo[w] : SendBatch(w, batch)
  \/ RejectBatch(w)
  \/ NextTable(w)
  \/ PlanMerge(w)
  \/ CommitMerge(w)
  \/ ConflictMerge(w)
  \/ CountCommitted(w)
  \/ CountQuarantined(w)
  \/ ReadSnapshot(w)
  \/ FinishRun(w)
  \/ RecordFailure(w)
  \/ ConflictRunWrite(w)

Next ==
  \/ \E w \in Writers :
       \/ IngestNothing(w)
       \/ IngestUnidentified(w)
       \/ \E input \in Inputs : IngestEvents(w, input)
       \/ CallStep(w)
       \/ LoseAnswer(w)
       \/ Crash(w)
  \/ \E m \in lostMerges : LandMerge(m)
  \/ \E x \in lostRunWrites : LandRunWrite(x)

Spec == Init /\ [][Next]_vars

\* Every statement is answered, refused or timed out (request_timeout), and the retry
\* loop only sleeps: a call that can take a step takes one.
FairSpec == Spec /\ \A w \in Writers : WF_vars(CallStep(w))
(***************************************************************************)
(* Properties.                                                             *)
(***************************************************************************)
Row == [id : EventIds, run : Runs, ok : BOOLEAN, snap : Nat \ {0}]
RunRow == [status : Completed \cup {"NONE", "RUNNING", "FAILED"}, received : Nat,
           committed : Nat, quarantined : Nat, duplicates : Int, snapshot : Nat]
Steps == Tables \cup RunWriteSteps \cup
  {"idle", "assert_fit", "count_committed", "count_quarantined", "read_snapshot"}

\* Every variable has its type.
TypeOK ==
  /\ table \in [Tables -> SUBSET Row]
  /\ \A t \in Tables : IsFiniteSet(table[t])
  /\ version \in [Tables -> Nat]
  /\ runs \in [Runs -> RunRow]
  /\ lostMerges \subseteq
       [table : Tables, run : Runs, events : SUBSET Events, base : Nat \cup {Queued}]
  /\ lostRunWrites \subseteq [run : Runs, step : RunWriteSteps, row : RunRow]
  /\ pc \in [Writers -> Steps]
  /\ run \in [Writers -> Runs \cup {0}]
  /\ todo \in [Writers -> SUBSET Events]
  /\ sent \in [Writers -> SUBSET Events]
  /\ plan \in [Writers -> [base : Nat \cup {Queued}, rows : SUBSET Events]]
  /\ attempt \in [Writers -> 0..CommitRetries]
  /\ tally \in [Writers -> [committed : Nat, quarantined : Nat, snapshot : Nat]]
  /\ result \in [Writers -> Completed \cup {"NONE", "EMPTY", "RAISED"}]
  /\ nextRun \in 1..(MaxRuns + 1)
  /\ batchOf \in [Runs -> Seq(Events)]
  /\ returned \subseteq [run : Runs, row : RunRow]
  /\ oversized \subseteq Runs
  /\ faults \in 0..MaxFaults

\* However calls interleave, conflict, are retried by their caller or land late, a table
\* never holds two rows of one event_id (_merge_batch on an Iceberg table without keys).
OneRowPerEvent ==
  \A t \in Tables : \A r1, r2 \in table[t] : r1.id = r2.id => r1 = r2

\* A completed run row accounts for every event received: the counts are those of the
\* rows that carry the run, and the rest are duplicates, never fewer than none.
CompletedRunAccounts ==
  \A r \in Runs :
    runs[r].status \in Completed =>
      /\ runs[r].received = Len(batchOf[r])
      /\ runs[r].committed = CountForRun("application_logs", r)
      /\ runs[r].quarantined = CountForRun("quarantine_events", r)
      /\ runs[r].duplicates >= 0
      /\ runs[r].duplicates =
           runs[r].received - runs[r].committed - runs[r].quarantined
      /\ runs[r].status = "COMPLETED" <=> runs[r].quarantined = 0

\* A row that says COMPLETED is never ahead of the data, even when its writer died or was
\* told FAILED: each event of the batch is in raw_events and in the table of its verdict.
CompletedRunIsStored ==
  \A r \in Runs :
    runs[r].status \in Completed =>
      \A t \in Tables : \A e \in Destined(t, Items(batchOf[r])) :
        \E row \in table[t] : row.id = e.id

\* Time travel to the snapshot_id of a completed run shows all the rows the run added.
SnapshotCoversRun ==
  \A r \in Runs :
    runs[r].status \in Completed =>
      \A row \in table["application_logs"] : row.run = r => row.snap <= runs[r].snapshot

\* What a caller was told stays what the audit table says: no statement left behind by
\* a failed attempt rewrites the row of a run that returned.
ReturnedResultStands == \A res \in returned : runs[res.run] = res.row

\* "A single event larger than the safe Trino binding limit is rejected before event
\* tables are partially written" (README.md, limits): a run that raised it wrote nothing.
OversizedWritesNothing ==
  \A r \in oversized : \A t \in Tables : \A row \in table[t] : row.run # r

\* TrinoIngest keeps the promise of a backend.
Promise == INSTANCE EventStore
  WITH RawTable <- "raw_events",
       copies <- [t \in Tables |->
                    [id \in EventIds |-> Cardinality({r \in table[t] : r.id = id})]],
       acknowledged <- UNION {{e.id : e \in Items(batchOf[res.run])} : res \in returned}

ImplementsEventStore == Promise!StoreSpec

\* Every call of ingest_events comes back, with a result or an exception.
EveryCallReturns == \A w \in Writers : pc[w] # "idle" ~> pc[w] = "idle"
===============================================================================
