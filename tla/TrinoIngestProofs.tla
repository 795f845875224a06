--------------------------- MODULE TrinoIngestProofs ---------------------------
(***************************************************************************)
(* Proofs about TrinoIngest, for every set of writers, every finite set of *)
(* events, every batch, limit and bound.                                   *)
(***************************************************************************)
EXTENDS TrinoIngest, MergeSizes, FiniteSetTheorems, FunctionTheorems, TLAPS

-------------------------------------------------------------------------------
(***************************************************************************)
(* The batch.                                                              *)
(***************************************************************************)

\* No two different events of S have one identifier.
DistinctEvents(S) == \A e, f \in S : e.id = f.id => e = f

\* The dictionary that ingest_events builds holds events of the batch, one per event_id.
LEMMA ItemsDistinct ==
  ASSUME NEW input \in Seq(Events)
  PROVE  /\ Items(input) \subseteq Events
         /\ DistinctEvents(Items(input))
<1>1. Items(input) \subseteq Events
  BY DEF Items
<1>2. ASSUME NEW e \in Items(input), NEW f \in Items(input), e.id = f.id
      PROVE  e = f
  <2>1. PICK i \in DOMAIN input :
          e = input[i] /\ \A j \in DOMAIN input : j > i => input[j].id # input[i].id
    BY DEF Items
  <2>2. PICK k \in DOMAIN input :
          f = input[k] /\ \A j \in DOMAIN input : j > k => input[j].id # input[k].id
    BY DEF Items
  <2>3. i \in Nat /\ k \in Nat
    BY <2>1, <2>2
  <2>4. ~ (i < k) /\ ~ (k < i)
    BY <1>2, <2>1, <2>2, <2>3
  <2>5. QED
    BY <2>1, <2>2, <2>3, <2>4
<1>3. QED
  BY <1>1, <1>2 DEF DistinctEvents

LEMMA DestinedSubset ==
  ASSUME NEW t \in Tables, NEW S
  PROVE  Destined(t, S) \subseteq S
BY DEF Destined

\* Sets of events are finite and have a size.
LEMMA EventsFinite ==
  ASSUME NEW S \in SUBSET Events
  PROVE  IsFiniteSet(S) /\ Cardinality(S) \in Nat
BY EventsAssumption, FS_Subset, FS_CardinalityType

-------------------------------------------------------------------------------
(***************************************************************************)
(* Rows.                                                                   *)
(***************************************************************************)

\* A commit adds finitely many well-formed rows.
LEMMA NewRowsType ==
  ASSUME NEW S \in SUBSET Events, NEW r \in Runs, NEW snap \in Nat \ {0}
  PROVE  NewRows(S, r, snap) \subseteq Row /\ IsFiniteSet(NewRows(S, r, snap))
<1> DEFINE R == NewRows(S, r, snap)
           f == [e \in S |-> [id |-> e.id, run |-> r, ok |-> e.ok, snap |-> snap]]
<1>1. R \subseteq Row
  BY EventsAssumption DEF NewRows, Row, EventIds
<1>2. f \in Surjection(S, R)
  BY DEF Surjection, NewRows
<1>3. IsFiniteSet(R)
  BY <1>2, EventsFinite, FS_Surjection
<1>4. QED
  BY <1>1, <1>3

\* The counts read back are numbers.
LEMMA CountType ==
  ASSUME TypeOK, NEW t \in Tables, NEW r
  PROVE  CountForRun(t, r) \in Nat
<1>1. IsFiniteSet(table[t])
  BY DEF TypeOK
<1>2. {row \in table[t] : row.run = r} \in SUBSET table[t]
  OBVIOUS
<1>3. QED
  BY <1>1, <1>2, FS_Subset, FS_CardinalityType DEF CountForRun

\* What one commit does to the tables.
LEMMA CommitRowsType ==
  ASSUME TypeOK, NEW t \in Tables, NEW S \in SUBSET Events, NEW r \in Runs,
         CommitRows(t, S, r)
  PROVE  /\ table' \in [Tables -> SUBSET Row]
         /\ \A u \in Tables : IsFiniteSet(table'[u])
         /\ version' \in [Tables -> Nat]
<1>1. CASE S = {}
  BY <1>1 DEF CommitRows, TypeOK
<1>2. CASE S # {}
  <2>1. version[t] + 1 \in Nat \ {0}
    BY DEF TypeOK
  <2>2. /\ NewRows(S, r, version[t] + 1) \subseteq Row
        /\ IsFiniteSet(NewRows(S, r, version[t] + 1))
    BY <2>1, NewRowsType
  <2>3. /\ version' = [version EXCEPT ![t] = @ + 1]
        /\ table' = [table EXCEPT ![t] = @ \cup NewRows(S, r, version[t] + 1)]
    BY <1>2 DEF CommitRows
  <2>4. IsFiniteSet(table[t] \cup NewRows(S, r, version[t] + 1))
    BY <2>2, FS_Union DEF TypeOK
  <2>5. QED
    BY <2>1, <2>2, <2>3, <2>4 DEF TypeOK
<1>3. QED
  BY <1>1, <1>2

\* The rows written to ingestion_runs are well formed.
LEMMA RunRowsType ==
  ASSUME TypeOK, NEW r \in Runs,
         NEW counts \in [committed : Nat, quarantined : Nat, snapshot : Nat]
  PROVE  RunningRow(r) \in RunRow /\ CompletedRow(r, counts) \in RunRow /\ FailedRow(r) \in RunRow
<1>1. batchOf[r] \in Seq(Events) /\ Len(batchOf[r]) \in Nat
  BY DEF TypeOK
<1>2. Cardinality({i \in DOMAIN batchOf[r] : ~ batchOf[r][i].ok}) \in Nat
  <2>1. IsFiniteSet(DOMAIN batchOf[r])
    BY <1>1, FS_Interval
  <2>2. {i \in DOMAIN batchOf[r] : ~ batchOf[r][i].ok} \in SUBSET DOMAIN batchOf[r]
    OBVIOUS
  <2>3. QED
    BY <2>1, <2>2, FS_Subset, FS_CardinalityType
<1>3. Cardinality(Items(batchOf[r])) \in Nat
  BY <1>1, ItemsDistinct, EventsFinite
<1>4. RunningRow(r) \in RunRow
  BY <1>1, <1>2 DEF RunningRow, RunRow, NoRow, Completed
<1>5. CompletedRow(r, counts) \in RunRow
  BY <1>1, <1>3 DEF CompletedRow, InputDuplicates, RunRow, Completed
<1>6. FailedRow(r) \in RunRow
  BY <1>1 DEF FailedRow, RunRow, NoRow, Completed
<1>7. QED
  BY <1>4, <1>5, <1>6

LEMMA RunWriteType ==
  ASSUME TypeOK, NEW w \in Writers, pc[w] \in RunWriteSteps, run[w] \in Runs
  PROVE  RunWrite(w) \in [run : Runs, step : RunWriteSteps, row : RunRow]
<1>1. tally[w] \in [committed : Nat, quarantined : Nat, snapshot : Nat]
  BY DEF TypeOK
<1>2. /\ RunningRow(run[w]) \in RunRow
      /\ CompletedRow(run[w], tally[w]) \in RunRow
      /\ FailedRow(run[w]) \in RunRow
  BY <1>1, RunRowsType
<1>3. QED
  BY <1>2 DEF RunWrite

LEMMA ApplyRunWriteType ==
  ASSUME TypeOK, NEW x \in [run : Runs, step : RunWriteSteps, row : RunRow], ApplyRunWrite(x)
  PROVE  runs' \in [Runs -> RunRow]
<1>1. x.run \in Runs /\ x.row \in RunRow
  OBVIOUS
<1>2. QED
  BY <1>1 DEF ApplyRunWrite, TypeOK

-------------------------------------------------------------------------------
(***************************************************************************)
(* Type correctness, with what the types of the statements rest on: a      *)
(* writer inside a call has a run, and a MERGE is under way only while a   *)
(* table is written.                                                       *)
(***************************************************************************)
InCall == \A w \in Writers : pc[w] # "idle" => run[w] \in Runs
MergeInTable == \A w \in Writers : sent[w] # {} => pc[w] \in Tables

TypeInv == TypeOK /\ InCall /\ MergeInTable

LEMMA InitType == Init => TypeInv
<1>1. ASSUME Init PROVE TypeOK
  <2> USE <1>1, ConfigAssumption DEF Init
  <2>1. \A t \in Tables : table[t] \in SUBSET Row /\ IsFiniteSet(table[t])
    BY FS_EmptySet
  <2>2. runs \in [Runs -> RunRow]
    BY DEF RunRow, NoRow, Completed
  <2>3. plan \in [Writers -> [base : Nat \cup {Queued}, rows : SUBSET Events]]
    BY DEF NoPlan
  <2>4. tally \in [Writers -> [committed : Nat, quarantined : Nat, snapshot : Nat]]
    BY DEF NoTally
  <2>5. nextRun \in 1..(MaxRuns + 1)
    BY DEF Runs
  <2>6. QED
    BY <2>1, <2>2, <2>3, <2>4, <2>5 DEF TypeOK, Steps
<1>2. QED
  BY <1>1 DEF Init, TypeInv, InCall, MergeInTable

\* The writer's own variables after a step that only moves on or fails.
LEMMA RaiseFromType ==
  ASSUME TypeOK, NEW w \in Writers, RaiseFrom(w)
  PROVE  /\ pc' \in [Writers -> Steps]
         /\ result' \in [Writers -> Completed \cup {"NONE", "EMPTY", "RAISED"}]
         /\ \A v \in Writers \ {w} : pc'[v] = pc[v]
         /\ pc'[w] \in {"idle", "record_failure"}
         /\ pc[w] = "record_failure" => pc'[w] = "idle"
BY DEF RaiseFrom, Return, Goto, TypeOK, Steps, RunWriteSteps

LEMMA BehindType ==
  ASSUME TypeInv, NEW w \in Writers, pc[w] # "idle", LeaveStatementBehind(w)
  PROVE  /\ lostMerges' \subseteq
              [table : Tables, run : Runs, events : SUBSET Events, base : Nat \cup {Queued}]
         /\ lostRunWrites' \subseteq [run : Runs, step : RunWriteSteps, row : RunRow]
<1>1. run[w] \in Runs
  BY DEF TypeInv, InCall
<1>2. sent[w] # {} =>
        [table |-> pc[w], run |-> run[w], events |-> sent[w], base |-> plan[w].base]
          \in [table : Tables, run : Runs, events : SUBSET Events, base : Nat \cup {Queued}]
  BY <1>1 DEF TypeInv, TypeOK, MergeInTable
<1>3. pc[w] \in RunWriteSteps =>
        RunWrite(w) \in [run : Runs, step : RunWriteSteps, row : RunRow]
  BY <1>1, RunWriteType DEF TypeInv
<1>4. QED
  BY <1>2, <1>3 DEF LeaveStatementBehind, TypeInv, TypeOK

\* The retry loop counts up to iceberg_commit_retries and starts again at 0.
LEMMA AttemptType ==
  ASSUME TypeOK, NEW w \in Writers
  PROVE  /\ [attempt EXCEPT ![w] = 0] \in [Writers -> 0..CommitRetries]
         /\ attempt[w] < CommitRetries =>
              [attempt EXCEPT ![w] = @ + 1] \in [Writers -> 0..CommitRetries]
<1>1. attempt \in [Writers -> 0..CommitRetries] /\ CommitRetries \in Nat
  BY ConfigAssumption DEF TypeOK
<1>2. QED
  BY <1>1

\* The actions that only touch the writer's own variables, or the history.
LEMMA TypeLocalSteps ==
  ASSUME TypeInv, NEW w \in Writers
  PROVE  (\/ IngestNothing(w)
          \/ IngestUnidentified(w)
          \/ RejectBatch(w)
          \/ \E batch \in SUBSET todo[w] : SendBatch(w, batch)
          \/ PlanMerge(w)
          \/ ConflictMerge(w)
          \/ ConflictRunWrite(w)
          \/ ReadSnapshot(w))
         => TypeInv'
<1> USE DEF TypeInv, TypeOK, InCall, MergeInTable, server, client, history
<1>1. ASSUME IngestNothing(w) PROVE TypeInv'
  BY <1>1 DEF IngestNothing
<1>2. ASSUME IngestUnidentified(w) PROVE TypeInv'
  BY <1>2 DEF IngestUnidentified
<1>3. ASSUME RejectBatch(w) PROVE TypeInv'
  BY <1>3, ConfigAssumption DEF RejectBatch, RaiseTooLarge, Goto, Steps, RunWriteSteps, Tables
<1>4. ASSUME \E batch \in SUBSET todo[w] : SendBatch(w, batch) PROVE TypeInv'
  BY <1>4 DEF SendBatch
<1>5. ASSUME PlanMerge(w) PROVE TypeInv'
  BY <1>5 DEF PlanMerge, Unmatched
<1>6. ASSUME ConflictMerge(w) PROVE TypeInv'
  <2>1. attempt' \in [Writers -> 0..CommitRetries]
    <3>1. CASE attempt[w] < CommitRetries
      <4>1. attempt' = [attempt EXCEPT ![w] = @ + 1]
        BY <1>6, <3>1 DEF ConflictMerge
      <4>2. QED
        BY <3>1, <4>1, AttemptType
    <3>2. CASE ~ attempt[w] < CommitRetries
      <4>1. attempt' = [attempt EXCEPT ![w] = 0]
        BY <1>6, <3>2 DEF ConflictMerge
      <4>2. QED
        BY <4>1, AttemptType
    <3>3. QED
      BY <3>1, <3>2
  <2>2. plan' \in [Writers -> [base : Nat \cup {Queued}, rows : SUBSET Events]]
    BY <1>6 DEF ConflictMerge, NoPlan
  <2>3. /\ pc' \in [Writers -> Steps]
        /\ todo' \in [Writers -> SUBSET Events]
        /\ sent' \in [Writers -> SUBSET Events]
        /\ InCall'
        /\ MergeInTable'
    <3>1. CASE UNCHANGED <<pc, todo, sent>>
      BY <1>6, <3>1 DEF ConflictMerge
    <3>2. CASE /\ sent' = [sent EXCEPT ![w] = {}]
               /\ todo' = [todo EXCEPT ![w] = {}]
               /\ pc' = [pc EXCEPT ![w] = "record_failure"]
      <4>1. "record_failure" \in Steps \ {"idle"}
        BY DEF Steps, RunWriteSteps
      <4>2. run[w] \in Runs /\ run' = run
        BY <1>6 DEF ConflictMerge, Tables
      <4>3. InCall'
        BY <3>2, <4>2
      <4>4. MergeInTable'
        BY <3>2
      <4>5. QED
        BY <3>2, <4>1, <4>3, <4>4
    <3>3. QED
      BY <1>6, <3>1, <3>2 DEF ConflictMerge, Goto
  <2>4. QED
    BY <1>6, <2>1, <2>2, <2>3 DEF ConflictMerge
<1>7. ASSUME ConflictRunWrite(w) PROVE TypeInv'
  <2>1. CASE attempt[w] < CommitRetries
    <3>1. attempt' \in [Writers -> 0..CommitRetries]
      BY <1>7, <2>1, AttemptType DEF ConflictRunWrite
    <3>2. QED
      BY <1>7, <2>1, <3>1 DEF ConflictRunWrite
  <2>2. CASE ~ attempt[w] < CommitRetries
    <3>1. attempt' \in [Writers -> 0..CommitRetries]
      BY <1>7, <2>2, AttemptType DEF ConflictRunWrite
    <3>2. /\ pc[w] \notin Tables \cup {"idle"}
          /\ pc' \in [Writers -> Steps]
          /\ result' \in [Writers -> Completed \cup {"NONE", "EMPTY", "RAISED"}]
          /\ \A v \in Writers \ {w} : pc'[v] = pc[v]
      BY <1>7, <2>2, RaiseFromType DEF ConflictRunWrite, RunWriteSteps, Tables
    <3>3. QED
      BY <1>7, <2>2, <3>1, <3>2 DEF ConflictRunWrite
  <2>3. QED
    BY <2>1, <2>2
<1>8. ASSUME ReadSnapshot(w) PROVE TypeInv'
  <2>1. tally' \in [Writers -> [committed : Nat, quarantined : Nat, snapshot : Nat]]
    BY <1>8 DEF ReadSnapshot, Tally, Tables
  <2>2. pc[w] \notin Tables \cup {"idle"} /\ pc' = [pc EXCEPT ![w] = "finish_run"]
    BY <1>8 DEF ReadSnapshot, Goto, Tables
  <2>3. "finish_run" \in Steps
    BY DEF Steps, RunWriteSteps
  <2>4. QED
    BY <1>8, <2>1, <2>2, <2>3 DEF ReadSnapshot
<1>9. QED
  BY <1>1, <1>2, <1>3, <1>4, <1>5, <1>6, <1>7, <1>8

\* The call begins, reads its counts and moves from table to table.
LEMMA TypeCallSteps ==
  ASSUME TypeInv, NEW w \in Writers
  PROVE  (\/ \E input \in Inputs : IngestEvents(w, input)
          \/ AssertEventsFit(w)
          \/ NextTable(w)
          \/ CountCommitted(w)
          \/ CountQuarantined(w))
         => TypeInv'
<1> USE DEF TypeInv, TypeOK, InCall, MergeInTable, server, client, history
<1>1. ASSUME NEW input \in Inputs, IngestEvents(w, input)
      PROVE  TypeInv'
  <2>1. input \in Seq(Events) /\ nextRun \in Runs
    BY <1>1, InputsAssumption, ConfigAssumption DEF IngestEvents, Runs
  <2>2. /\ attempt' \in [Writers -> 0..CommitRetries]
        /\ tally' \in [Writers -> [committed : Nat, quarantined : Nat, snapshot : Nat]]
        /\ nextRun' \in 1..(MaxRuns + 1)
        /\ batchOf' \in [Runs -> Seq(Events)]
    BY <1>1, <2>1, ConfigAssumption DEF IngestEvents, NoTally, Runs
  <2>3. /\ pc' \in [Writers -> Steps]
        /\ run' \in [Writers -> Runs \cup {0}]
        /\ InCall'
        /\ MergeInTable'
    BY <1>1, <2>1 DEF IngestEvents, Goto, Steps, RunWriteSteps, Tables
  <2>4. QED
    BY <1>1, <2>2, <2>3 DEF IngestEvents
<1>2. ASSUME AssertEventsFit(w) PROVE TypeInv'
  <2>1. pc[w] # "idle" /\ run[w] \in Runs
    BY <1>2 DEF AssertEventsFit
  <2>2. Items(batchOf[run[w]]) \subseteq Events
    BY <2>1, ItemsDistinct
  <2>3. attempt' \in [Writers -> 0..CommitRetries]
    BY <1>2, AttemptType DEF AssertEventsFit, RaiseTooLarge
  <2>4. todo' \in [Writers -> SUBSET Events]
    <3>1. \/ todo' = [todo EXCEPT ![w] = {}]
          \/ todo' = [todo EXCEPT ![w] = Items(batchOf[run[w]])]
      BY <1>2 DEF AssertEventsFit, RaiseTooLarge
    <3>2. QED
      BY <2>2, <3>1
  <2>5. oversized' \subseteq Runs
    BY <1>2, <2>1 DEF AssertEventsFit, RaiseTooLarge
  <2>6. pc' \in [Writers -> Steps] /\ InCall' /\ MergeInTable'
    BY <1>2, <2>1 DEF AssertEventsFit, RaiseTooLarge, Goto, Steps, RunWriteSteps, Tables
  <2>7. QED
    BY <1>2, <2>3, <2>4, <2>5, <2>6 DEF AssertEventsFit, RaiseTooLarge, Goto
<1>3. ASSUME NextTable(w) PROVE TypeInv'
  <2>1. pc[w] # "idle" /\ run[w] \in Runs
    BY <1>3 DEF NextTable, Tables
  <2>2. After(pc[w]) \in Steps \ {"idle"}
    BY <1>3 DEF NextTable, After, Tables, Steps
  <2>3. \A t \in Tables : Destined(t, Items(batchOf[run[w]])) \subseteq Events
    BY <2>1, ItemsDistinct, DestinedSubset
  <2>4. todo' \in [Writers -> SUBSET Events]
    BY <1>3, <2>3 DEF NextTable
  <2>5. QED
    BY <1>3, <2>1, <2>2, <2>4 DEF NextTable, Goto
<1>4. ASSUME CountCommitted(w) PROVE TypeInv'
  <2>1. CountForRun("application_logs", run[w]) \in Nat
    BY CountType DEF Tables
  <2>2. QED
    BY <1>4, <2>1 DEF CountCommitted, Tally, Goto, Steps, Tables
<1>5. ASSUME CountQuarantined(w) PROVE TypeInv'
  <2>1. CountForRun("quarantine_events", run[w]) \in Nat
    BY CountType DEF Tables
  <2>2. QED
    BY <1>5, <2>1 DEF CountQuarantined, Tally, Goto, Steps, Tables
<1>6. QED
  BY <1>1, <1>2, <1>3, <1>4, <1>5

\* A statement commits and its answer arrives.
LEMMA TypeCommitSteps ==
  ASSUME TypeInv, NEW w \in Writers,
         InsertRun(w) \/ CommitMerge(w) \/ FinishRun(w) \/ RecordFailure(w)
  PROVE  TypeInv'
<1> USE DEF TypeInv, TypeOK, InCall, MergeInTable, server, client, history
<1>1. pc[w] # "idle" /\ run[w] \in Runs
  BY DEF InsertRun, CommitMerge, FinishRun, RecordFailure, Tables
<1>2. ASSUME pc[w] \in RunWriteSteps, ApplyRunWrite(RunWrite(w))
      PROVE  runs' \in [Runs -> RunRow] /\ RunWrite(w) \in [run : Runs, step : RunWriteSteps, row : RunRow]
  BY <1>1, <1>2, RunWriteType, ApplyRunWriteType
<1>3. CASE InsertRun(w)
  BY <1>2, <1>3, ConfigAssumption DEF InsertRun, Goto, Steps, RunWriteSteps, Tables
<1>4. CASE CommitMerge(w)
  <2>1. pc[w] \in Tables /\ plan[w].rows \in SUBSET Events
    BY <1>4 DEF CommitMerge
  <2>2. /\ table' \in [Tables -> SUBSET Row]
        /\ \A u \in Tables : IsFiniteSet(table'[u])
        /\ version' \in [Tables -> Nat]
    BY <1>1, <1>4, <2>1, CommitRowsType DEF CommitMerge
  <2>3. QED
    BY <1>4, <2>2, ConfigAssumption DEF CommitMerge, NoPlan
<1>5. CASE FinishRun(w)
  <2>1. RunWrite(w).row.status \in Completed
    BY <1>5 DEF FinishRun, RunWrite, CompletedRow, Completed
  <2>2. QED
    BY <1>1, <1>2, <1>5, <2>1 DEF FinishRun, Return, Goto, Steps, RunWriteSteps, Tables
<1>6. CASE RecordFailure(w)
  BY <1>2, <1>6 DEF RecordFailure, Return, Goto, Steps, RunWriteSteps, Tables
<1>7. QED
  BY <1>3, <1>4, <1>5, <1>6

\* A fault leaves a statement behind, or one of those left behind commits.
LEMMA TypeFaultSteps ==
  ASSUME TypeInv,
         \/ \E w \in Writers : LoseAnswer(w) \/ Crash(w)
         \/ \E m \in lostMerges : LandMerge(m)
         \/ \E x \in lostRunWrites : LandRunWrite(x)
  PROVE  TypeInv'
<1> USE DEF TypeInv, TypeOK, InCall, MergeInTable, server, client, history
<1>1. ASSUME NEW w \in Writers, LoseAnswer(w)
      PROVE  TypeInv'
  <2>1. pc[w] # "idle"
    BY <1>1 DEF LoseAnswer, RunWriteSteps, Tables
  <2>2. /\ lostMerges' \subseteq
              [table : Tables, run : Runs, events : SUBSET Events, base : Nat \cup {Queued}]
        /\ lostRunWrites' \subseteq [run : Runs, step : RunWriteSteps, row : RunRow]
    BY <1>1, <2>1, BehindType DEF LoseAnswer
  <2>3. /\ pc' \in [Writers -> Steps]
        /\ result' \in [Writers -> Completed \cup {"NONE", "EMPTY", "RAISED"}]
        /\ \A v \in Writers \ {w} : pc'[v] = pc[v]
    BY <1>1, RaiseFromType DEF LoseAnswer
  <2>4. /\ plan' \in [Writers -> [base : Nat \cup {Queued}, rows : SUBSET Events]]
        /\ todo' \in [Writers -> SUBSET Events]
        /\ sent' = [sent EXCEPT ![w] = {}]
        /\ attempt' \in [Writers -> 0..CommitRetries]
        /\ faults' \in 0..MaxFaults
    BY <1>1, ConfigAssumption DEF LoseAnswer, NoPlan
  <2>5. QED
    BY <1>1, <2>1, <2>2, <2>3, <2>4 DEF LoseAnswer
<1>2. ASSUME NEW w \in Writers, Crash(w)
      PROVE  TypeInv'
  <2>1. /\ lostMerges' \subseteq
              [table : Tables, run : Runs, events : SUBSET Events, base : Nat \cup {Queued}]
        /\ lostRunWrites' \subseteq [run : Runs, step : RunWriteSteps, row : RunRow]
    BY <1>2, BehindType DEF Crash
  <2>2. /\ plan' \in [Writers -> [base : Nat \cup {Queued}, rows : SUBSET Events]]
        /\ todo' \in [Writers -> SUBSET Events]
        /\ sent' = [sent EXCEPT ![w] = {}]
        /\ pc' = [pc EXCEPT ![w] = "idle"]
        /\ attempt' \in [Writers -> 0..CommitRetries]
        /\ faults' \in 0..MaxFaults
    BY <1>2, ConfigAssumption DEF Crash, NoPlan, Goto
  <2>3. QED
    BY <1>2, <2>1, <2>2 DEF Crash, Steps
<1>3. ASSUME NEW m \in lostMerges, LandMerge(m)
      PROVE  TypeInv'
  <2>1. m.table \in Tables /\ m.run \in Runs /\ Unmatched(m.table, m.events) \in SUBSET Events
    BY DEF Unmatched
  <2>2. /\ table' \in [Tables -> SUBSET Row]
        /\ \A u \in Tables : IsFiniteSet(table'[u])
        /\ version' \in [Tables -> Nat]
    BY <1>3, <2>1, CommitRowsType DEF LandMerge
  <2>3. QED
    BY <1>3, <2>2 DEF LandMerge
<1>4. ASSUME NEW x \in lostRunWrites, LandRunWrite(x)
      PROVE  TypeInv'
  <2>1. runs' \in [Runs -> RunRow]
    BY <1>4, ApplyRunWriteType DEF LandRunWrite
  <2>2. QED
    BY <1>4, <2>1 DEF LandRunWrite
<1>5. QED
  BY <1>1, <1>2, <1>3, <1>4

LEMMA TypeStep == TypeInv /\ [Next]_vars => TypeInv'
<1> SUFFICES ASSUME TypeInv, [Next]_vars PROVE TypeInv'
  OBVIOUS
<1>1. CASE Next
  BY <1>1, TypeLocalSteps, TypeCallSteps, TypeCommitSteps, TypeFaultSteps DEF Next, CallStep
<1>2. CASE UNCHANGED vars
  BY <1>2, Zenon DEF vars, server, client, history, TypeInv, TypeOK, InCall, MergeInTable
<1>3. QED
  BY <1>1, <1>2

\* Whatever calls, conflicts, lost answers and crashes follow one another, every variable
\* keeps its type: no call exceeds iceberg_commit_retries (_execute_write_on_connection).
THEOREM TypeCorrect == Spec => []TypeOK
<1>1. Spec => []TypeInv
  BY InitType, TypeStep, PTL DEF Spec
<1>2. TypeInv => TypeOK
  BY DEF TypeInv
<1>3. QED
  BY <1>1, <1>2, PTL

-------------------------------------------------------------------------------
(***************************************************************************)
(* One row per event.  The invariant alone says nothing of the MERGEs      *)
(* under way.  The strengthening says that a batch in hand names an event  *)
(* once, and that the rows a MERGE found missing are still missing if the  *)
(* snapshot it read is still the last one.                                 *)
(***************************************************************************)
MergesDistinct ==
  /\ \A w \in Writers : DistinctEvents(todo[w] \cup sent[w])
  /\ \A m \in lostMerges : DistinctEvents(m.events)

Fresh(w) ==
  /\ sent[w] = {} => plan[w] = NoPlan
  /\ plan[w].rows \subseteq sent[w]
  /\ sent[w] # {} => plan[w].base <= version[pc[w]]
  /\ sent[w] # {} /\ plan[w].base = version[pc[w]] =>
       plan[w].rows \subseteq Unmatched(pc[w], sent[w])

PlansFresh == \A w \in Writers : Fresh(w)

MergeInv == TypeInv /\ MergesDistinct /\ PlansFresh /\ OneRowPerEvent

LEMMA DistinctSubset ==
  ASSUME NEW S, NEW R \in SUBSET S, DistinctEvents(S)
  PROVE  DistinctEvents(R)
BY DEF DistinctEvents

\* A commit of distinct events that were missing adds one row for each.
LEMMA CommitKeepsOneRow ==
  ASSUME TypeOK, OneRowPerEvent, NEW t \in Tables, NEW S \in SUBSET Events, NEW r \in Runs,
         CommitRows(t, S, r), DistinctEvents(S), S \subseteq Unmatched(t, S)
  PROVE  OneRowPerEvent'
<1>1. CASE S = {}
  BY <1>1 DEF CommitRows, OneRowPerEvent
<1>2. CASE S # {}
  <2> DEFINE N == NewRows(S, r, version[t] + 1)
  <2>1. table' = [table EXCEPT ![t] = @ \cup N]
    BY <1>2 DEF CommitRows
  <2>2. \A n \in N : \E e \in S :
          n = [id |-> e.id, run |-> r, ok |-> e.ok, snap |-> version[t] + 1]
    BY DEF NewRows
  <2>3. \A n1, n2 \in N : n1.id = n2.id => n1 = n2
    BY <2>2 DEF DistinctEvents
  <2>4. \A n \in N : \A row \in table[t] : row.id # n.id
    BY <2>2 DEF Unmatched
  <2>5. \A r1, r2 \in table[t] \cup N : r1.id = r2.id => r1 = r2
    BY <2>3, <2>4 DEF OneRowPerEvent
  <2>6. \A u \in Tables : table'[u] = IF u = t THEN table[t] \cup N ELSE table[u]
    BY <2>1 DEF TypeOK
  <2> HIDE DEF N
  <2>7. QED
    BY <2>5, <2>6 DEF OneRowPerEvent
<1>3. QED
  BY <1>1, <1>2

\* A commit either changes nothing or makes every plan on its table stale.
LEMMA FreshAfterCommit ==
  ASSUME TypeInv, NEW v \in Writers, Fresh(v),
         NEW t \in Tables, NEW S \in SUBSET Events, NEW r \in Runs, CommitRows(t, S, r),
         pc'[v] = pc[v], sent'[v] = sent[v], plan'[v] = plan[v]
  PROVE  Fresh(v)'
<1>1. CASE S = {}
  BY <1>1 DEF CommitRows, Fresh, Unmatched
<1>2. CASE S # {}
  <2>1. /\ version' = [version EXCEPT ![t] = @ + 1]
        /\ \A u \in Tables : u # t => table'[u] = table[u]
    BY <1>2 DEF CommitRows, TypeInv, TypeOK
  <2>2. CASE sent[v] = {}
    BY <2>2 DEF Fresh
  <2>3. CASE sent[v] # {} /\ pc[v] = t
    <3>1. plan[v].base \in Int /\ version[t] \in Int /\ version'[t] = version[t] + 1
      BY <2>1 DEF TypeInv, TypeOK, Queued
    <3>2. plan[v].base <= version[t]
      BY <2>3 DEF Fresh
    <3>3. plan[v].base <= version'[t] /\ plan[v].base # version'[t]
      BY <3>1, <3>2
    <3>4. QED
      BY <2>3, <3>3 DEF Fresh
  <2>4. CASE sent[v] # {} /\ pc[v] # t
    <3>1. pc[v] \in Tables
      BY <2>4 DEF TypeInv, MergeInTable
    <3>2. table'[pc[v]] = table[pc[v]] /\ version'[pc[v]] = version[pc[v]]
      BY <2>1, <2>4, <3>1 DEF TypeInv, TypeOK
    <3>3. QED
      BY <3>2 DEF Fresh, Unmatched
  <2>5. QED
    BY <2>2, <2>3, <2>4
<1>3. QED
  BY <1>1, <1>2

LEMMA FreshFrame ==
  ASSUME NEW v \in Writers, Fresh(v), UNCHANGED <<table, version>>,
         pc'[v] = pc[v], sent'[v] = sent[v], plan'[v] = plan[v]
  PROVE  Fresh(v)'
BY DEF Fresh, Unmatched

\* A writer with no MERGE under way has nothing to be fresh about.
LEMMA FreshIdle ==
  ASSUME NEW v \in Writers, sent'[v] = {}, plan'[v] = NoPlan
  PROVE  Fresh(v)'
BY DEF Fresh, NoPlan

\* Steps outside the MERGEs: no batch, plan, row or statement left behind changes.
LEMMA KeepsMerges ==
  ASSUME MergeInv, UNCHANGED <<table, version, todo, sent, plan, lostMerges>>,
         \A v \in Writers : sent[v] # {} => pc'[v] = pc[v]
  PROVE  MergesDistinct' /\ PlansFresh' /\ OneRowPerEvent'
<1>1. MergesDistinct'
  BY DEF MergeInv, MergesDistinct
<1>2. OneRowPerEvent'
  BY DEF MergeInv, OneRowPerEvent
<1>3. ASSUME NEW v \in Writers
      PROVE  Fresh(v)'
  <2>1. Fresh(v)
    BY DEF MergeInv, PlansFresh
  <2>2. CASE sent[v] = {}
    BY <2>1, <2>2, FreshIdle DEF Fresh
  <2>3. CASE sent[v] # {}
    BY <2>1, <2>3, FreshFrame
  <2>4. QED
    BY <2>2, <2>3
<1>4. QED
  BY <1>1, <1>2, <1>3 DEF PlansFresh

\* Steps between two MERGEs of a writer, that give it other items to send.
LEMMA KeepsPlans ==
  ASSUME MergeInv, NEW w \in Writers, NEW S, DistinctEvents(S), sent[w] = {},
         UNCHANGED <<table, version, sent, plan, lostMerges>>,
         todo' = [todo EXCEPT ![w] = S],
         \A v \in Writers \ {w} : pc'[v] = pc[v]
  PROVE  MergesDistinct' /\ PlansFresh' /\ OneRowPerEvent'
<1>1. \A v \in Writers : todo'[v] = IF v = w THEN S ELSE todo[v]
  BY DEF MergeInv, TypeInv, TypeOK
<1>2. \A v \in Writers : DistinctEvents(todo'[v] \cup sent'[v])
  <2>1. S \cup sent[w] = S
    OBVIOUS
  <2>2. QED
    BY <1>1, <2>1 DEF MergeInv, MergesDistinct
<1>3. MergesDistinct'
  BY <1>2 DEF MergeInv, MergesDistinct
<1>4. OneRowPerEvent'
  BY DEF MergeInv, OneRowPerEvent
<1>5. ASSUME NEW v \in Writers
      PROVE  Fresh(v)'
  <2>1. Fresh(v)
    BY DEF MergeInv, PlansFresh
  <2>2. CASE v = w
    BY <2>1, <2>2, FreshIdle DEF Fresh
  <2>3. CASE v # w
    BY <2>1, <2>3, FreshFrame
  <2>4. QED
    BY <2>2, <2>3
<1>6. QED
  BY <1>3, <1>4, <1>5 DEF PlansFresh

\* The steps of a call before and after the MERGEs.
LEMMA MergeInvCallSteps ==
  ASSUME MergeInv, NEW w \in Writers
  PROVE  (\/ IngestNothing(w)
          \/ IngestUnidentified(w)
          \/ \E input \in Inputs : IngestEvents(w, input)
          \/ InsertRun(w)
          \/ CountCommitted(w)
          \/ CountQuarantined(w)
          \/ ReadSnapshot(w)
          \/ FinishRun(w)
          \/ RecordFailure(w)
          \/ ConflictRunWrite(w))
         => MergesDistinct' /\ PlansFresh' /\ OneRowPerEvent'
<1>1. sent[w] # {} => pc[w] \in Tables
  BY DEF MergeInv, TypeInv, MergeInTable
<1>2. ASSUME \/ IngestNothing(w)
             \/ IngestUnidentified(w)
             \/ \E input \in Inputs : IngestEvents(w, input)
             \/ InsertRun(w)
             \/ CountCommitted(w)
             \/ CountQuarantined(w)
             \/ ReadSnapshot(w)
             \/ FinishRun(w)
             \/ RecordFailure(w)
             \/ ConflictRunWrite(w)
      PROVE  /\ UNCHANGED <<table, version, todo, sent, plan, lostMerges>>
             /\ sent[w] = {}
             /\ \A v \in Writers \ {w} : pc'[v] = pc[v]
  <2> USE <1>1 DEF Tables, RunWriteSteps, MergeInv, TypeInv, TypeOK, Goto, server, client, history
  <2>1. CASE IngestNothing(w) \/ IngestUnidentified(w)
    BY <2>1 DEF IngestNothing, IngestUnidentified
  <2>2. CASE \E input \in Inputs : IngestEvents(w, input)
    BY <2>2 DEF IngestEvents
  <2>3. CASE InsertRun(w)
    BY <2>3 DEF InsertRun
  <2>4. CASE CountCommitted(w) \/ CountQuarantined(w) \/ ReadSnapshot(w)
    BY <2>4 DEF CountCommitted, CountQuarantined, ReadSnapshot
  <2>5. CASE FinishRun(w) \/ RecordFailure(w)
    BY <2>5 DEF FinishRun, RecordFailure, Return
  <2>6. CASE ConflictRunWrite(w)
    BY <2>6 DEF ConflictRunWrite, RaiseFrom, Return
  <2>7. QED
    BY <1>2, <2>1, <2>2, <2>3, <2>4, <2>5, <2>6
<1>3. QED
  BY <1>2, KeepsMerges

\* The steps that fill and empty the list of items to send.
LEMMA MergeInvItemSteps ==
  ASSUME MergeInv, NEW w \in Writers
  PROVE  AssertEventsFit(w) \/ NextTable(w) \/ RejectBatch(w)
         => MergesDistinct' /\ PlansFresh' /\ OneRowPerEvent'
<1> DEFINE items == Items(batchOf[run[w]])
<1>1. ASSUME AssertEventsFit(w) \/ NextTable(w) \/ RejectBatch(w)
      PROVE  /\ UNCHANGED <<table, version, sent, plan, lostMerges>>
             /\ sent[w] = {}
             /\ run[w] \in Runs
             /\ \A v \in Writers \ {w} : pc'[v] = pc[v]
  BY <1>1 DEF AssertEventsFit, NextTable, RejectBatch, RaiseTooLarge, Goto, MergeInv, TypeInv,
              TypeOK, InCall, MergeInTable, Tables, server, client, history
<1>2. ASSUME run[w] \in Runs
      PROVE  DistinctEvents(items) /\ \A t \in Tables : DistinctEvents(Destined(t, items))
  <2>1. batchOf[run[w]] \in Seq(Events)
    BY <1>2 DEF MergeInv, TypeInv, TypeOK
  <2>2. DistinctEvents(items)
    BY <2>1, ItemsDistinct
  <2>3. QED
    BY <2>2, DestinedSubset, DistinctSubset
<1>3. DistinctEvents({})
  BY DEF DistinctEvents
<1>4. ASSUME AssertEventsFit(w) \/ NextTable(w) \/ RejectBatch(w)
      PROVE  \E S : DistinctEvents(S) /\ todo' = [todo EXCEPT ![w] = S]
  <2>1. CASE AssertEventsFit(w)
    BY <1>1, <1>2, <1>3, <2>1 DEF AssertEventsFit, RaiseTooLarge
  <2>2. CASE NextTable(w)
    BY <1>1, <1>2, <1>3, <2>2 DEF NextTable
  <2>3. CASE RejectBatch(w)
    BY <1>3, <2>3 DEF RejectBatch, RaiseTooLarge
  <2>4. QED
    BY <1>4, <2>1, <2>2, <2>3
<1>5. QED
  BY <1>1, <1>4, KeepsPlans

\* A batch is sent, planned, or loses against another commit.
LEMMA MergeInvSendSteps ==
  ASSUME MergeInv, NEW w \in Writers
  PROVE  (\/ \E batch \in SUBSET todo[w] : SendBatch(w, batch)
          \/ PlanMerge(w)
          \/ ConflictMerge(w))
         => MergesDistinct' /\ PlansFresh' /\ OneRowPerEvent'
<1> DEFINE Goal == MergesDistinct' /\ PlansFresh' /\ OneRowPerEvent'
<1>1. DistinctEvents(todo[w] \cup sent[w]) /\ Fresh(w)
  BY DEF MergeInv, MergesDistinct, PlansFresh
<1>2. ASSUME UNCHANGED <<table, version, lostMerges>>,
             DistinctEvents(todo'[w] \cup sent'[w]),
             Fresh(w)',
             \A v \in Writers \ {w} : /\ pc'[v] = pc[v]
                                      /\ todo'[v] = todo[v]
                                      /\ sent'[v] = sent[v]
                                      /\ plan'[v] = plan[v]
      PROVE  Goal
  <2>1. MergesDistinct'
    BY <1>2 DEF MergeInv, MergesDistinct
  <2>2. OneRowPerEvent'
    BY <1>2 DEF MergeInv, OneRowPerEvent
  <2>3. \A v \in Writers \ {w} : Fresh(v)'
    BY <1>2, FreshFrame DEF MergeInv, PlansFresh
  <2>4. QED
    BY <1>2, <2>1, <2>2, <2>3 DEF PlansFresh
<1>3. ASSUME NEW batch \in SUBSET todo[w], SendBatch(w, batch) PROVE Goal
  <2>1. /\ pc[w] \in Tables
        /\ pc' = pc /\ plan' = plan
        /\ UNCHANGED <<table, version, lostMerges>>
        /\ todo' = [todo EXCEPT ![w] = @ \ batch]
        /\ sent' = [sent EXCEPT ![w] = batch]
        /\ sent[w] = {}
    BY <1>3 DEF SendBatch, server
  <2>2. todo'[w] \cup sent'[w] = todo[w]
    BY <2>1 DEF MergeInv, TypeInv, TypeOK
  <2>3. plan'[w] = NoPlan
    BY <1>1, <2>1 DEF Fresh
  <2>4. version'[pc'[w]] \in Nat
    BY <2>1 DEF MergeInv, TypeInv, TypeOK
  <2>5. Fresh(w)'
    BY <2>1, <2>3, <2>4 DEF Fresh, NoPlan, Queued, MergeInv, TypeInv, TypeOK
  <2>6. DistinctEvents(todo'[w] \cup sent'[w])
    BY <1>1, <2>1, <2>2
  <2>7. QED
    BY <1>2, <2>1, <2>5, <2>6 DEF MergeInv, TypeInv, TypeOK
<1>4. ASSUME PlanMerge(w) PROVE Goal
  <2>1. /\ pc' = pc /\ todo' = todo /\ sent' = sent
        /\ UNCHANGED <<table, version, lostMerges>>
        /\ plan' = [plan EXCEPT ![w] = [base |-> version[pc[w]],
                                        rows |-> Unmatched(pc[w], sent[w])]]
        /\ sent[w] # {}
    BY <1>4 DEF PlanMerge, server
  <2>2. pc[w] \in Tables
    BY <2>1 DEF MergeInv, TypeInv, MergeInTable
  <2>3. version[pc[w]] \in Nat
    BY <2>2 DEF MergeInv, TypeInv, TypeOK
  <2>4. plan'[w] = [base |-> version[pc[w]], rows |-> Unmatched(pc[w], sent[w])]
    BY <2>1 DEF MergeInv, TypeInv, TypeOK
  <2>5. Fresh(w)'
    BY <2>1, <2>3, <2>4 DEF Fresh, Unmatched
  <2>6. QED
    BY <1>1, <1>2, <2>1, <2>5 DEF MergeInv, TypeInv, TypeOK
<1>5. ASSUME ConflictMerge(w) PROVE Goal
  <2>1. /\ UNCHANGED <<table, version, lostMerges>>
        /\ sent[w] # {}
        /\ plan' = [plan EXCEPT ![w] = NoPlan]
        /\ \/ pc' = pc /\ todo' = todo /\ sent' = sent
           \/ /\ pc' = [pc EXCEPT ![w] = "record_failure"]
              /\ todo' = [todo EXCEPT ![w] = {}]
              /\ sent' = [sent EXCEPT ![w] = {}]
    BY <1>5 DEF ConflictMerge, Goto, server
  <2>2. pc[w] \in Tables /\ version[pc[w]] \in Nat
    BY <2>1 DEF MergeInv, TypeInv, TypeOK, MergeInTable
  <2>3. plan'[w] = NoPlan
    BY <2>1 DEF MergeInv, TypeInv, TypeOK
  <2>4. Fresh(w)'
    <3>1. CASE sent'[w] = {}
      BY <2>3, <3>1, FreshIdle
    <3>2. CASE sent'[w] # {}
      <4>1. pc'[w] = pc[w]
        BY <2>1, <3>2 DEF MergeInv, TypeInv, TypeOK
      <4>2. QED
        BY <2>1, <2>2, <2>3, <4>1 DEF Fresh, NoPlan, Queued
    <3>3. QED
      BY <3>1, <3>2
  <2>5. todo'[w] \cup sent'[w] \subseteq todo[w] \cup sent[w]
    BY <2>1 DEF MergeInv, TypeInv, TypeOK
  <2>6. DistinctEvents(todo'[w] \cup sent'[w])
    BY <1>1, <2>5, DistinctSubset
  <2>7. QED
    BY <1>2, <2>1, <2>4, <2>6 DEF MergeInv, TypeInv, TypeOK
<1>6. QED
  BY <1>3, <1>4, <1>5

\* A MERGE commits and is answered.
LEMMA MergeInvCommit ==
  ASSUME MergeInv, NEW w \in Writers, CommitMerge(w)
  PROVE  MergesDistinct' /\ PlansFresh' /\ OneRowPerEvent'
<1> DEFINE t == pc[w]
           S == plan[w].rows
<1>1. /\ t \in Tables
      /\ run[w] \in Runs
      /\ S \in SUBSET Events
      /\ Fresh(w)
      /\ DistinctEvents(todo[w] \cup sent[w])
  BY DEF CommitMerge, MergeInv, TypeInv, TypeOK, InCall, MergeInTable, MergesDistinct,
         PlansFresh, Tables
<1>2. /\ CommitRows(t, S, run[w])
      /\ UNCHANGED <<pc, todo, lostMerges>>
      /\ sent' = [sent EXCEPT ![w] = {}]
      /\ plan' = [plan EXCEPT ![w] = NoPlan]
  BY DEF CommitMerge
<1>3. S \subseteq sent[w] /\ S \subseteq Unmatched(t, S)
  BY <1>1 DEF CommitMerge, Fresh, Unmatched
<1>4. DistinctEvents(S)
  BY <1>1, <1>3, DistinctSubset
<1>5. OneRowPerEvent'
  BY <1>1, <1>2, <1>3, <1>4, CommitKeepsOneRow DEF MergeInv, TypeInv
<1>6. \A v \in Writers : todo'[v] \cup sent'[v] \subseteq todo[v] \cup sent[v]
  BY <1>2 DEF MergeInv, TypeInv, TypeOK
<1>7. MergesDistinct'
  BY <1>2, <1>6, DistinctSubset DEF MergeInv, MergesDistinct
<1>8. ASSUME NEW v \in Writers
      PROVE  Fresh(v)'
  <2>1. CASE v = w
    BY <1>2, <2>1, FreshIdle DEF MergeInv, TypeInv, TypeOK
  <2>2. CASE v # w
    <3>1. pc'[v] = pc[v] /\ sent'[v] = sent[v] /\ plan'[v] = plan[v]
      BY <1>2, <2>2 DEF MergeInv, TypeInv, TypeOK
    <3>2. TypeInv /\ Fresh(v)
      BY DEF MergeInv, PlansFresh
    <3>3. QED
      BY <1>1, <1>2, <3>1, <3>2, FreshAfterCommit
  <2>3. QED
    BY <2>1, <2>2
<1>9. QED
  BY <1>5, <1>7, <1>8 DEF PlansFresh

\* A fault leaves the batch in hand behind.
LEMMA MergeInvFault ==
  ASSUME MergeInv, NEW w \in Writers, LoseAnswer(w) \/ Crash(w)
  PROVE  MergesDistinct' /\ PlansFresh' /\ OneRowPerEvent'
<1>1. /\ UNCHANGED <<table, version>>
      /\ LeaveStatementBehind(w)
      /\ sent' = [sent EXCEPT ![w] = {}]
      /\ todo' = [todo EXCEPT ![w] = {}]
      /\ plan' = [plan EXCEPT ![w] = NoPlan]
      /\ \A v \in Writers \ {w} : pc'[v] = pc[v]
  BY DEF LoseAnswer, Crash, RaiseFrom, Return, Goto, MergeInv, TypeInv, TypeOK
<1>2. \A v \in Writers : todo'[v] \cup sent'[v] \subseteq todo[v] \cup sent[v]
  BY <1>1 DEF MergeInv, TypeInv, TypeOK
<1>3. DistinctEvents(sent[w])
  BY DEF MergeInv, MergesDistinct, DistinctEvents
<1>4. \A m \in lostMerges' : m \in lostMerges \/ m.events = sent[w]
  BY <1>1 DEF LeaveStatementBehind
<1>5. MergesDistinct'
  <2>1. \A v \in Writers : DistinctEvents(todo[v] \cup sent[v])
    BY DEF MergeInv, MergesDistinct
  <2>2. \A v \in Writers : DistinctEvents(todo'[v] \cup sent'[v])
    BY <1>2, <2>1 DEF DistinctEvents
  <2>3. \A m \in lostMerges' : DistinctEvents(m.events)
    BY <1>3, <1>4 DEF MergeInv, MergesDistinct
  <2>4. QED
    BY <2>2, <2>3 DEF MergesDistinct
<1>6. OneRowPerEvent'
  BY <1>1 DEF MergeInv, OneRowPerEvent
<1>7. ASSUME NEW v \in Writers
      PROVE  Fresh(v)'
  <2>1. CASE v = w
    BY <1>1, <2>1, FreshIdle DEF MergeInv, TypeInv, TypeOK
  <2>2. CASE v # w
    <3>1. pc'[v] = pc[v] /\ sent'[v] = sent[v] /\ plan'[v] = plan[v]
      BY <1>1, <2>2 DEF MergeInv, TypeInv, TypeOK
    <3>2. Fresh(v)
      BY DEF MergeInv, PlansFresh
    <3>3. QED
      BY <1>1, <3>1, <3>2, FreshFrame
  <2>3. QED
    BY <2>1, <2>2
<1>8. QED
  BY <1>5, <1>6, <1>7 DEF PlansFresh

\* A statement left behind commits.
LEMMA MergeInvLand ==
  ASSUME MergeInv,
         \/ \E m \in lostMerges : LandMerge(m)
         \/ \E x \in lostRunWrites : LandRunWrite(x)
  PROVE  MergesDistinct' /\ PlansFresh' /\ OneRowPerEvent'
<1>1. ASSUME NEW m \in lostMerges, LandMerge(m)
      PROVE  MergesDistinct' /\ PlansFresh' /\ OneRowPerEvent'
  <2> DEFINE S == Unmatched(m.table, m.events)
  <2>1. /\ m.table \in Tables /\ m.run \in Runs /\ m.events \in SUBSET Events
        /\ DistinctEvents(m.events)
    BY DEF MergeInv, TypeInv, TypeOK, MergesDistinct
  <2>2. S \in SUBSET Events /\ S \subseteq Unmatched(m.table, S) /\ S \subseteq m.events
    BY <2>1 DEF Unmatched
  <2>3. DistinctEvents(S)
    BY <2>1, <2>2, DistinctSubset
  <2>4. /\ CommitRows(m.table, S, m.run)
        /\ UNCHANGED <<pc, todo, sent, plan>>
        /\ lostMerges' \subseteq lostMerges
    BY <1>1 DEF LandMerge, client
  <2>5. OneRowPerEvent'
    BY <2>1, <2>2, <2>3, <2>4, CommitKeepsOneRow DEF MergeInv, TypeInv
  <2>6. MergesDistinct'
    BY <2>4 DEF MergeInv, MergesDistinct
  <2>7. ASSUME NEW v \in Writers
        PROVE  Fresh(v)'
    <3>1. TypeInv /\ Fresh(v)
      BY DEF MergeInv, PlansFresh
    <3>2. QED
      BY <2>1, <2>2, <2>4, <3>1, FreshAfterCommit
  <2>8. QED
    BY <2>5, <2>6, <2>7 DEF PlansFresh
<1>2. ASSUME NEW x \in lostRunWrites, LandRunWrite(x)
      PROVE  MergesDistinct' /\ PlansFresh' /\ OneRowPerEvent'
  BY <1>2, KeepsMerges DEF LandRunWrite, client
<1>3. QED
  BY <1>1, <1>2

LEMMA MergeInvInit == Init => MergeInv
<1> SUFFICES ASSUME Init PROVE MergeInv
  OBVIOUS
<1>1. MergesDistinct
  BY DEF Init, MergesDistinct, DistinctEvents
<1>2. PlansFresh
  BY DEF Init, PlansFresh, Fresh, NoPlan
<1>3. OneRowPerEvent
  BY DEF Init, OneRowPerEvent
<1>4. QED
  BY <1>1, <1>2, <1>3, InitType DEF MergeInv

LEMMA MergeInvStep == MergeInv /\ [Next]_vars => MergeInv'
<1> SUFFICES ASSUME MergeInv, [Next]_vars PROVE MergeInv'
  OBVIOUS
<1>1. TypeInv'
  BY TypeStep DEF MergeInv
<1>2. CASE Next
  BY <1>1, <1>2, MergeInvCallSteps, MergeInvItemSteps, MergeInvSendSteps, MergeInvCommit,
     MergeInvFault, MergeInvLand DEF Next, CallStep, MergeInv
<1>3. CASE UNCHANGED vars
  BY <1>1, <1>3, KeepsMerges DEF vars, server, client, MergeInv
<1>4. QED
  BY <1>2, <1>3

\* For any number of writers, batches, conflicts, retries, lost answers and crashes, no
\* table ever holds two rows of one event_id (_merge_batch).
THEOREM NoDuplicateRows == Spec => []OneRowPerEvent
<1>1. Spec => []MergeInv
  BY MergeInvInit, MergeInvStep, PTL DEF Spec
<1>2. MergeInv => OneRowPerEvent
  BY DEF MergeInv
<1>3. QED
  BY <1>1, <1>2, PTL

-------------------------------------------------------------------------------
(***************************************************************************)
(* The size checks.  TrinoIngest assumes that what _merge_batches takes    *)
(* has passed _assert_events_fit (SizesAssumption); MergeSizes has the two *)
(* checks, for every event and every ULPF_TRINO_MAX_QUERY_BYTES.           *)
(***************************************************************************)

\* The bytes that _merge_batches counts and _assert_events_fit does not.
Gap(layout) == InsertsBytes(layout) - 258

LEMMA GapsAre ==
  /\ Gap(Layout["raw_events"]) = 21
  /\ Gap(Layout["application_logs"]) = 536
  /\ Gap(Layout["quarantine_events"]) = 60
BY DEF Gap, InsertsBytes, Layout

\* An event passes _assert_events_fit exactly when _merge_batches would take it with Gap
\* bytes more to spend.
LEMMA AssertIsLooser ==
  ASSUME NEW name \in Nat, NEW columns \in Nat, NEW aliases \in Nat,
         NEW v \in Nat, NEW maxQueryBytes \in Nat
  PROVE  LET layout == [name |-> name, columns |-> columns, aliases |-> aliases]
         IN  AssertAccepts(layout, v, maxQueryBytes)
               <=> MergeAccepts(layout, v, maxQueryBytes + Gap(layout))
BY DEF AssertAccepts, MergeAccepts, Gap, EventBytes, FixedBytes, InsertsBytes, ValueGroupBytes

\* On each of the three tables what _merge_batches takes has passed _assert_events_fit (the
\* assumption TrinoIngest makes), and there are events that pass the second and not the
\* first: the pre-check cannot keep _merge_batches from raising.
THEOREM SizeChecksDiffer ==
  ASSUME NEW t \in {"raw_events", "application_logs", "quarantine_events"},
         NEW maxQueryBytes \in Nat, maxQueryBytes >= 10000
  PROVE  /\ \A v \in Nat : MergeAccepts(Layout[t], v, maxQueryBytes)
                             => AssertAccepts(Layout[t], v, maxQueryBytes)
         /\ \E v \in Nat : /\ AssertAccepts(Layout[t], v, maxQueryBytes)
                           /\ ~ MergeAccepts(Layout[t], v, maxQueryBytes)
<1> DEFINE overhead == ValueGroupBytes(Layout[t]) + FixedBytes(Layout[t])
           largest == maxQueryBytes - overhead
<1>1. overhead \in Nat /\ overhead <= 4000
  BY DEF ValueGroupBytes, FixedBytes, InsertsBytes, Layout
<1>2. \A v \in Nat : MergeAccepts(Layout[t], v, maxQueryBytes) <=> v <= largest
  BY <1>1 DEF MergeAccepts, EventBytes, ValueGroupBytes, FixedBytes, InsertsBytes, Layout
<1>3. \A v \in Nat : AssertAccepts(Layout[t], v, maxQueryBytes)
                       <=> v <= largest + Gap(Layout[t])
  BY DEF AssertAccepts, Gap, ValueGroupBytes, FixedBytes, InsertsBytes, Layout
<1>4. Gap(Layout[t]) \in Nat /\ Gap(Layout[t]) >= 21
  BY GapsAre
<1>5. largest + 1 \in Nat
  BY <1>1
<1> HIDE DEF largest
<1>6. largest \in Int
  BY <1>5, <1>1 DEF largest
<1>7. largest + 1 <= largest + Gap(Layout[t]) /\ ~ (largest + 1 <= largest)
  BY <1>4, <1>6
<1>8. \A v \in Nat : v <= largest => v <= largest + Gap(Layout[t])
  BY <1>4, <1>6
<1>9. QED
  BY <1>2, <1>3, <1>5, <1>7, <1>8

-------------------------------------------------------------------------------
(***************************************************************************)
(* What the row of a run in ingestion_runs is worth: proofs that a         *)
(* completed row is backed by the tables, that it accounts for its batch,  *)
(* that its snapshot covers its rows, that a result stands once it was     *)
(* returned, and that TrinoIngest implements EventStore.                   *)
(*                                                                         *)
(* The argument follows a run through its call.  Until its row is written  *)
(* for good the call is clean: nothing of it was left behind in Trino,     *)
(* since a lost answer leads to the except branch.  When all tables are    *)
(* written the run is settled: no statement under way or left behind can   *)
(* add a row to it, so the counts that the call reads back stay true.      *)
(***************************************************************************)
-------------------------------------------------------------------------------
(***************************************************************************)
(* A run and its rows.                                                     *)
(***************************************************************************)
BatchItems(r) == Items(batchOf[r])
RowsOfRun(t, r) == {row \in table[t] : row.run = r}

\* The event has a row in t, of whatever run.
Present(t, e) == \E row \in table[t] : row.id = e.id
AllPresent(t, S) == \A e \in S : Present(t, e)

\* The steps at which rows of the run may still be written, and those behind them.
Writing == {"insert_run", "assert_fit"} \cup Tables
Counting == {"count_committed", "count_quarantined", "read_snapshot", "finish_run"}
Recorded == {"assert_fit"} \cup Tables \cup Counting   \* the RUNNING row was acknowledged

\* The tables that a call at this step has finished.
Written(step) ==
  {t \in Tables : \/ step \in Counting
                  \/ t = "raw_events" /\ step \in {"application_logs", "quarantine_events"}
                  \/ t = "application_logs" /\ step = "quarantine_events"}

\* No row of run r can be added any more.
Settled(r) ==
  /\ \A m \in lostMerges : m.run # r
  /\ \A w \in Writers : run[w] = r => pc[w] \notin Writing

\* The row is what the tables say of run r.
Accounts(r, row) ==
  /\ row.received = Len(batchOf[r])
  /\ row.committed = CountForRun("application_logs", r)
  /\ row.quarantined = CountForRun("quarantine_events", r)
  /\ row.duplicates = row.received - row.committed - row.quarantined
  /\ row.status = "COMPLETED" <=> row.quarantined = 0
Backed(r) == \A t \in Tables : AllPresent(t, Destined(t, BatchItems(r)))
Covers(r, row) == \A x \in RowsOfRun("application_logs", r) : x.snap <= row.snapshot

Claim(r, row) ==
  r < nextRun /\ Settled(r) /\ Accounts(r, row) /\ Backed(r) /\ Covers(r, row)

-------------------------------------------------------------------------------
(***************************************************************************)
(* The invariant.                                                          *)
(***************************************************************************)

\* A run belongs to one call, and nothing speaks of a run that has not begun.
RunsNumbered ==
  /\ \A v, w \in Writers : pc[v] # "idle" /\ pc[w] # "idle" /\ run[v] = run[w] => v = w
  /\ \A w \in Writers : run[w] < nextRun
  /\ \A m \in lostMerges : m.run < nextRun
  /\ \A x \in lostRunWrites : x.run < nextRun
  /\ \A res \in returned : res.run < nextRun
  /\ \A r \in Runs : r >= nextRun => runs[r] = NoRow
  /\ \A t \in Tables : \A row \in table[t] : row.run < nextRun

\* Up to its final write, a call has left nothing behind.
Clean(w) ==
  /\ pc[w] \in {"insert_run"} \cup Recorded =>
       /\ \A m \in lostMerges : m.run # run[w]
       /\ \A x \in lostRunWrites : x.run # run[w]
  /\ pc[w] = "insert_run" => runs[run[w]] = NoRow
  /\ pc[w] \in Recorded => runs[run[w]].status = "RUNNING"

\* The events of the batch are in the tables that are finished, and those of the table
\* that is written are in it, under way or still to be sent.
Delivers(w) ==
  /\ pc[w] \in Tables =>
       /\ todo[w] \cup sent[w] \subseteq Destined(pc[w], BatchItems(run[w]))
       /\ AllPresent(pc[w], Destined(pc[w], BatchItems(run[w])) \ (todo[w] \cup sent[w]))
       /\ sent[w] # {} /\ plan[w] # NoPlan => AllPresent(pc[w], sent[w] \ plan[w].rows)
  /\ \A t \in Written(pc[w]) : AllPresent(t, Destined(t, BatchItems(run[w])))

\* What was read back is still so.
Counts(w) ==
  /\ pc[w] \in {"count_quarantined", "read_snapshot", "finish_run"} =>
       tally[w].committed = CountForRun("application_logs", run[w])
  /\ pc[w] \in {"read_snapshot", "finish_run"} =>
       tally[w].quarantined = CountForRun("quarantine_events", run[w])
  /\ pc[w] = "finish_run" => Covers(run[w], tally[w])

CallInv == \A w \in Writers : Clean(w) /\ Delivers(w) /\ Counts(w)

\* Every row comes from the batch of its run and has its original beside it.
RowsInv ==
  /\ \A t \in Tables : \A row \in table[t] :
       /\ \E e \in Destined(t, BatchItems(row.run)) : e.id = row.id
       /\ row.snap <= version[t]
       /\ Present("raw_events", row)
  /\ \A m \in lostMerges :
       /\ m.events \subseteq Destined(m.table, BatchItems(m.run))
       /\ m.table # "raw_events" => AllPresent("raw_events", m.events)

\* Rows that say completed, stored or left behind, are true.
ClaimsInv ==
  /\ \A r \in Runs : runs[r].status \in Completed => Claim(r, runs[r])
  /\ \A x \in lostRunWrites : x.row.status \in Completed => Claim(x.run, x.row)

\* A returned run is over: no call and no statement writes its row.
ReturnsInv ==
  \A res \in returned :
    /\ runs[res.run] = res.row
    /\ res.row.status \in Completed
    /\ \A w \in Writers : pc[w] # "idle" => run[w] # res.run
    /\ \A x \in lostRunWrites : x.run # res.run

RunInv == MergeInv /\ RunsNumbered /\ CallInv /\ RowsInv /\ ClaimsInv /\ ReturnsInv

-------------------------------------------------------------------------------
(***************************************************************************)
(* What a step does, whichever action it is.                               *)
(***************************************************************************)

\* Rows are only added, by the MERGE of a writer or by one that was left behind.
TablesStep ==
  \A t \in Tables :
    /\ table[t] \subseteq table'[t]
    /\ version[t] <= version'[t]
    /\ \A row \in table'[t] \ table[t] :
         /\ row.snap = version'[t]
         /\ \/ \E w \in Writers :
                 pc[w] = t /\ run[w] = row.run /\ \E e \in sent[w] : e.id = row.id
            \/ \E m \in lostMerges :
                 m.table = t /\ m.run = row.run /\ \E e \in m.events : e.id = row.id

\* The row of a run is written by its call or by a write that was left behind.
RunsStep ==
  \A r \in Runs :
    \/ runs'[r] = runs[r]
    \/ \E w \in Writers : /\ pc[w] \in RunWriteSteps /\ pc'[w] # pc[w]
                          /\ run[w] = r /\ runs'[r] = RunWrite(w).row
    \/ \E x \in lostRunWrites : x.run = r /\ runs'[r] = x.row

\* A statement is left behind by a call that ends or goes to its except branch.
LostStep ==
  /\ \A m \in lostMerges' :
       \/ m \in lostMerges
       \/ \E w \in Writers : /\ sent[w] # {} /\ pc'[w] \in {"idle", "record_failure"}
                             /\ m.table = pc[w] /\ m.run = run[w] /\ m.events = sent[w]
  /\ \A x \in lostRunWrites' :
       \/ x \in lostRunWrites
       \/ \E w \in Writers : /\ pc[w] \in RunWriteSteps /\ pc'[w] # pc[w]
                             /\ pc'[w] \in {"idle", "record_failure"} /\ x = RunWrite(w)

\* A call begins with a fresh run, or every call keeps its run and goes forward.
Begins(w) ==
  /\ pc[w] = "idle" /\ pc'[w] = "insert_run"
  /\ run'[w] = nextRun /\ nextRun' = nextRun + 1
  /\ \A v \in Writers \ {w} : pc'[v] = pc[v] /\ run'[v] = run[v]

Forward ==
  /\ nextRun' = nextRun
  /\ run' = run
  /\ \A w \in Writers : /\ pc'[w] \in Writing => pc[w] \in Writing
                        /\ pc'[w] # "idle" => pc[w] # "idle"

ControlStep ==
  /\ Forward \/ \E w \in Writers : Begins(w)
  /\ \A r \in Runs : r < nextRun => batchOf'[r] = batchOf[r]

\* A result is returned by a call that ends and leaves its row as it said.
ReturnsStep ==
  \A res \in returned' :
    \/ res \in returned
    \/ \E w \in Writers :
         /\ pc[w] = "finish_run" /\ pc'[w] = "idle"
         /\ res = [run |-> run[w], row |-> RunWrite(w).row]
         /\ ApplyRunWrite(RunWrite(w))
         /\ UNCHANGED lostRunWrites

\* Rows of run r for events of S, and for all of them, are added to t alone.
Extended(t, S, r) ==
  /\ \A u \in Tables : table[u] \subseteq table'[u] /\ version[u] <= version'[u]
  /\ \A u \in Tables : u # t => table'[u] = table[u]
  /\ \A row \in table'[t] \ table[t] :
       row.snap = version'[t] /\ row.run = r /\ \E e \in S : e.id = row.id
  /\ \A e \in S : \E row \in table'[t] : row.id = e.id

\* A commit on t for run r.
LEMMA CommitEffect ==
  ASSUME TypeInv, NEW t \in Tables, NEW S \in SUBSET Events, NEW r \in Runs, CommitRows(t, S, r)
  PROVE  Extended(t, S, r)
<1> USE DEF Extended
<1>1. CASE S = {}
  BY <1>1 DEF CommitRows, TypeInv, TypeOK
<1>2. CASE S # {}
  <2> DEFINE N == NewRows(S, r, version[t] + 1)
  <2>1. /\ version' = [version EXCEPT ![t] = @ + 1]
        /\ table' = [table EXCEPT ![t] = @ \cup N]
    BY <1>2 DEF CommitRows
  <2>2. \A u \in Tables : table'[u] = IF u = t THEN table[t] \cup N ELSE table[u]
    BY <2>1 DEF TypeInv, TypeOK
  <2>3. \A u \in Tables : version'[u] = IF u = t THEN version[t] + 1 ELSE version[u]
    BY <2>1 DEF TypeInv, TypeOK
  <2>4. \A u \in Tables : version[u] \in Nat
    BY DEF TypeInv, TypeOK
  <2>5. \A n \in N : \E e \in S :
          n = [id |-> e.id, run |-> r, ok |-> e.ok, snap |-> version[t] + 1]
    BY DEF NewRows
  <2>6. ASSUME NEW e \in S PROVE \E n \in N : n.id = e.id
    <3>1. [id |-> e.id, run |-> r, ok |-> e.ok, snap |-> version[t] + 1] \in N
      BY DEF NewRows
    <3>2. QED
      BY <3>1
  <2> HIDE DEF N
  <2>7. \A u \in Tables : table[u] \subseteq table'[u] /\ version[u] <= version'[u]
    BY <2>2, <2>3, <2>4
  <2>8. \A row \in table'[t] \ table[t] :
          row.snap = version'[t] /\ row.run = r /\ \E e \in S : e.id = row.id
    BY <2>2, <2>3, <2>5
  <2>9. \A e \in S : \E row \in table'[t] : row.id = e.id
    BY <2>2, <2>6
  <2>10. QED
    BY <2>2, <2>7, <2>8, <2>9
<1>3. QED
  BY <1>1, <1>2

\* Every action adds rows, if any, as TablesStep says.
LEMMA TablesSteps == MergeInv /\ [Next]_vars => TablesStep
<1> SUFFICES ASSUME MergeInv, [Next]_vars PROVE TablesStep
  OBVIOUS
<1>0. TypeInv
  BY DEF MergeInv
<1>1. ASSUME NEW w \in Writers, CommitMerge(w) PROVE TablesStep
  <2>1. /\ pc[w] \in Tables /\ run[w] \in Runs /\ plan[w].rows \in SUBSET Events
        /\ plan[w].rows \subseteq sent[w]
    BY <1>1 DEF CommitMerge, MergeInv, TypeInv, TypeOK, InCall, MergeInTable, PlansFresh,
                Fresh, Tables
  <2>2. CommitRows(pc[w], plan[w].rows, run[w])
    BY <1>1 DEF CommitMerge
  <2>3. Extended(pc[w], plan[w].rows, run[w])
    BY <1>0, <2>1, <2>2, CommitEffect
  <2>4. ASSUME NEW t \in Tables, NEW row \in table'[t] \ table[t]
        PROVE  /\ row.snap = version'[t]
               /\ pc[w] = t /\ run[w] = row.run /\ \E e \in sent[w] : e.id = row.id
    <3>1. t = pc[w]
      BY <2>3, <2>4 DEF Extended
    <3>2. PICK e \in plan[w].rows : e.id = row.id
      BY <2>3, <2>4, <3>1 DEF Extended
    <3>3. e \in sent[w]
      BY <2>1, <3>2
    <3>4. QED
      BY <2>3, <2>4, <3>1, <3>2, <3>3 DEF Extended
  <2>5. QED
    BY <2>3, <2>4 DEF TablesStep, Extended
<1>2. ASSUME NEW m \in lostMerges, LandMerge(m) PROVE TablesStep
  <2> DEFINE S == Unmatched(m.table, m.events)
  <2>1. m.table \in Tables /\ m.run \in Runs /\ S \in SUBSET Events /\ S \subseteq m.events
    BY <1>0 DEF TypeInv, TypeOK, Unmatched
  <2>2. CommitRows(m.table, S, m.run)
    BY <1>2 DEF LandMerge
  <2> HIDE DEF S
  <2>3. Extended(m.table, S, m.run)
    BY <1>0, <2>1, <2>2, CommitEffect
  <2>4. ASSUME NEW t \in Tables, NEW row \in table'[t] \ table[t]
        PROVE  /\ row.snap = version'[t]
               /\ m.table = t /\ m.run = row.run /\ \E e \in m.events : e.id = row.id
    <3>1. t = m.table
      BY <2>3, <2>4 DEF Extended
    <3>2. PICK e \in S : e.id = row.id
      BY <2>3, <2>4, <3>1 DEF Extended
    <3>3. e \in m.events
      BY <2>1, <3>2
    <3>4. QED
      BY <2>3, <2>4, <3>1, <3>2, <3>3 DEF Extended
  <2>5. QED
    BY <2>3, <2>4 DEF TablesStep, Extended
<1>3. ASSUME UNCHANGED <<table, version>> PROVE TablesStep
  BY <1>0, <1>3 DEF TablesStep, TypeInv, TypeOK
<1>4. ASSUME NEW w \in Writers,
             \/ IngestNothing(w) \/ IngestUnidentified(w)
             \/ \E input \in Inputs : IngestEvents(w, input)
             \/ InsertRun(w) \/ AssertEventsFit(w)
             \/ \E batch \in SUBSET todo[w] : SendBatch(w, batch)
             \/ RejectBatch(w) \/ NextTable(w) \/ PlanMerge(w) \/ ConflictMerge(w)
      PROVE  UNCHANGED <<table, version>>
  BY <1>4 DEF IngestNothing, IngestUnidentified, IngestEvents, InsertRun, AssertEventsFit,
              RaiseTooLarge, SendBatch, RejectBatch, NextTable, PlanMerge, ConflictMerge, server
<1>5. ASSUME NEW w \in Writers,
             \/ CountCommitted(w) \/ CountQuarantined(w) \/ ReadSnapshot(w)
             \/ FinishRun(w) \/ RecordFailure(w) \/ ConflictRunWrite(w)
             \/ LoseAnswer(w) \/ Crash(w)
      PROVE  UNCHANGED <<table, version>>
  BY <1>5 DEF CountCommitted, CountQuarantined, ReadSnapshot, FinishRun, RecordFailure,
              ConflictRunWrite, LoseAnswer, Crash, server
<1>6. ASSUME NEW x \in lostRunWrites, LandRunWrite(x)
      PROVE  UNCHANGED <<table, version>>
  BY <1>6 DEF LandRunWrite
<1>7. CASE Next
  BY <1>1, <1>2, <1>3, <1>4, <1>5, <1>6, <1>7 DEF Next, CallStep
<1>8. CASE UNCHANGED vars
  BY <1>3, <1>8 DEF vars, server
<1>9. QED
  BY <1>7, <1>8
\* Every action writes rows of runs, if any, as RunsStep says.
LEMMA RunsSteps == TypeInv /\ [Next]_vars => RunsStep
<1> SUFFICES ASSUME TypeInv, [Next]_vars PROVE RunsStep
  OBVIOUS
<1>1. ASSUME NEW w \in Writers, pc[w] \in RunWriteSteps, pc'[w] # pc[w],
             ApplyRunWrite(RunWrite(w))
      PROVE  RunsStep
  <2>1. RunWrite(w).run = run[w]
    BY DEF RunWrite
  <2>2. \A r \in Runs : runs'[r] = runs[r] \/ (r = run[w] /\ runs'[r] = RunWrite(w).row)
    BY <1>1, <2>1 DEF ApplyRunWrite, TypeInv, TypeOK
  <2>3. QED
    BY <1>1, <2>2 DEF RunsStep
<1>2. ASSUME NEW w \in Writers, InsertRun(w) \/ FinishRun(w) \/ RecordFailure(w)
      PROVE  RunsStep
  <2>1. pc'[w] # pc[w]
    BY <1>2 DEF InsertRun, FinishRun, RecordFailure, Return, Goto, TypeInv, TypeOK
  <2>2. QED
    BY <1>1, <1>2, <2>1 DEF InsertRun, FinishRun, RecordFailure, RunWriteSteps
<1>3. ASSUME NEW x \in lostRunWrites, LandRunWrite(x)
      PROVE  RunsStep
  <2>1. \A r \in Runs : runs'[r] = runs[r] \/ (r = x.run /\ runs'[r] = x.row)
    BY <1>3 DEF LandRunWrite, ApplyRunWrite, TypeInv, TypeOK
  <2>2. QED
    BY <2>1 DEF RunsStep
<1>4. ASSUME runs' = runs PROVE RunsStep
  BY <1>4 DEF RunsStep
<1>5. ASSUME NEW w \in Writers,
             \/ IngestNothing(w) \/ IngestUnidentified(w)
             \/ \E input \in Inputs : IngestEvents(w, input)
             \/ AssertEventsFit(w)
             \/ \E batch \in SUBSET todo[w] : SendBatch(w, batch)
             \/ RejectBatch(w) \/ NextTable(w) \/ PlanMerge(w) \/ CommitMerge(w)
      PROVE  runs' = runs
  BY <1>5 DEF IngestNothing, IngestUnidentified, IngestEvents, AssertEventsFit, RaiseTooLarge,
              SendBatch, RejectBatch, NextTable, PlanMerge, CommitMerge, server
<1>6. ASSUME NEW w \in Writers,
             \/ ConflictMerge(w) \/ CountCommitted(w) \/ CountQuarantined(w)
             \/ ReadSnapshot(w) \/ ConflictRunWrite(w) \/ LoseAnswer(w) \/ Crash(w)
      PROVE  runs' = runs
  BY <1>6 DEF ConflictMerge, CountCommitted, CountQuarantined, ReadSnapshot, ConflictRunWrite,
              LoseAnswer, Crash, server
<1>7. ASSUME NEW m \in lostMerges, LandMerge(m)
      PROVE  runs' = runs
  BY <1>7 DEF LandMerge
<1>8. CASE Next
  BY <1>2, <1>3, <1>4, <1>5, <1>6, <1>7, <1>8 DEF Next, CallStep
<1>9. CASE UNCHANGED vars
  BY <1>4, <1>9 DEF vars, server
<1>10. QED
  BY <1>8, <1>9

\* Every action leaves statements behind, if any, as LostStep says.
LEMMA LostSteps == TypeInv /\ [Next]_vars => LostStep
<1> SUFFICES ASSUME TypeInv, [Next]_vars PROVE LostStep
  OBVIOUS
<1>1. ASSUME NEW w \in Writers, LoseAnswer(w) \/ Crash(w)
      PROVE  LostStep
  <2>1. LeaveStatementBehind(w)
    BY <1>1 DEF LoseAnswer, Crash
  <2>2. pc[w] # "idle"
    BY <1>1 DEF LoseAnswer, Crash, TypeInv, MergeInTable, RunWriteSteps, Tables
  <2>3. /\ pc'[w] \in {"idle", "record_failure"}
        /\ pc[w] = "record_failure" => pc'[w] = "idle"
    BY <1>1, RaiseFromType DEF LoseAnswer, Crash, Goto, TypeInv, TypeOK
  <2>4. pc[w] \in RunWriteSteps => pc'[w] # pc[w]
    BY <2>2, <2>3
  <2>5. \A m \in lostMerges' :
          \/ m \in lostMerges
          \/ sent[w] # {} /\ m.table = pc[w] /\ m.run = run[w] /\ m.events = sent[w]
    BY <2>1 DEF LeaveStatementBehind
  <2>6. \A x \in lostRunWrites' :
          x \in lostRunWrites \/ (pc[w] \in RunWriteSteps /\ x = RunWrite(w))
    BY <2>1 DEF LeaveStatementBehind
  <2>7. QED
    BY <2>3, <2>4, <2>5, <2>6 DEF LostStep
<1>2. ASSUME lostMerges' \subseteq lostMerges, lostRunWrites' \subseteq lostRunWrites
      PROVE  LostStep
  BY <1>2 DEF LostStep
<1>3. ASSUME NEW w \in Writers,
             \/ IngestNothing(w) \/ IngestUnidentified(w)
             \/ \E input \in Inputs : IngestEvents(w, input)
             \/ InsertRun(w) \/ AssertEventsFit(w)
             \/ \E batch \in SUBSET todo[w] : SendBatch(w, batch)
             \/ RejectBatch(w) \/ NextTable(w) \/ PlanMerge(w) \/ CommitMerge(w)
      PROVE  UNCHANGED <<lostMerges, lostRunWrites>>
  BY <1>3 DEF IngestNothing, IngestUnidentified, IngestEvents, InsertRun, AssertEventsFit,
              RaiseTooLarge, SendBatch, RejectBatch, NextTable, PlanMerge, CommitMerge, server
<1>4. ASSUME NEW w \in Writers,
             \/ ConflictMerge(w) \/ CountCommitted(w) \/ CountQuarantined(w)
             \/ ReadSnapshot(w) \/ FinishRun(w) \/ RecordFailure(w) \/ ConflictRunWrite(w)
      PROVE  UNCHANGED <<lostMerges, lostRunWrites>>
  BY <1>4 DEF ConflictMerge, CountCommitted, CountQuarantined, ReadSnapshot, FinishRun,
              RecordFailure, ConflictRunWrite, server
<1>5. ASSUME \/ \E m \in lostMerges : LandMerge(m)
             \/ \E x \in lostRunWrites : LandRunWrite(x)
      PROVE  lostMerges' \subseteq lostMerges /\ lostRunWrites' \subseteq lostRunWrites
  BY <1>5 DEF LandMerge, LandRunWrite
<1>6. CASE Next
  BY <1>1, <1>2, <1>3, <1>4, <1>5, <1>6 DEF Next, CallStep
<1>7. CASE UNCHANGED vars
  BY <1>2, <1>7 DEF vars, server
<1>8. QED
  BY <1>6, <1>7
\* Every action begins one call or takes calls forward.
LEMMA ControlSteps == TypeInv /\ [Next]_vars => ControlStep
<1> SUFFICES ASSUME TypeInv, [Next]_vars PROVE ControlStep
  OBVIOUS
<1>1. ASSUME NEW w \in Writers, NEW input \in Inputs, IngestEvents(w, input)
      PROVE  ControlStep
  <2>1. nextRun \in Runs
    BY <1>1, ConfigAssumption DEF IngestEvents, TypeInv, TypeOK, Runs
  <2>2. Begins(w)
    BY <1>1, <2>1 DEF IngestEvents, Begins, Goto, TypeInv, TypeOK
  <2>3. \A r \in Runs : r < nextRun => batchOf'[r] = batchOf[r]
    BY <1>1, <2>1 DEF IngestEvents, TypeInv, TypeOK, Runs
  <2>4. QED
    BY <2>2, <2>3 DEF ControlStep
<1>2. ASSUME UNCHANGED <<nextRun, batchOf, run>>,
             NEW w \in Writers, \A v \in Writers \ {w} : pc'[v] = pc[v],
             pc[w] # "idle" \/ pc'[w] = pc[w],
             pc'[w] \in Writing => pc[w] \in Writing
      PROVE  ControlStep
  BY <1>2 DEF ControlStep, Forward
<1>3. ASSUME UNCHANGED <<nextRun, batchOf, run, pc>> PROVE ControlStep
  BY <1>3 DEF ControlStep, Forward
<1>4. ASSUME NEW w \in Writers,
             \/ IngestNothing(w) \/ IngestUnidentified(w)
             \/ \E batch \in SUBSET todo[w] : SendBatch(w, batch)
             \/ PlanMerge(w) \/ CommitMerge(w)
      PROVE  UNCHANGED <<nextRun, batchOf, run, pc>>
  BY <1>4 DEF IngestNothing, IngestUnidentified, SendBatch, PlanMerge, CommitMerge, history
<1>5. ASSUME NEW w \in Writers,
             InsertRun(w) \/ AssertEventsFit(w) \/ RejectBatch(w) \/ NextTable(w)
      PROVE  ControlStep
  <2>1. UNCHANGED <<nextRun, batchOf, run>>
    BY <1>5 DEF InsertRun, AssertEventsFit, RejectBatch, NextTable, RaiseTooLarge, history
  <2>2. \A v \in Writers \ {w} : pc'[v] = pc[v]
    BY <1>5 DEF InsertRun, AssertEventsFit, RejectBatch, NextTable, RaiseTooLarge, Goto,
                TypeInv, TypeOK
  <2>3. pc[w] \in Writing /\ pc[w] # "idle"
    BY <1>5 DEF InsertRun, AssertEventsFit, RejectBatch, NextTable, Writing, Tables
  <2>4. QED
    BY <1>2, <2>1, <2>2, <2>3
<1>6. ASSUME NEW w \in Writers,
             \/ CountCommitted(w) \/ CountQuarantined(w) \/ ReadSnapshot(w)
             \/ FinishRun(w) \/ RecordFailure(w)
      PROVE  ControlStep
  <2>1. UNCHANGED <<nextRun, batchOf, run>>
    BY <1>6 DEF CountCommitted, CountQuarantined, ReadSnapshot, FinishRun, RecordFailure, history
  <2>2. \A v \in Writers \ {w} : pc'[v] = pc[v]
    BY <1>6 DEF CountCommitted, CountQuarantined, ReadSnapshot, FinishRun, RecordFailure,
                Return, Goto, TypeInv, TypeOK
  <2>3. pc[w] # "idle"
    BY <1>6 DEF CountCommitted, CountQuarantined, ReadSnapshot, FinishRun, RecordFailure
  <2>4. pc'[w] \in {"count_quarantined", "read_snapshot", "finish_run", "idle"}
    BY <1>6 DEF CountCommitted, CountQuarantined, ReadSnapshot, FinishRun, RecordFailure,
                Return, Goto, TypeInv, TypeOK
  <2>5. pc'[w] \notin Writing
    BY <2>4 DEF Writing, Tables
  <2>6. QED
    BY <1>2, <2>1, <2>2, <2>3, <2>5
<1>7. ASSUME NEW w \in Writers, ConflictRunWrite(w) \/ ConflictMerge(w)
      PROVE  ControlStep
  <2>1. UNCHANGED <<nextRun, batchOf, run>>
    BY <1>7 DEF ConflictRunWrite, ConflictMerge, history
  <2>2. pc[w] # "idle"
    BY <1>7 DEF ConflictRunWrite, ConflictMerge, TypeInv, MergeInTable, Tables, RunWriteSteps
  <2>3. /\ \A v \in Writers \ {w} : pc'[v] = pc[v]
        /\ pc'[w] = pc[w] \/ pc'[w] \in {"idle", "record_failure"}
    <3>1. CASE ConflictRunWrite(w)
      BY <3>1, RaiseFromType DEF ConflictRunWrite, TypeInv
    <3>2. CASE ConflictMerge(w)
      BY <3>2 DEF ConflictMerge, Goto, TypeInv, TypeOK
    <3>3. QED
      BY <1>7, <3>1, <3>2
  <2>4. pc'[w] \in Writing => pc[w] \in Writing
    BY <2>3 DEF Writing, Tables
  <2>5. QED
    BY <1>2, <2>1, <2>2, <2>3, <2>4
<1>8. ASSUME NEW w \in Writers, LoseAnswer(w) \/ Crash(w)
      PROVE  ControlStep
  <2>1. UNCHANGED <<nextRun, batchOf, run>>
    BY <1>8 DEF LoseAnswer, Crash, history
  <2>2. pc[w] # "idle"
    BY <1>8 DEF LoseAnswer, Crash, TypeInv, MergeInTable, Tables, RunWriteSteps
  <2>3. /\ \A v \in Writers \ {w} : pc'[v] = pc[v]
        /\ pc'[w] \in {"idle", "record_failure"}
    BY <1>8, RaiseFromType DEF LoseAnswer, Crash, Goto, TypeInv, TypeOK
  <2>4. pc'[w] \notin Writing
    BY <2>3 DEF Writing, Tables
  <2>5. QED
    BY <1>2, <2>1, <2>2, <2>3, <2>4
<1>9. ASSUME \/ \E m \in lostMerges : LandMerge(m)
             \/ \E x \in lostRunWrites : LandRunWrite(x)
      PROVE  UNCHANGED <<nextRun, batchOf, run, pc>>
  BY <1>9 DEF LandMerge, LandRunWrite, client, history
<1>10. CASE Next
  BY <1>1, <1>3, <1>4, <1>5, <1>6, <1>7, <1>8, <1>9, <1>10 DEF Next, CallStep
<1>11. CASE UNCHANGED vars
  BY <1>3, <1>11 DEF vars, client, history
<1>12. QED
  BY <1>10, <1>11

\* Every action returns a result, if any, as ReturnsStep says.
LEMMA ReturnsSteps == TypeInv /\ [Next]_vars => ReturnsStep
<1> SUFFICES ASSUME TypeInv, [Next]_vars PROVE ReturnsStep
  OBVIOUS
<1>1. ASSUME NEW w \in Writers, FinishRun(w)
      PROVE  ReturnsStep
  <2>1. /\ pc[w] = "finish_run" /\ pc'[w] = "idle"
        /\ ApplyRunWrite(RunWrite(w))
        /\ UNCHANGED lostRunWrites
    BY <1>1 DEF FinishRun, Return, Goto, TypeInv, TypeOK
  <2>2. \A res \in returned' :
          res \in returned \/ res = [run |-> run[w], row |-> RunWrite(w).row]
    BY <1>1 DEF FinishRun
  <2>3. QED
    BY <2>1, <2>2 DEF ReturnsStep
<1>2. ASSUME returned' = returned PROVE ReturnsStep
  BY <1>2 DEF ReturnsStep
<1>3. ASSUME NEW w \in Writers,
             \/ IngestNothing(w) \/ IngestUnidentified(w)
             \/ \E input \in Inputs : IngestEvents(w, input)
             \/ InsertRun(w) \/ AssertEventsFit(w)
             \/ \E batch \in SUBSET todo[w] : SendBatch(w, batch)
             \/ RejectBatch(w) \/ NextTable(w) \/ PlanMerge(w) \/ CommitMerge(w)
      PROVE  returned' = returned
  BY <1>3 DEF IngestNothing, IngestUnidentified, IngestEvents, InsertRun, AssertEventsFit,
              RaiseTooLarge, SendBatch, RejectBatch, NextTable, PlanMerge, CommitMerge, history
<1>4. ASSUME NEW w \in Writers,
             \/ ConflictMerge(w) \/ CountCommitted(w) \/ CountQuarantined(w)
             \/ ReadSnapshot(w) \/ RecordFailure(w) \/ ConflictRunWrite(w)
             \/ LoseAnswer(w) \/ Crash(w)
      PROVE  returned' = returned
  BY <1>4 DEF ConflictMerge, CountCommitted, CountQuarantined, ReadSnapshot, RecordFailure,
              ConflictRunWrite, LoseAnswer, Crash, history
<1>5. ASSUME \/ \E m \in lostMerges : LandMerge(m)
             \/ \E x \in lostRunWrites : LandRunWrite(x)
      PROVE  returned' = returned
  BY <1>5 DEF LandMerge, LandRunWrite, history
<1>6. CASE Next
  BY <1>1, <1>2, <1>3, <1>4, <1>5, <1>6 DEF Next, CallStep
<1>7. CASE UNCHANGED vars
  BY <1>2, <1>7 DEF vars, history
<1>8. QED
  BY <1>6, <1>7
Effects == TablesStep /\ RunsStep /\ LostStep /\ ControlStep /\ ReturnsStep

\* The five together: what the proofs below need to know of a step.
LEMMA StepEffects == MergeInv /\ [Next]_vars => Effects
BY TablesSteps, RunsSteps, LostSteps, ControlSteps, ReturnsSteps DEF Effects, MergeInv

-------------------------------------------------------------------------------
(***************************************************************************)
(* What is known of a run that is settled stays so.                        *)
(***************************************************************************)
LEMMA NumberedStep ==
  ASSUME TypeInv, RunsNumbered, Effects
  PROVE  RunsNumbered'
<1> USE DEF Effects
<1>1. nextRun \in Nat /\ nextRun' \in Nat /\ nextRun <= nextRun'
  BY ConfigAssumption DEF ControlStep, Forward, Begins, TypeInv, TypeOK
<1>2. \A w \in Writers : run[w] < nextRun /\ run[w] \in Int
  BY DEF RunsNumbered, TypeInv, TypeOK, Runs
<1>3. ASSUME NEW v \in Writers, NEW w \in Writers,
             pc'[v] # "idle", pc'[w] # "idle", run'[v] = run'[w]
      PROVE  v = w
  <2>1. CASE Forward
    BY <1>3, <2>1 DEF Forward, RunsNumbered
  <2>2. ASSUME NEW u \in Writers, Begins(u) PROVE v = w
    <3>1. CASE v # u /\ w # u
      BY <1>3, <2>2, <3>1 DEF Begins, RunsNumbered
    <3>2. CASE (v = u) # (w = u)
      BY <1>1, <1>2, <1>3, <2>2, <3>2 DEF Begins
    <3>3. QED
      BY <3>1, <3>2
  <2>3. QED
    BY <2>1, <2>2 DEF ControlStep
<1>4. \A w \in Writers : run'[w] < nextRun'
  <2>1. CASE Forward
    BY <1>2, <2>1 DEF Forward
  <2>2. ASSUME NEW u \in Writers, Begins(u), NEW w \in Writers PROVE run'[w] < nextRun'
    BY <1>1, <1>2, <2>2 DEF Begins
  <2>3. QED
    BY <2>1, <2>2 DEF ControlStep
<1>5. \A m \in lostMerges' : m.run < nextRun'
  <2>1. \A m \in lostMerges : m.run \in Int
    BY DEF TypeInv, TypeOK, Runs
  <2>2. \A m \in lostMerges' : m \in lostMerges \/ \E w \in Writers : m.run = run[w]
    BY DEF LostStep
  <2>3. QED
    BY <1>1, <1>2, <2>1, <2>2 DEF RunsNumbered
<1>6. \A x \in lostRunWrites' : x.run < nextRun'
  <2>1. \A x \in lostRunWrites : x.run \in Int
    BY DEF TypeInv, TypeOK, Runs
  <2>2. \A x \in lostRunWrites' : x \in lostRunWrites \/ \E w \in Writers : x.run = run[w]
    BY DEF LostStep, RunWrite
  <2>3. QED
    BY <1>1, <1>2, <2>1, <2>2 DEF RunsNumbered
<1>7. \A res \in returned' : res.run < nextRun'
  <2>1. \A res \in returned : res.run \in Int
    BY DEF TypeInv, TypeOK, Runs
  <2>2. \A res \in returned' : res \in returned \/ \E w \in Writers : res.run = run[w]
    BY DEF ReturnsStep
  <2>3. QED
    BY <1>1, <1>2, <2>1, <2>2 DEF RunsNumbered
<1>8. ASSUME NEW r \in Runs, r >= nextRun' PROVE runs'[r] = NoRow
  <2>1. r \in Int /\ r >= nextRun
    BY <1>1, <1>8 DEF Runs
  <2>2. runs[r] = NoRow
    BY <2>1 DEF RunsNumbered
  <2>3. \A w \in Writers : run[w] # r
    BY <1>1, <1>2, <2>1
  <2>4. \A x \in lostRunWrites : x.run # r
    BY <1>1, <2>1 DEF RunsNumbered
  <2>5. QED
    BY <2>2, <2>3, <2>4 DEF RunsStep
<1>9. ASSUME NEW t \in Tables, NEW row \in table'[t] PROVE row.run < nextRun'
  <2>1. CASE row \in table[t]
    <3>1. row.run \in Int /\ row.run < nextRun
      BY <2>1 DEF RunsNumbered, TypeInv, TypeOK, Row, Runs
    <3>2. QED
      BY <1>1, <3>1
  <2>2. CASE row \notin table[t]
    <3>1. \/ \E w \in Writers : run[w] = row.run
          \/ \E m \in lostMerges : m.run = row.run
      BY <1>9, <2>2 DEF TablesStep
    <3>2. row.run \in Int /\ row.run < nextRun
      BY <1>2, <3>1 DEF RunsNumbered, TypeInv, TypeOK, Runs
    <3>3. QED
      BY <1>1, <3>2
  <2>3. QED
    BY <2>1, <2>2
<1>10. QED
  BY <1>3, <1>4, <1>5, <1>6, <1>7, <1>8, <1>9 DEF RunsNumbered

\* A settled run stays settled: a statement is left behind only by a call that is writing.
LEMMA SettledStays ==
  ASSUME TypeInv, Effects, NEW r \in Runs, r < nextRun, Settled(r)
  PROVE  Settled(r)'
<1> USE DEF Effects
<1>1. ASSUME NEW m \in lostMerges' PROVE m.run # r
  <2>1. CASE m \in lostMerges
    BY <2>1 DEF Settled
  <2>2. CASE \E w \in Writers : sent[w] # {} /\ m.run = run[w]
    BY <2>2 DEF Settled, TypeInv, MergeInTable, Writing
  <2>3. QED
    BY <1>1, <2>1, <2>2 DEF LostStep
<1>2. ASSUME NEW w \in Writers, run'[w] = r PROVE pc'[w] \notin Writing
  <2>1. CASE Forward
    BY <1>2, <2>1 DEF Forward, Settled
  <2>2. ASSUME NEW u \in Writers, Begins(u) PROVE pc'[w] \notin Writing
    <3>1. r # nextRun
      BY DEF TypeInv, TypeOK, Runs
    <3>2. w # u
      BY <1>2, <2>2, <3>1 DEF Begins
    <3>3. QED
      BY <1>2, <2>2, <3>2 DEF Begins, Settled
  <2>3. QED
    BY <2>1, <2>2 DEF ControlStep
<1>3. QED
  BY <1>1, <1>2 DEF Settled

\* No row of a settled run is added.
LEMMA SettledRows ==
  ASSUME Effects, NEW r \in Runs, Settled(r), NEW t \in Tables
  PROVE  /\ RowsOfRun(t, r)' = RowsOfRun(t, r)
         /\ CountForRun(t, r)' = CountForRun(t, r)
<1>1. ASSUME NEW row \in table'[t], row.run = r PROVE row \in table[t]
  <2>1. \A m \in lostMerges : m.run # r
    BY DEF Settled
  <2>2. \A w \in Writers : run[w] = r => pc[w] # t
    BY DEF Settled, Writing
  <2>3. QED
    BY <1>1, <2>1, <2>2 DEF Effects, TablesStep
<1>2. table[t] \subseteq table'[t]
  BY DEF Effects, TablesStep
<1>3. RowsOfRun(t, r)' = RowsOfRun(t, r)
  BY <1>1, <1>2 DEF RowsOfRun
<1>4. QED
  BY <1>3 DEF RowsOfRun, CountForRun

\* What is stored stays stored.
LEMMA PresentStays ==
  ASSUME Effects, NEW t \in Tables, NEW e, Present(t, e)
  PROVE  Present(t, e)'
BY DEF Effects, TablesStep, Present

\* The batch of a run that has begun is fixed.
LEMMA BatchStays ==
  ASSUME Effects, NEW r \in Runs, r < nextRun
  PROVE  batchOf'[r] = batchOf[r] /\ BatchItems(r)' = BatchItems(r)
BY DEF Effects, ControlStep, BatchItems

\* What a completed row claims stays true, as the rows of its run are complete.
LEMMA ClaimStays ==
  ASSUME TypeInv, Effects, NEW r \in Runs, NEW row, Claim(r, row)
  PROVE  Claim(r, row)'
<1>1. r < nextRun /\ Settled(r)
  BY DEF Claim
<1>2. batchOf'[r] = batchOf[r] /\ BatchItems(r)' = BatchItems(r)
  BY <1>1, BatchStays
<1>3. \A t \in Tables : /\ RowsOfRun(t, r)' = RowsOfRun(t, r)
                        /\ CountForRun(t, r)' = CountForRun(t, r)
  BY <1>1, SettledRows
<1>4. Settled(r)'
  BY <1>1, SettledStays
<1>5. r < nextRun'
  BY <1>1 DEF Effects, ControlStep, Forward, Begins, TypeInv, TypeOK, Runs
<1>6. Accounts(r, row)'
  BY <1>2, <1>3 DEF Claim, Accounts, Tables
<1>7. Backed(r)'
  <2>1. ASSUME NEW t \in Tables, NEW e \in Destined(t, BatchItems(r))'
        PROVE  Present(t, e)'
    <3>1. e \in Destined(t, BatchItems(r))
      BY <1>2, <2>1 DEF Destined
    <3>2. Present(t, e)
      BY <3>1 DEF Claim, Backed, AllPresent
    <3>3. QED
      BY <3>2, PresentStays
  <2>2. QED
    BY <2>1 DEF Backed, AllPresent
<1>8. Covers(r, row)'
  BY <1>3 DEF Claim, Covers, Tables
<1>9. QED
  BY <1>4, <1>5, <1>6, <1>7, <1>8 DEF Claim
-------------------------------------------------------------------------------
(***************************************************************************)
(* The call.                                                               *)
(***************************************************************************)
CallOk(w) == Clean(w) /\ Delivers(w) /\ Counts(w)

\* The steps up to the final write of the run row.
Active == {"insert_run"} \cup Recorded

\* Two calls under way have different runs.
LEMMA OtherRun ==
  ASSUME RunsNumbered, NEW v \in Writers, NEW w \in Writers, pc[v] # "idle", pc[w] # "idle", v # w
  PROVE  run[v] # run[w]
BY DEF RunsNumbered

\* In the except branch and between calls there is nothing to be said.
LEMMA CallOver ==
  ASSUME NEW w \in Writers, pc'[w] \in {"idle", "record_failure"}
  PROVE  CallOk(w)'
<1>1. /\ pc'[w] # "insert_run" /\ pc'[w] \notin Recorded
      /\ pc'[w] \notin Tables /\ pc'[w] \notin Counting
  BY DEF Recorded, Tables, Counting
<1>2. Clean(w)'
  BY <1>1 DEF Clean
<1>3. Delivers(w)'
  BY <1>1 DEF Delivers, Written
<1>4. Counts(w)'
  BY <1>1 DEF Counts, Counting
<1>5. QED
  BY <1>2, <1>3, <1>4 DEF CallOk

\* A call stays clean until its final write.
LEMMA CleanStep ==
  ASSUME TypeInv, RunsNumbered, Effects, NEW w \in Writers, Clean(w), run'[w] = run[w],
         pc'[w] = pc[w] \/ (pc[w] \in Recorded \ {"finish_run"} /\ pc'[w] \in Recorded)
  PROVE  Clean(w)'
<1>1. CASE pc[w] \notin Active
  BY <1>1 DEF Clean, Active, Recorded
<1>2. CASE pc[w] \in Active
  <2>1. pc[w] # "idle" /\ pc'[w] \in Active /\ pc'[w] \notin {"idle", "record_failure"}
    BY <1>2 DEF Active, Recorded, Tables, Counting
  <2>2. run[w] \in Runs
    BY <2>1 DEF TypeInv, InCall
  <2>3. /\ \A m \in lostMerges : m.run # run[w]
        /\ \A x \in lostRunWrites : x.run # run[w]
    BY <1>2 DEF Clean, Active
  <2>4. ASSUME NEW v \in Writers, pc'[v] \in {"idle", "record_failure"}, pc[v] # "idle"
        PROVE  run[v] # run[w]
    BY <2>1, <2>4, OtherRun
  <2>5. ASSUME NEW m \in lostMerges' PROVE m.run # run[w]
    <3>1. ASSUME NEW v \in Writers, sent[v] # {}, m.run = run[v],
                 pc'[v] \in {"idle", "record_failure"}
          PROVE  m.run # run[w]
      <4>1. pc[v] # "idle"
        BY <3>1 DEF TypeInv, MergeInTable, Tables
      <4>2. QED
        BY <2>4, <3>1, <4>1
    <3>2. QED
      BY <2>3, <3>1 DEF Effects, LostStep
  <2>6. ASSUME NEW x \in lostRunWrites' PROVE x.run # run[w]
    <3>1. ASSUME NEW v \in Writers, pc[v] \in RunWriteSteps, x = RunWrite(v),
                 pc'[v] \in {"idle", "record_failure"}
          PROVE  x.run # run[w]
      <4>1. pc[v] # "idle" /\ x.run = run[v]
        BY <3>1 DEF RunWriteSteps, RunWrite
      <4>2. QED
        BY <2>4, <3>1, <4>1
    <3>2. QED
      BY <2>3, <3>1 DEF Effects, LostStep
  <2>7. runs'[run[w]] = runs[run[w]]
    <3>1. ASSUME NEW v \in Writers, pc[v] \in RunWriteSteps, pc'[v] # pc[v]
          PROVE  run[v] # run[w]
      <4>1. pc[v] # "idle"
        BY <3>1 DEF RunWriteSteps
      <4>2. v # w
        BY <3>1 DEF RunWriteSteps, Recorded, Tables, Counting
      <4>3. QED
        BY <2>1, <4>1, <4>2, OtherRun
    <3>2. QED
      BY <2>2, <2>3, <3>1 DEF Effects, RunsStep
  <2>8. (pc[w] = "insert_run" <=> pc'[w] = "insert_run") /\ (pc[w] \in Recorded <=> pc'[w] \in Recorded)
    BY DEF Recorded, Tables, Counting
  <2>9. QED
    BY <1>2, <2>5, <2>6, <2>7, <2>8 DEF Clean, Active
<1>3. QED
  BY <1>1, <1>2

\* The events of the batch of a call that are stored stay stored.
LEMMA BatchPresent ==
  ASSUME TypeInv, RunsNumbered, Effects, NEW w \in Writers, pc[w] # "idle", run'[w] = run[w]
  PROVE  /\ BatchItems(run[w])' = BatchItems(run[w])
         /\ \A t \in Tables : \A e : Present(t, e) => Present(t, e)'
         /\ \A t \in Tables : AllPresent(t, Destined(t, BatchItems(run[w])))
                            => AllPresent(t, Destined(t, BatchItems(run[w])))'
<1>1. run[w] \in Runs /\ run[w] < nextRun
  BY DEF TypeInv, InCall, RunsNumbered
<1>2. BatchItems(run[w])' = BatchItems(run[w])
  BY <1>1 DEF Effects, ControlStep, BatchItems
<1>3. \A t \in Tables : \A e : Present(t, e) => Present(t, e)'
  BY PresentStays
<1>4. ASSUME NEW t \in Tables, AllPresent(t, Destined(t, BatchItems(run[w])))
      PROVE  AllPresent(t, Destined(t, BatchItems(run[w])))'
  BY <1>2, <1>3, <1>4 DEF AllPresent, Destined
<1>5. QED
  BY <1>2, <1>3, <1>4

\* When all tables are written the run is settled, and the counts are final.
LEMMA SettledAtEnd ==
  ASSUME RunsNumbered, NEW w \in Writers, Clean(w), pc[w] \in Counting
  PROVE  Settled(run[w])
<1>1. \A m \in lostMerges : m.run # run[w]
  BY DEF Clean, Recorded
<1>2. ASSUME NEW v \in Writers, run[v] = run[w] PROVE pc[v] \notin Writing
  <2>1. pc[w] # "idle" /\ pc[w] \notin Writing
    BY DEF Counting, Writing, Tables
  <2>2. CASE pc[v] = "idle"
    BY <2>2 DEF Writing, Tables
  <2>3. CASE pc[v] # "idle"
    BY <1>2, <2>1, <2>3, OtherRun
  <2>4. QED
    BY <2>2, <2>3
<1>3. QED
  BY <1>1, <1>2 DEF Settled

\* Behind the last MERGE the rows of the run, and so its counts, are final.
LEMMA FinalCounts ==
  ASSUME TypeInv, RunsNumbered, Effects, NEW w \in Writers, Clean(w), pc[w] \in Counting,
         run'[w] = run[w], NEW t \in Tables
  PROVE  /\ RowsOfRun(t, run[w])' = RowsOfRun(t, run[w])
         /\ CountForRun(t, run[w])' = CountForRun(t, run[w])
<1>1. run[w] \in Runs
  BY DEF TypeInv, InCall, Counting
<1>2. PICK r \in Runs : r = run[w]
  BY <1>1
<1>3. Settled(r)
  BY <1>2, SettledAtEnd
<1>4. RowsOfRun(t, r)' = RowsOfRun(t, r)
  BY <1>3, SettledRows
<1>5. RowsOfRun(t, run[w])' = RowsOfRun(t, run[w])
  BY <1>2, <1>4 DEF RowsOfRun
<1>6. QED
  BY <1>5 DEF RowsOfRun, CountForRun

\* A step that is not the call's own: nothing said of the call is lost.
LEMMA CallFrame ==
  ASSUME TypeInv, RunsNumbered, Effects, NEW w \in Writers, CallOk(w),
         pc'[w] = pc[w], run'[w] = run[w], todo'[w] = todo[w], sent'[w] = sent[w],
         plan'[w] = plan[w], tally'[w] = tally[w]
  PROVE  CallOk(w)'
<1>1. Clean(w)'
  BY CleanStep DEF CallOk
<1>2. CASE pc[w] = "idle"
  BY <1>2, CallOver
<1>3. CASE pc[w] # "idle"
  <2>1. /\ BatchItems(run[w])' = BatchItems(run[w])
        /\ \A t \in Tables : \A e : Present(t, e) => Present(t, e)'
        /\ \A t \in Tables : AllPresent(t, Destined(t, BatchItems(run[w])))
                           => AllPresent(t, Destined(t, BatchItems(run[w])))'
    BY <1>3, BatchPresent
  <2>2. Delivers(w)'
    <3>1. \A t \in Written(pc[w]) : AllPresent(t, Destined(t, BatchItems(run[w])))'
      BY <2>1 DEF CallOk, Delivers, Written
    <3>2. \A t \in Written(pc[w])' : AllPresent(t, Destined(t, BatchItems(run[w])))'
      BY <3>1 DEF Written
    <3>3. ASSUME pc[w] \in Tables
          PROVE  /\ (todo[w] \cup sent[w] \subseteq Destined(pc[w], BatchItems(run[w])))'
                 /\ AllPresent(pc[w], Destined(pc[w], BatchItems(run[w])) \ (todo[w] \cup sent[w]))'
                 /\ (sent[w] # {} /\ plan[w] # NoPlan)' => AllPresent(pc[w], sent[w] \ plan[w].rows)'
      BY <2>1, <3>3 DEF CallOk, Delivers, AllPresent, Destined, Present
    <3>4. QED
      BY <3>2, <3>3 DEF Delivers
  <2>3. Counts(w)'
    <3>1. CASE pc[w] \in Counting
      <4>1. \A t \in Tables : /\ RowsOfRun(t, run[w])' = RowsOfRun(t, run[w])
                            /\ CountForRun(t, run[w])' = CountForRun(t, run[w])
        BY <3>1, FinalCounts DEF CallOk
      <4>2. QED
        BY <4>1 DEF CallOk, Counts, Covers, Tables
    <3>2. CASE pc[w] \notin Counting
      BY <3>2 DEF Counts, Counting
    <3>3. QED
      BY <3>1, <3>2
  <2>4. QED
    BY <1>1, <2>2, <2>3 DEF CallOk
<1>4. QED
  BY <1>2, <1>3
\* The call begins with a run that nothing speaks of, and its RUNNING row is written.
LEMMA CallStarts ==
  ASSUME TypeInv, RunsNumbered, Effects, NEW w \in Writers, CallOk(w),
         (\E input \in Inputs : IngestEvents(w, input)) \/ InsertRun(w)
  PROVE  CallOk(w)'
<1>1. ASSUME pc'[w] \in {"insert_run", "assert_fit"}
      PROVE  Delivers(w)' /\ Counts(w)'
  <2>1. pc'[w] \notin Tables /\ pc'[w] \notin Counting
    BY <1>1 DEF Tables, Counting
  <2>2. Written(pc[w])' = {}
    BY <1>1, <2>1 DEF Written
  <2>3. QED
    BY <2>1, <2>2 DEF Delivers, Counts, Counting
<1>2. ASSUME NEW input \in Inputs, IngestEvents(w, input) PROVE CallOk(w)'
  <2>1. nextRun \in Runs
    BY <1>2, ConfigAssumption DEF IngestEvents, TypeInv, TypeOK, Runs
  <2>2. /\ pc'[w] = "insert_run" /\ run'[w] = nextRun
        /\ UNCHANGED <<lostMerges, lostRunWrites, runs>>
    BY <1>2 DEF IngestEvents, Goto, server, TypeInv, TypeOK
  <2>3. /\ \A m \in lostMerges : m.run # nextRun
        /\ \A x \in lostRunWrites : x.run # nextRun
        /\ runs[nextRun] = NoRow
    BY <2>1 DEF RunsNumbered, TypeInv, TypeOK, Runs
  <2>4. pc'[w] \notin Recorded
    BY <2>2 DEF Recorded, Tables, Counting
  <2>5. Clean(w)'
    BY <2>2, <2>3, <2>4 DEF Clean
  <2>6. QED
    BY <1>1, <2>2, <2>5 DEF CallOk
<1>3. ASSUME InsertRun(w) PROVE CallOk(w)'
  <2>1. /\ pc[w] = "insert_run" /\ pc'[w] = "assert_fit" /\ run'[w] = run[w]
        /\ UNCHANGED <<lostMerges, lostRunWrites>>
        /\ run[w] \in Runs
    BY <1>3 DEF InsertRun, Goto, TypeInv, TypeOK, InCall
  <2>2. /\ \A m \in lostMerges : m.run # run[w]
        /\ \A x \in lostRunWrites : x.run # run[w]
        /\ runs[run[w]] = NoRow
    BY <2>1 DEF CallOk, Clean
  <2>3. runs'[run[w]].status = "RUNNING"
    <3>1. /\ RunWrite(w).run = run[w] /\ RunWrite(w).step = "insert_run"
          /\ RunWrite(w).row.status = "RUNNING"
      BY <2>1 DEF RunWrite, RunningRow
    <3>2. runs' = [runs EXCEPT ![run[w]] = RunWrite(w).row]
      BY <1>3, <2>2, <3>1 DEF InsertRun, ApplyRunWrite
    <3>3. QED
      BY <2>1, <3>1, <3>2 DEF TypeInv, TypeOK
  <2>4. Clean(w)'
    BY <2>1, <2>2, <2>3 DEF Clean
  <2>5. QED
    BY <1>1, <2>1, <2>4 DEF CallOk
<1>4. QED
  BY <1>2, <1>3

\* The events of a table are laid out to be sent.
LEMMA CallTurns ==
  ASSUME TypeInv, RunsNumbered, Effects, NEW w \in Writers, CallOk(w),
         AssertEventsFit(w) \/ NextTable(w)
  PROVE  CallOk(w)'
<1> DEFINE items == BatchItems(run[w])
<1>1. /\ pc[w] # "idle" /\ run'[w] = run[w]
      /\ pc[w] \in {"assert_fit"} \cup Tables /\ sent[w] = {} /\ sent'[w] = {}
  BY DEF AssertEventsFit, NextTable, RaiseTooLarge, TypeInv, TypeOK, MergeInTable, Tables
<1>2. /\ items' = items
      /\ \A t \in Tables : \A e : Present(t, e) => Present(t, e)'
      /\ \A t \in Tables : AllPresent(t, Destined(t, items)) => AllPresent(t, Destined(t, items))'
  BY <1>1, BatchPresent
<1>3. ASSUME NEW t \in Tables, pc'[w] = t, todo'[w] = Destined(t, items),
             \A u \in Written(t) : AllPresent(u, Destined(u, items))
      PROVE  CallOk(w)'
  <2>1. Clean(w)'
    <3>1. pc'[w] \in Recorded /\ pc[w] \in Recorded \ {"finish_run"}
      BY <1>1, <1>3 DEF Recorded, Tables
    <3>2. QED
      BY <1>1, <3>1, CleanStep DEF CallOk
  <2>2. \A u \in Written(t) : AllPresent(u, Destined(u, items))'
    BY <1>2, <1>3 DEF Written
  <2>3. (todo[w] \cup sent[w])' = Destined(t, items)
    BY <1>1, <1>3
  <2>4. Delivers(w)'
    BY <1>1, <1>2, <1>3, <2>2, <2>3 DEF Delivers, AllPresent
  <2>5. Counts(w)'
    BY <1>3 DEF Counts, Tables
  <2>6. QED
    BY <2>1, <2>4, <2>5 DEF CallOk
<1>4. CASE AssertEventsFit(w)
  <2>1. CASE \A t \in Tables : Destined(t, items) \subseteq Fits[t]
    <3>1. pc'[w] = "raw_events" /\ todo'[w] = items
      BY <1>4, <2>1 DEF AssertEventsFit, Goto, BatchItems, TypeInv, TypeOK
    <3>2. Destined("raw_events", items) = items
      BY DEF Destined
    <3>3. Written("raw_events") = {}
      BY DEF Written, Tables, Counting
    <3>4. QED
      BY <1>3, <3>1, <3>2, <3>3 DEF Tables
  <2>2. CASE ~ \A t \in Tables : Destined(t, items) \subseteq Fits[t]
    <3>1. pc'[w] = "record_failure"
      BY <1>4, <2>2 DEF AssertEventsFit, RaiseTooLarge, Goto, BatchItems, TypeInv, TypeOK
    <3>2. QED
      BY <3>1, CallOver
  <2>3. QED
    BY <2>1, <2>2
<1>5. CASE NextTable(w)
  <2>1. pc[w] \in Tables /\ todo[w] = {} /\ pc'[w] = After(pc[w])
    BY <1>5 DEF NextTable, Goto, TypeInv, TypeOK
  <2>2. AllPresent(pc[w], Destined(pc[w], items))
    BY <1>1, <2>1 DEF CallOk, Delivers
  <2>3. \A u \in Written(pc[w]) : AllPresent(u, Destined(u, items))
    BY DEF CallOk, Delivers
  <2>4. Written(After(pc[w])) \subseteq Written(pc[w]) \cup {pc[w]}
    BY <2>1 DEF Written, After, Tables, Counting
  <2>5. \A u \in Written(After(pc[w])) : AllPresent(u, Destined(u, items))
    BY <2>2, <2>3, <2>4
  <2>6. CASE After(pc[w]) \in Tables
    <3>1. todo'[w] = Destined(After(pc[w]), items)
      BY <1>5, <2>6 DEF NextTable, BatchItems, TypeInv, TypeOK
    <3>2. QED
      BY <1>3, <2>1, <2>5, <2>6, <3>1
  <2>7. CASE After(pc[w]) \notin Tables
    <3>1. pc'[w] = "count_committed"
      BY <2>1, <2>7 DEF After, Tables
    <3>2. Clean(w)'
      <4>1. pc'[w] \in Recorded /\ pc[w] \in Recorded \ {"finish_run"}
        BY <2>1, <3>1 DEF Recorded, Tables, Counting
      <4>2. QED
        BY <1>1, <4>1, CleanStep DEF CallOk
    <3>3. \A u \in Written(pc[w])' : AllPresent(u, Destined(u, items))'
      BY <1>2, <2>1, <2>5 DEF Written
    <3>4. Delivers(w)'
      BY <3>1, <3>3 DEF Delivers, Tables
    <3>5. Counts(w)'
      BY <3>1 DEF Counts
    <3>6. QED
      BY <3>2, <3>4, <3>5 DEF CallOk
  <2>8. QED
    BY <2>6, <2>7
<1>6. QED
  BY <1>4, <1>5
\* A batch is sent, planned, refused, or committed.
LEMMA CallMerges ==
  ASSUME MergeInv, RunsNumbered, Effects, NEW w \in Writers, CallOk(w),
         \/ \E batch \in SUBSET todo[w] : SendBatch(w, batch)
         \/ PlanMerge(w)
         \/ ConflictMerge(w)
         \/ CommitMerge(w)
  PROVE  CallOk(w)'
<1> DEFINE t == pc[w]
           items == BatchItems(run[w])
           D == Destined(t, items)
<1>0. TypeInv /\ Fresh(w)
  BY DEF MergeInv, PlansFresh
<1>1. t \in Tables /\ t # "idle" /\ run[w] \in Runs /\ run'[w] = run[w]
  BY <1>0 DEF SendBatch, PlanMerge, ConflictMerge, CommitMerge, TypeInv, TypeOK, InCall,
              MergeInTable, Tables
<1>2. /\ items' = items
      /\ \A u \in Tables : \A e : Present(u, e) => Present(u, e)'
      /\ \A u \in Tables : AllPresent(u, Destined(u, items)) => AllPresent(u, Destined(u, items))'
  BY <1>0, <1>1, BatchPresent
<1>3. /\ todo[w] \cup sent[w] \subseteq D
      /\ AllPresent(t, D \ (todo[w] \cup sent[w]))
      /\ sent[w] # {} /\ plan[w] # NoPlan => AllPresent(t, sent[w] \ plan[w].rows)
      /\ \A u \in Written(t) : AllPresent(u, Destined(u, items))
  BY <1>1 DEF CallOk, Delivers
<1>4. ASSUME pc'[w] = t,
             todo'[w] \cup sent'[w] \subseteq todo[w] \cup sent[w],
             \A e \in (todo[w] \cup sent[w]) \ (todo'[w] \cup sent'[w]) : Present(t, e)',
             sent'[w] # {} /\ plan'[w] # NoPlan =>
               \A e \in sent'[w] \ plan'[w].rows : Present(t, e)'
      PROVE  CallOk(w)'
  <2>1. Clean(w)'
    BY <1>0, <1>1, <1>4, CleanStep DEF CallOk
  <2>2. Counts(w)'
    BY <1>1, <1>4 DEF Counts, Tables
  <2>3. \A u \in Written(pc[w])' : AllPresent(u, Destined(u, items))'
    BY <1>2, <1>3, <1>4 DEF Written
  <2>4. D' = D
    BY <1>2, <1>4 DEF Destined
  <2>5. \A e \in D \ (todo'[w] \cup sent'[w]) : Present(t, e)'
    BY <1>1, <1>2, <1>3, <1>4 DEF AllPresent
  <2> HIDE DEF D
  <2>6. /\ (todo[w] \cup sent[w] \subseteq D)'
        /\ AllPresent(t, D \ (todo[w] \cup sent[w]))'
        /\ (sent[w] # {} /\ plan[w] # NoPlan)' => AllPresent(t, sent[w] \ plan[w].rows)'
    BY <1>3, <1>4, <2>4, <2>5 DEF AllPresent, Present
  <2>7. Delivers(w)'
    BY <2>3, <2>6 DEF Delivers, D
  <2>8. QED
    BY <2>1, <2>2, <2>7 DEF CallOk
<1>5. ASSUME NEW batch \in SUBSET todo[w], SendBatch(w, batch) PROVE CallOk(w)'
  <2>1. /\ pc'[w] = t /\ sent[w] = {} /\ sent'[w] = batch
        /\ todo'[w] = todo[w] \ batch /\ plan'[w] = NoPlan
    BY <1>0, <1>5 DEF SendBatch, Fresh, TypeInv, TypeOK
  <2>2. QED
    BY <1>4, <2>1
<1>6. CASE PlanMerge(w)
  <2>1. /\ pc'[w] = t /\ sent'[w] = sent[w] /\ todo'[w] = todo[w]
        /\ plan'[w].rows = Unmatched(t, sent[w])
    BY <1>0, <1>6 DEF PlanMerge, TypeInv, TypeOK
  <2>2. \A e \in sent[w] \ Unmatched(t, sent[w]) : Present(t, e)
    BY DEF Unmatched, Present
  <2>3. QED
    BY <1>1, <1>2, <1>4, <2>1, <2>2
<1>7. CASE ConflictMerge(w)
  <2>1. plan'[w] = NoPlan
    BY <1>0, <1>7 DEF ConflictMerge, TypeInv, TypeOK
  <2>2. CASE UNCHANGED <<pc, todo, sent>>
    BY <1>4, <2>1, <2>2
  <2>3. CASE pc'[w] = "record_failure"
    BY <2>3, CallOver
  <2>4. QED
    BY <1>0, <1>7, <2>2, <2>3 DEF ConflictMerge, Goto, TypeInv, TypeOK
<1>8. CASE CommitMerge(w)
  <2>1. /\ pc'[w] = t /\ todo'[w] = todo[w] /\ sent'[w] = {}
        /\ sent[w] # {} /\ plan[w] # NoPlan
        /\ CommitRows(t, plan[w].rows, run[w])
        /\ plan[w].rows \in SUBSET Events
    BY <1>0, <1>8 DEF CommitMerge, TypeInv, TypeOK
  <2>2. Extended(t, plan[w].rows, run[w])
    BY <1>0, <1>1, <2>1, CommitEffect
  <2>3. \A e \in plan[w].rows : Present(t, e)'
    BY <2>1, <2>2 DEF Extended, Present
  <2>4. \A e \in sent[w] : Present(t, e)'
    BY <1>1, <1>2, <1>3, <2>1, <2>3 DEF AllPresent
  <2>5. QED
    BY <1>4, <2>1, <2>4
<1>9. QED
  BY <1>5, <1>6, <1>7, <1>8

\* The counts and the snapshot are read back.
LEMMA CallCounts ==
  ASSUME MergeInv, RunsNumbered, Effects, NEW w \in Writers, CallOk(w),
         \A row \in table["application_logs"] : row.snap <= version["application_logs"],
         CountCommitted(w) \/ CountQuarantined(w) \/ ReadSnapshot(w)
  PROVE  CallOk(w)'
<1>0. TypeInv
  BY DEF MergeInv
<1>1. /\ pc[w] \in Counting \ {"finish_run"}
      /\ pc'[w] \in Counting \ {"count_committed"}
      /\ run'[w] = run[w] /\ UNCHANGED table
  BY <1>0 DEF CountCommitted, CountQuarantined, ReadSnapshot, Counting, Goto, server, TypeInv, TypeOK
<1>2. pc[w] # "idle" /\ pc[w] \notin Tables /\ pc'[w] \notin Tables
  BY <1>1 DEF Counting, Tables
<1>3. Clean(w)'
  <2>1. pc[w] \in Recorded \ {"finish_run"} /\ pc'[w] \in Recorded
    BY <1>1 DEF Recorded
  <2>2. QED
    BY <1>0, <1>1, <2>1, CleanStep DEF CallOk
<1>4. Delivers(w)'
  <2>1. \A t \in Tables : AllPresent(t, Destined(t, BatchItems(run[w])))
                     => AllPresent(t, Destined(t, BatchItems(run[w])))'
    BY <1>0, <1>1, <1>2, BatchPresent
  <2>2. Written(pc[w]) = Tables /\ Written(pc[w])' = Tables
    BY <1>1 DEF Written
  <2>3. QED
    BY <1>2, <2>1, <2>2 DEF CallOk, Delivers
<1>5. \A t \in Tables : CountForRun(t, run[w])' = CountForRun(t, run[w])
  BY <1>1 DEF CountForRun
<1>6. Counts(w)'
  <2>1. tally \in [Writers -> [committed : Nat, quarantined : Nat, snapshot : Nat]]
    BY <1>0 DEF TypeInv, TypeOK
  <2>2. CASE CountCommitted(w)
    <3>1. pc'[w] = "count_quarantined"
          /\ tally'[w].committed = CountForRun("application_logs", run[w])
      BY <1>0, <2>1, <2>2 DEF CountCommitted, Tally, Goto, TypeInv, TypeOK
    <3>2. QED
      BY <1>5, <3>1 DEF Counts, Tables
  <2>3. CASE CountQuarantined(w)
    <3>1. /\ pc[w] = "count_quarantined" /\ pc'[w] = "read_snapshot"
          /\ tally'[w].committed = tally[w].committed
          /\ tally'[w].quarantined = CountForRun("quarantine_events", run[w])
      BY <1>0, <2>1, <2>3 DEF CountQuarantined, Tally, Goto, TypeInv, TypeOK
    <3>2. QED
      BY <1>5, <3>1 DEF CallOk, Counts, Tables
  <2>4. CASE ReadSnapshot(w)
    <3>1. /\ pc[w] = "read_snapshot" /\ pc'[w] = "finish_run"
          /\ tally'[w].committed = tally[w].committed
          /\ tally'[w].quarantined = tally[w].quarantined
          /\ tally'[w].snapshot = version["application_logs"]
      BY <1>0, <2>1, <2>4 DEF ReadSnapshot, Tally, Goto, TypeInv, TypeOK
    <3>2. Covers(run[w], tally[w])'
      BY <1>1, <3>1 DEF Covers, RowsOfRun
    <3>3. QED
      BY <1>5, <3>1, <3>2 DEF CallOk, Counts, Tables
  <2>5. QED
    BY <2>2, <2>3, <2>4
<1>7. QED
  BY <1>3, <1>4, <1>6 DEF CallOk
\* A call leaves the variables of the other calls alone.
SameCall(w) ==
  /\ pc'[w] = pc[w] /\ run'[w] = run[w] /\ todo'[w] = todo[w]
  /\ sent'[w] = sent[w] /\ plan'[w] = plan[w] /\ tally'[w] = tally[w]

\* A step of one writer leaves the call of another one alone.
LEMMA OthersSame ==
  ASSUME TypeInv, NEW v \in Writers, NEW w \in Writers \ {v},
         \/ IngestNothing(v) \/ IngestUnidentified(v)
         \/ \E input \in Inputs : IngestEvents(v, input)
         \/ CallStep(v) \/ LoseAnswer(v) \/ Crash(v)
  PROVE  SameCall(w)
<1> USE DEF SameCall, TypeInv, TypeOK
<1>1. CASE \/ IngestNothing(v) \/ IngestUnidentified(v)
           \/ \E input \in Inputs : IngestEvents(v, input)
           \/ InsertRun(v)
  BY <1>1 DEF IngestNothing, IngestUnidentified, IngestEvents, InsertRun, Goto
<1>2. CASE \/ AssertEventsFit(v)
           \/ \E batch \in SUBSET todo[v] : SendBatch(v, batch)
           \/ RejectBatch(v) \/ NextTable(v)
  BY <1>2 DEF AssertEventsFit, RaiseTooLarge, SendBatch, RejectBatch, NextTable, Goto
<1>3. CASE PlanMerge(v) \/ CommitMerge(v) \/ ConflictMerge(v)
  BY <1>3 DEF PlanMerge, CommitMerge, ConflictMerge, Goto
<1>4. CASE CountCommitted(v) \/ CountQuarantined(v) \/ ReadSnapshot(v)
  BY <1>4 DEF CountCommitted, CountQuarantined, ReadSnapshot, Tally, Goto
<1>5. CASE FinishRun(v) \/ RecordFailure(v)
  BY <1>5 DEF FinishRun, RecordFailure, Return, Goto
<1>6. CASE ConflictRunWrite(v)
  BY <1>6 DEF ConflictRunWrite, RaiseFrom, Return, Goto
<1>7. CASE LoseAnswer(v) \/ Crash(v)
  BY <1>7 DEF LoseAnswer, Crash, RaiseFrom, Return, Goto
<1>8. QED
  BY <1>1, <1>2, <1>3, <1>4, <1>5, <1>6, <1>7 DEF CallStep

\* A step of the writer keeps what its call relies on.
LEMMA OwnStep ==
  ASSUME MergeInv, RunsNumbered, Effects, NEW w \in Writers, CallOk(w),
         \A row \in table["application_logs"] : row.snap <= version["application_logs"],
         \/ IngestNothing(w) \/ IngestUnidentified(w)
         \/ \E input \in Inputs : IngestEvents(w, input)
         \/ CallStep(w) \/ LoseAnswer(w) \/ Crash(w)
  PROVE  CallOk(w)'
<1>0. TypeInv
  BY DEF MergeInv
<1>1. CASE \/ \E input \in Inputs : IngestEvents(w, input)
           \/ InsertRun(w)
  BY <1>0, <1>1, CallStarts
<1>2. CASE AssertEventsFit(w) \/ NextTable(w)
  BY <1>0, <1>2, CallTurns
<1>3. CASE \/ \E batch \in SUBSET todo[w] : SendBatch(w, batch)
           \/ PlanMerge(w) \/ ConflictMerge(w) \/ CommitMerge(w)
  BY <1>3, CallMerges
<1>4. CASE CountCommitted(w) \/ CountQuarantined(w) \/ ReadSnapshot(w)
  BY <1>4, CallCounts
<1>5. CASE IngestNothing(w) \/ IngestUnidentified(w)
  <2>1. SameCall(w)
    BY <1>5 DEF IngestNothing, IngestUnidentified, SameCall
  <2>2. QED
    BY <1>0, <2>1, CallFrame DEF SameCall
<1>6. CASE RejectBatch(w) \/ FinishRun(w) \/ RecordFailure(w)
  <2>1. pc'[w] \in {"idle", "record_failure"}
    BY <1>0, <1>6 DEF RejectBatch, RaiseTooLarge, FinishRun, RecordFailure, Return, Goto,
                      TypeInv, TypeOK
  <2>2. QED
    BY <2>1, CallOver
<1>7. CASE ConflictRunWrite(w)
  <2>1. CASE attempt[w] < CommitRetries
    <3>1. SameCall(w)
      BY <1>7, <2>1 DEF ConflictRunWrite, SameCall
    <3>2. QED
      BY <1>0, <3>1, CallFrame DEF SameCall
  <2>2. CASE ~ attempt[w] < CommitRetries
    <3>1. pc'[w] \in {"idle", "record_failure"}
      BY <1>0, <1>7, <2>2, RaiseFromType DEF ConflictRunWrite, TypeInv
    <3>2. QED
      BY <3>1, CallOver
  <2>3. QED
    BY <2>1, <2>2
<1>8. CASE LoseAnswer(w) \/ Crash(w)
  <2>1. pc'[w] \in {"idle", "record_failure"}
    BY <1>0, <1>8, RaiseFromType DEF LoseAnswer, Crash, Goto, TypeInv, TypeOK
  <2>2. QED
    BY <2>1, CallOver
<1>9. QED
  BY <1>1, <1>2, <1>3, <1>4, <1>5, <1>6, <1>7, <1>8 DEF CallStep

\* CallInv is inductive, given the rest of RunInv.
LEMMA CallInvStep ==
  ASSUME MergeInv, RunsNumbered, CallInv, RowsInv, Effects, [Next]_vars
  PROVE  CallInv'
<1> SUFFICES ASSUME NEW w \in Writers PROVE CallOk(w)'
  BY DEF CallInv, CallOk
<1>0. TypeInv /\ CallOk(w)
  BY DEF MergeInv, CallInv, CallOk
<1>1. \A row \in table["application_logs"] : row.snap <= version["application_logs"]
  BY DEF RowsInv, Tables
<1>2. ASSUME SameCall(w) PROVE CallOk(w)'
  BY <1>0, <1>2, CallFrame DEF SameCall
<1>3. ASSUME NEW v \in Writers,
             \/ IngestNothing(v) \/ IngestUnidentified(v)
             \/ \E input \in Inputs : IngestEvents(v, input)
             \/ CallStep(v) \/ LoseAnswer(v) \/ Crash(v)
      PROVE  CallOk(w)'
  <2>1. CASE v = w
    BY <1>0, <1>1, <1>3, <2>1, OwnStep
  <2>2. CASE v # w
    <3>1. w \in Writers \ {v}
      BY <2>2
    <3>2. SameCall(w)
      BY <1>0, <1>3, <3>1, OthersSame
    <3>3. QED
      BY <1>2, <3>2
  <2>3. QED
    BY <2>1, <2>2
<1>4. ASSUME \/ \E m \in lostMerges : LandMerge(m)
             \/ \E x \in lostRunWrites : LandRunWrite(x)
      PROVE  SameCall(w)
  BY <1>4 DEF LandMerge, LandRunWrite, client, SameCall
<1>5. CASE Next
  BY <1>2, <1>3, <1>4, <1>5 DEF Next
<1>6. CASE UNCHANGED vars
  <2>1. SameCall(w)
    BY <1>6 DEF vars, client, SameCall
  <2>2. QED
    BY <1>2, <2>1
<1>7. QED
  BY <1>5, <1>6

-------------------------------------------------------------------------------
(***************************************************************************)
(* Rows, claims, results.                                                  *)
(***************************************************************************)

\* The events S of a statement on table t belong to run r, their originals are stored.
Source(t, r, S) ==
  /\ t \in Tables /\ r \in Runs /\ r < nextRun
  /\ S \subseteq Destined(t, BatchItems(r))
  /\ t # "raw_events" => AllPresent("raw_events", S)

\* A statement, under way or left behind, writes events of the batch of its run.
LEMMA Sources ==
  ASSUME TypeInv, RunsNumbered, CallInv, RowsInv
  PROVE  /\ \A w \in Writers : sent[w] # {} => Source(pc[w], run[w], sent[w])
         /\ \A m \in lostMerges : Source(m.table, m.run, m.events)
<1>1. ASSUME NEW w \in Writers, sent[w] # {}
      PROVE  Source(pc[w], run[w], sent[w])
  <2>1. pc[w] \in Tables /\ run[w] \in Runs /\ run[w] < nextRun
    BY <1>1 DEF TypeInv, MergeInTable, InCall, Tables, RunsNumbered
  <2>2. sent[w] \subseteq Destined(pc[w], BatchItems(run[w]))
    BY <2>1 DEF CallInv, Delivers
  <2>3. ASSUME pc[w] # "raw_events" PROVE AllPresent("raw_events", sent[w])
    <3>1. "raw_events" \in Written(pc[w])
      BY <2>1, <2>3 DEF Written, Tables
    <3>2. AllPresent("raw_events", Destined("raw_events", BatchItems(run[w])))
      BY <3>1 DEF CallInv, Delivers
    <3>3. QED
      BY <2>2, <3>2 DEF AllPresent, Destined
  <2>4. QED
    BY <2>1, <2>2, <2>3 DEF Source
<1>2. ASSUME NEW m \in lostMerges
      PROVE  Source(m.table, m.run, m.events)
  BY DEF RowsInv, RunsNumbered, TypeInv, TypeOK, Source
<1>3. QED
  BY <1>1, <1>2

\* and goes on doing so.
LEMMA SourceStays ==
  ASSUME TypeInv, Effects, NEW t, NEW r, NEW S, Source(t, r, S)
  PROVE  Source(t, r, S)'
<1>1. nextRun <= nextRun' /\ nextRun \in Int /\ nextRun' \in Int
  BY ConfigAssumption DEF Effects, ControlStep, Forward, Begins, TypeInv, TypeOK
<1>2. r < nextRun'
  BY <1>1 DEF Source, Runs
<1>3. BatchItems(r)' = BatchItems(r)
  BY BatchStays DEF Source
<1>4. S \subseteq Destined(t, BatchItems(r))'
  BY <1>3 DEF Source, Destined
<1>5. t # "raw_events" => AllPresent("raw_events", S)'
  BY PresentStays DEF Source, AllPresent, Tables
<1>6. QED
  BY <1>2, <1>4, <1>5 DEF Source

\* RowsInv is inductive, given the rest of RunInv.
LEMMA RowsStep ==
  ASSUME TypeInv, TypeInv', RunsNumbered, CallInv, RowsInv, Effects
  PROVE  RowsInv'
<1>1. ASSUME NEW t \in Tables, NEW row \in table'[t]
      PROVE  /\ \E e \in Destined(t, BatchItems(row.run))' : e.id = row.id
             /\ row.snap <= version'[t]
             /\ Present("raw_events", row)'
  <2>1. CASE row \in table[t]
    <3>1. row.run \in Runs /\ row.run < nextRun /\ row.snap \in Int
      BY <2>1 DEF TypeInv, TypeOK, Row, RunsNumbered
    <3>2. /\ \E e \in Destined(t, BatchItems(row.run)) : e.id = row.id
          /\ row.snap <= version[t]
          /\ Present("raw_events", row)
      BY <2>1 DEF RowsInv
    <3>3. version[t] <= version'[t] /\ version[t] \in Int /\ version'[t] \in Int
      BY DEF Effects, TablesStep, TypeInv, TypeOK
    <3>4. row.snap <= version'[t]
      BY <3>1, <3>2, <3>3
    <3>5. Destined(t, BatchItems(row.run))' = Destined(t, BatchItems(row.run))
      BY <3>1, BatchStays DEF Destined
    <3>6. Present("raw_events", row)'
      BY <3>2, PresentStays DEF Tables
    <3>7. QED
      BY <3>2, <3>4, <3>5, <3>6
  <2>2. CASE row \notin table[t]
    <3>1. /\ row.snap = version'[t]
          /\ \E S : Source(t, row.run, S) /\ \E e \in S : e.id = row.id
      BY <1>1, <2>2, Sources DEF Effects, TablesStep
    <3>2. PICK S : Source(t, row.run, S) /\ \E e \in S : e.id = row.id
      BY <3>1
    <3>3. PICK e \in S : e.id = row.id
      BY <3>2
    <3>4. Source(t, row.run, S)'
      BY <3>2, SourceStays
    <3>5. e \in Destined(t, BatchItems(row.run))'
      BY <3>3, <3>4 DEF Source
    <3>6. row.snap <= version'[t]
      BY <3>1 DEF TypeInv, TypeOK
    <3>7. Present("raw_events", row)'
      <4>1. CASE t = "raw_events"
        BY <1>1, <4>1 DEF Present
      <4>2. CASE t # "raw_events"
        <5>1. Present("raw_events", e)'
          BY <3>3, <3>4, <4>2 DEF Source, AllPresent
        <5>2. QED
          BY <3>3, <5>1 DEF Present
      <4>3. QED
        BY <4>1, <4>2
    <3>8. QED
      BY <3>3, <3>5, <3>6, <3>7
  <2>3. QED
    BY <2>1, <2>2
<1>2. ASSUME NEW m \in lostMerges'
      PROVE  Source(m.table, m.run, m.events)'
  <2>1. Source(m.table, m.run, m.events)
    BY <1>2, Sources DEF Effects, LostStep
  <2>2. QED
    BY <2>1, SourceStays
<1>3. QED
  BY <1>1, <1>2 DEF RowsInv, Source

\* What the final write says is true when it is made.
LEMMA FinishClaim ==
  ASSUME TypeInv, RunsNumbered, CallInv, NEW w \in Writers, pc[w] = "finish_run"
  PROVE  Claim(run[w], CompletedRow(run[w], tally[w]))
<1> DEFINE r == run[w]
           row == CompletedRow(r, tally[w])
<1>1. r \in Runs /\ r < nextRun /\ pc[w] \in Counting
  BY DEF TypeInv, InCall, RunsNumbered, Counting
<1>2. Settled(r)
  BY <1>1, SettledAtEnd DEF CallInv
<1>3. /\ tally[w].committed = CountForRun("application_logs", r)
      /\ tally[w].quarantined = CountForRun("quarantine_events", r)
      /\ Covers(r, tally[w])
  BY DEF CallInv, Counts
<1>4. Accounts(r, row)
  <2>1. /\ tally[w].committed \in Nat /\ tally[w].quarantined \in Nat
        /\ Len(batchOf[r]) \in Nat
        /\ Cardinality(Items(batchOf[r])) \in Nat
    BY <1>1, ItemsDistinct, EventsFinite DEF TypeInv, TypeOK
  <2>2. row.duplicates = Len(batchOf[r]) - tally[w].committed - tally[w].quarantined
    BY <2>1 DEF CompletedRow, InputDuplicates
  <2>3. row.status = "COMPLETED" <=> tally[w].quarantined = 0
    BY <2>1 DEF CompletedRow
  <2>4. /\ row.received = Len(batchOf[r])
        /\ row.committed = tally[w].committed
        /\ row.quarantined = tally[w].quarantined
    BY DEF CompletedRow
  <2>5. QED
    BY <1>3, <2>2, <2>3, <2>4 DEF Accounts
<1>5. Backed(r)
  <2>1. Written(pc[w]) = Tables
    BY DEF Written, Counting
  <2>2. QED
    BY <2>1 DEF CallInv, Delivers, Backed
<1>6. Covers(r, row)
  BY <1>3 DEF Covers, CompletedRow
<1>7. QED
  BY <1>1, <1>2, <1>4, <1>5, <1>6 DEF Claim

\* Only the final write says that a run is completed.
LEMMA CompletedWrite ==
  ASSUME TypeInv, RunsNumbered, CallInv, NEW w \in Writers, pc[w] \in RunWriteSteps,
         RunWrite(w).row.status \in Completed
  PROVE  Claim(run[w], RunWrite(w).row)
<1>1. pc[w] = "finish_run"
  BY DEF RunWrite, RunningRow, FailedRow, Completed
<1>2. RunWrite(w).row = CompletedRow(run[w], tally[w])
  BY <1>1 DEF RunWrite
<1>3. QED
  BY <1>1, <1>2, FinishClaim

\* ClaimsInv is inductive: a completed row is written when its claim holds, and claims stay.
LEMMA ClaimsStep ==
  ASSUME TypeInv, RunsNumbered, CallInv, ClaimsInv, Effects
  PROVE  ClaimsInv'
<1>1. ASSUME NEW r \in Runs, runs'[r].status \in Completed
      PROVE  Claim(r, runs[r])'
  <2>1. PICK row : row = runs'[r]
    OBVIOUS
  <2>2. Claim(r, row)
    <3>1. CASE runs'[r] = runs[r]
      BY <1>1, <2>1, <3>1 DEF ClaimsInv
    <3>2. ASSUME NEW w \in Writers, pc[w] \in RunWriteSteps, run[w] = r,
                 runs'[r] = RunWrite(w).row
          PROVE  Claim(r, row)
      BY <1>1, <2>1, <3>2, CompletedWrite
    <3>3. ASSUME NEW x \in lostRunWrites, x.run = r, runs'[r] = x.row
          PROVE  Claim(r, row)
      BY <1>1, <2>1, <3>3 DEF ClaimsInv
    <3>4. QED
      BY <3>1, <3>2, <3>3 DEF Effects, RunsStep
  <2>3. Claim(r, row)'
    BY <2>2, ClaimStays
  <2>4. QED
    BY <2>1, <2>3 DEF Claim, Accounts, Covers
<1>2. ASSUME NEW x \in lostRunWrites', x.row.status \in Completed
      PROVE  Claim(x.run, x.row)'
  <2>1. Claim(x.run, x.row) /\ x.run \in Runs
    <3>1. CASE x \in lostRunWrites
      BY <1>2, <3>1 DEF ClaimsInv, TypeInv, TypeOK
    <3>2. ASSUME NEW w \in Writers, pc[w] \in RunWriteSteps, x = RunWrite(w)
          PROVE  Claim(x.run, x.row) /\ x.run \in Runs
      <4>1. x.run = run[w] /\ run[w] \in Runs
        BY <3>2 DEF RunWrite, TypeInv, InCall, RunWriteSteps
      <4>2. QED
        BY <1>2, <3>2, <4>1, CompletedWrite
    <3>3. QED
      BY <3>1, <3>2 DEF Effects, LostStep
  <2>2. QED
    BY <2>1, ClaimStays
<1>3. QED
  BY <1>1, <1>2 DEF ClaimsInv
\* ReturnsInv is inductive: nobody is left who would write the row of a returned run.
LEMMA ReturnsInvStep ==
  ASSUME TypeInv, RunsNumbered, CallInv, ReturnsInv, Effects
  PROVE  ReturnsInv'
<1> DEFINE Over(r) == /\ \A w \in Writers : pc'[w] # "idle" => run'[w] # r
                      /\ \A x \in lostRunWrites' : x.run # r
<1>1. ASSUME NEW r \in Runs, r < nextRun,
             \A w \in Writers : pc'[w] # "idle" /\ pc[w] # "idle" => run[w] # r
      PROVE  \A w \in Writers : pc'[w] # "idle" => run'[w] # r
  <2>1. CASE Forward
    BY <1>1, <2>1 DEF Forward
  <2>2. ASSUME NEW u \in Writers, Begins(u), NEW w \in Writers, pc'[w] # "idle" PROVE run'[w] # r
    <3>1. r # nextRun
      BY <1>1 DEF TypeInv, TypeOK, Runs
    <3>2. QED
      BY <1>1, <2>2, <3>1 DEF Begins
  <2>3. QED
    BY <2>1, <2>2 DEF Effects, ControlStep
<1>2. ASSUME NEW res \in returned
      PROVE  runs'[res.run] = res.row /\ res.row.status \in Completed /\ Over(res.run)
  <2>1. res.run \in Runs /\ res.run < nextRun
    BY DEF RunsNumbered, TypeInv, TypeOK
  <2>2. /\ runs[res.run] = res.row
        /\ res.row.status \in Completed
        /\ \A w \in Writers : pc[w] # "idle" => run[w] # res.run
        /\ \A x \in lostRunWrites : x.run # res.run
    BY DEF ReturnsInv
  <2>3. \A w \in Writers : pc[w] \in RunWriteSteps => run[w] # res.run
    BY <2>2 DEF RunWriteSteps
  <2>4. runs'[res.run] = runs[res.run]
    BY <2>1, <2>2, <2>3 DEF Effects, RunsStep
  <2>5. \A x \in lostRunWrites' : x.run # res.run
    BY <2>2, <2>3 DEF Effects, LostStep, RunWrite
  <2>6. \A w \in Writers : pc'[w] # "idle" => run'[w] # res.run
    BY <1>1, <2>1, <2>2
  <2>7. QED
    BY <2>2, <2>4, <2>5, <2>6
<1>3. ASSUME NEW w \in Writers, pc[w] = "finish_run", pc'[w] = "idle",
             ApplyRunWrite(RunWrite(w)), UNCHANGED lostRunWrites
      PROVE  /\ runs'[run[w]] = RunWrite(w).row
             /\ RunWrite(w).row.status \in Completed
             /\ Over(run[w])
  <2>1. run[w] \in Runs /\ run[w] < nextRun /\ pc[w] # "idle"
    BY <1>3 DEF RunsNumbered, TypeInv, InCall
  <2>2. /\ runs[run[w]].status = "RUNNING"
        /\ \A x \in lostRunWrites : x.run # run[w]
    BY <1>3 DEF CallInv, Clean, Recorded, Counting
  <2>3. /\ RunWrite(w).run = run[w] /\ RunWrite(w).step = "finish_run"
        /\ RunWrite(w).row.status \in Completed
    BY <1>3 DEF RunWrite, CompletedRow, Completed
  <2>4. runs'[run[w]] = RunWrite(w).row
    <3>1. runs[run[w]] # NoRow
      BY <2>2 DEF NoRow
    <3>2. runs' = [runs EXCEPT ![run[w]] = RunWrite(w).row]
      BY <1>3, <2>3, <3>1 DEF ApplyRunWrite
    <3>3. QED
      BY <2>1, <3>2 DEF TypeInv, TypeOK
  <2>5. \A v \in Writers : pc'[v] # "idle" /\ pc[v] # "idle" => run[v] # run[w]
    BY <1>3, <2>1, OtherRun
  <2>6. \A v \in Writers : pc'[v] # "idle" => run'[v] # run[w]
    BY <1>1, <2>1, <2>5
  <2>7. QED
    BY <1>3, <2>2, <2>3, <2>4, <2>6
<1>4. ASSUME NEW res \in returned'
      PROVE  runs'[res.run] = res.row /\ res.row.status \in Completed /\ Over(res.run)
  BY <1>2, <1>3, <1>4 DEF Effects, ReturnsStep
<1>5. QED
  BY <1>4 DEF ReturnsInv

-------------------------------------------------------------------------------
(***************************************************************************)
(* The invariant holds.                                                    *)
(***************************************************************************)
LEMMA RunInvInit == Init => RunInv
<1> SUFFICES ASSUME Init PROVE RunInv
  OBVIOUS
<1>1. RunsNumbered
  BY DEF Init, RunsNumbered, Runs
<1>2. CallInv
  BY DEF Init, CallInv, Clean, Delivers, Counts, Recorded, Counting, Tables, Written
<1>3. RowsInv
  BY DEF Init, RowsInv
<1>4. ClaimsInv
  BY DEF Init, ClaimsInv, NoRow, Completed
<1>5. ReturnsInv
  BY DEF Init, ReturnsInv
<1>6. QED
  BY <1>1, <1>2, <1>3, <1>4, <1>5, MergeInvInit DEF RunInv

\* RunInv is inductive.
LEMMA RunInvStep == RunInv /\ [Next]_vars => RunInv'
<1> SUFFICES ASSUME RunInv, [Next]_vars PROVE RunInv'
  OBVIOUS
<1>1. /\ MergeInv /\ RunsNumbered /\ CallInv /\ RowsInv /\ ClaimsInv /\ ReturnsInv
      /\ TypeInv
  BY DEF RunInv, MergeInv
<1>2. MergeInv' /\ TypeInv'
  BY <1>1, MergeInvStep, TypeStep
<1>3. Effects
  BY <1>1, StepEffects
<1>4. RunsNumbered' /\ RowsInv' /\ ClaimsInv' /\ ReturnsInv'
  BY <1>1, <1>2, <1>3, NumberedStep, RowsStep, ClaimsStep, ReturnsInvStep
<1>5. CallInv'
  BY <1>1, <1>3, CallInvStep
<1>6. QED
  BY <1>2, <1>4, <1>5 DEF RunInv

\* RunInv holds in every reachable state.
LEMMA RunInvHolds == Spec => []RunInv
BY RunInvInit, RunInvStep, PTL DEF Spec

\* A row that says COMPLETED is never ahead of the data, for any number of writers, lost
\* answers and crashes (ingest_events writes it after all MERGEs were acknowledged).
THEOREM CompletedStored == Spec => []CompletedRunIsStored
<1>1. RunInv => CompletedRunIsStored
  BY DEF RunInv, ClaimsInv, Claim, Backed, AllPresent, Present, BatchItems, CompletedRunIsStored
<1>2. QED
  BY <1>1, RunInvHolds, PTL

\* No statement that a failed attempt left behind rewrites the row of a run whose result
\* was returned.
THEOREM ResultsStand == Spec => []ReturnedResultStands
<1>1. RunInv => ReturnedResultStands
  BY DEF RunInv, ReturnsInv, ReturnedResultStands
<1>2. QED
  BY <1>1, RunInvHolds, PTL

\* The snapshot_id of a completed run shows every row that the run added
\* (_latest_snapshot_id is read after the last MERGE was acknowledged).
THEOREM SnapshotCovers == Spec => []SnapshotCoversRun
<1>1. RunInv => SnapshotCoversRun
  BY DEF RunInv, ClaimsInv, Claim, Covers, RowsOfRun, SnapshotCoversRun
<1>2. QED
  BY <1>1, RunInvHolds, PTL
-------------------------------------------------------------------------------
(***************************************************************************)
(* The arithmetic of the duplicates.                                       *)
(***************************************************************************)

\* The dictionary of the batch is no larger than the batch.
LEMMA ItemsCount ==
  ASSUME NEW input \in Seq(Events)
  PROVE  IsFiniteSet(Items(input)) /\ Cardinality(Items(input)) <= Len(input)
<1> DEFINE K == {k \in DOMAIN input : \A j \in DOMAIN input : j > k => input[j].id # input[k].id}
           f == [k \in K |-> input[k]]
<1>1. Len(input) \in Nat /\ DOMAIN input = 1..Len(input)
  OBVIOUS
<1>2. IsFiniteSet(1..Len(input)) /\ Cardinality(1..Len(input)) = Len(input)
  BY <1>1, FS_Interval
<1>3. K \in SUBSET (1..Len(input))
  BY <1>1
<1>4. IsFiniteSet(K) /\ Cardinality(K) <= Len(input)
  BY <1>2, <1>3, FS_Subset
<1>5. f \in Surjection(K, Items(input))
  BY DEF Surjection, Items
<1> HIDE DEF K, f
<1>6. IsFiniteSet(Items(input)) /\ Cardinality(Items(input)) <= Cardinality(K)
  BY <1>4, <1>5, FS_Surjection
<1>7. Cardinality(Items(input)) \in Nat /\ Cardinality(K) \in Nat
  BY <1>4, <1>6, FS_CardinalityType
<1>8. QED
  BY <1>1, <1>4, <1>6, <1>7

\* A run has at most one row for each event of its batch that is destined for the table.
LEMMA RowsOfRunCount ==
  ASSUME TypeInv, OneRowPerEvent, RowsInv, NEW t \in Tables, NEW r \in Runs
  PROVE  CountForRun(t, r) <= Cardinality(Destined(t, BatchItems(r)))
<1> DEFINE D == Destined(t, BatchItems(r))
           R == {row \in table[t] : row.run = r}
           f == [row \in R |-> CHOOSE e \in D : e.id = row.id]
<1>1. IsFiniteSet(D)
  <2>1. BatchItems(r) \in SUBSET Events
    BY ItemsDistinct DEF BatchItems, TypeInv, TypeOK
  <2>2. D \in SUBSET Events
    BY <2>1 DEF Destined
  <2>3. QED
    BY <2>2, EventsFinite
<1>2. \A row \in R : \E e \in D : e.id = row.id
  BY DEF RowsInv
<1> HIDE DEF D
<1>3. \A row \in R : f[row] \in D /\ f[row].id = row.id
  BY <1>2
<1>4. \A x, y \in R : x.id = y.id => x = y
  BY DEF OneRowPerEvent
<1> HIDE DEF R
<1>5. f \in Injection(R, D)
  BY <1>3, <1>4 DEF Injection, IsInjective
<1> HIDE DEF f
<1>6. Cardinality(R) <= Cardinality(D)
  BY <1>1, <1>5, FS_Injection
<1>7. QED
  BY <1>6 DEF CountForRun, R, D

\* What is committed and what is quarantined is no more than what was received.
LEMMA DuplicatesNatural ==
  ASSUME TypeInv, OneRowPerEvent, RowsInv, NEW r \in Runs
  PROVE  CountForRun("application_logs", r) + CountForRun("quarantine_events", r)
           <= Len(batchOf[r])
<1> DEFINE I == BatchItems(r)
           A == Destined("application_logs", I)
           Q == Destined("quarantine_events", I)
<1>1. batchOf[r] \in Seq(Events) /\ Len(batchOf[r]) \in Nat
  BY DEF TypeInv, TypeOK
<1>2. IsFiniteSet(I) /\ Cardinality(I) <= Len(batchOf[r])
  BY <1>1, ItemsCount DEF BatchItems
<1>3. A \in SUBSET I /\ Q \in SUBSET I /\ A \cup Q \in SUBSET I /\ A \cap Q = {}
  BY DEF Destined
<1>4. /\ CountForRun("application_logs", r) <= Cardinality(A)
      /\ CountForRun("quarantine_events", r) <= Cardinality(Q)
  BY RowsOfRunCount DEF Tables
<1> HIDE DEF I, A, Q
<1>5. IsFiniteSet(A) /\ IsFiniteSet(Q) /\ Cardinality(A \cup Q) <= Cardinality(I)
  BY <1>2, <1>3, FS_Subset
<1>6. Cardinality(A \cup Q) = Cardinality(A) + Cardinality(Q) - Cardinality({})
  BY <1>3, <1>5, FS_Union
<1>7. Cardinality({}) = 0
  BY FS_EmptySet
<1>8. /\ Cardinality(A) \in Nat /\ Cardinality(Q) \in Nat /\ Cardinality(I) \in Nat
  BY <1>2, <1>5, FS_CardinalityType
<1>9. /\ CountForRun("application_logs", r) \in Nat
      /\ CountForRun("quarantine_events", r) \in Nat
  BY CountType DEF Tables, TypeInv
<1>10. QED
  BY <1>1, <1>2, <1>4, <1>5, <1>6, <1>7, <1>8, <1>9

\* A completed run row accounts for every event received: the counts are those of the rows
\* that carry the run, and what is left over, the duplicates, is never negative.
THEOREM RunsAccount == Spec => []CompletedRunAccounts
<1>1. ASSUME RunInv, NEW r \in Runs, runs[r].status \in Completed
      PROVE  /\ runs[r].received = Len(batchOf[r])
             /\ runs[r].committed = CountForRun("application_logs", r)
             /\ runs[r].quarantined = CountForRun("quarantine_events", r)
             /\ runs[r].duplicates >= 0
             /\ runs[r].duplicates =
                  runs[r].received - runs[r].committed - runs[r].quarantined
             /\ runs[r].status = "COMPLETED" <=> runs[r].quarantined = 0
  <2>1. TypeInv /\ OneRowPerEvent /\ RowsInv
    BY <1>1 DEF RunInv, MergeInv
  <2>2. Accounts(r, runs[r])
    BY <1>1 DEF RunInv, ClaimsInv, Claim
  <2>3. CountForRun("application_logs", r) + CountForRun("quarantine_events", r)
          <= Len(batchOf[r])
    BY <2>1, DuplicatesNatural
  <2>4. /\ CountForRun("application_logs", r) \in Nat
        /\ CountForRun("quarantine_events", r) \in Nat
        /\ Len(batchOf[r]) \in Nat
    BY <2>1, CountType DEF Tables, TypeInv, TypeOK
  <2>5. runs[r].duplicates >= 0
    BY <2>2, <2>3, <2>4 DEF Accounts
  <2>6. QED
    BY <2>2, <2>5 DEF Accounts
<1>2. RunInv => CompletedRunAccounts
  BY <1>1 DEF CompletedRunAccounts
<1>3. QED
  BY <1>2, RunInvHolds, PTL
-------------------------------------------------------------------------------
(***************************************************************************)
(* TrinoIngest implements EventStore: the commit of a MERGE is a Store, a  *)
(* returned result is an Acknowledge, and everything else is a stutter.    *)
(***************************************************************************)
Copies == [t \in Tables |->
             [id \in EventIds |-> Cardinality({r \in table[t] : r.id = id})]]
Acknowledged == UNION {{e.id : e \in Items(batchOf[res.run])} : res \in returned}

\* With one row per event, the number of copies says whether there is one.
OneCopy ==
  \A t \in Tables : \A id \in EventIds :
    Copies[t][id] = IF \E row \in table[t] : row.id = id THEN 1 ELSE 0

\* At most one copy is stored of every event.
LEMMA CopiesCount == RunInv => OneCopy
<1> SUFFICES ASSUME OneRowPerEvent, NEW t \in Tables, NEW id \in EventIds
             PROVE  Copies[t][id] = IF \E row \in table[t] : row.id = id THEN 1 ELSE 0
  BY DEF OneCopy, RunInv, MergeInv
<1> DEFINE S == {r \in table[t] : r.id = id}
<1>1. Copies[t][id] = Cardinality(S)
  BY DEF Copies
<1>2. CASE \E row \in table[t] : row.id = id
  <2>1. PICK row \in table[t] : row.id = id
    BY <1>2
  <2>2. S = {row}
    BY <2>1 DEF OneRowPerEvent
  <2>3. Cardinality(S) = 1
    BY <2>2, FS_Singleton
  <2>4. QED
    BY <1>1, <1>2, <2>3
<1>3. CASE ~ \E row \in table[t] : row.id = id
  <2>1. S = {}
    BY <1>3
  <2>2. Cardinality(S) = 0
    BY <2>1, FS_EmptySet
  <2>3. QED
    BY <1>1, <1>3, <2>2
<1>4. QED
  BY <1>2, <1>3

\* Results are returned by steps that commit no event.
LEMMA ReturnsOrStores ==
  [Next]_vars => returned' = returned \/ (returned \subseteq returned' /\ table' = table)
<1> SUFFICES ASSUME [Next]_vars
             PROVE  returned' = returned \/ (returned \subseteq returned' /\ table' = table)
  OBVIOUS
<1>1. ASSUME NEW w \in Writers, FinishRun(w)
      PROVE  returned \subseteq returned' /\ table' = table
  BY <1>1 DEF FinishRun
<1>2. ASSUME NEW w \in Writers,
             \/ IngestNothing(w) \/ IngestUnidentified(w)
             \/ \E input \in Inputs : IngestEvents(w, input)
             \/ InsertRun(w) \/ AssertEventsFit(w)
             \/ \E batch \in SUBSET todo[w] : SendBatch(w, batch)
             \/ RejectBatch(w) \/ NextTable(w) \/ PlanMerge(w) \/ CommitMerge(w)
      PROVE  returned' = returned
  BY <1>2 DEF IngestNothing, IngestUnidentified, IngestEvents, InsertRun, AssertEventsFit,
              RaiseTooLarge, SendBatch, RejectBatch, NextTable, PlanMerge, CommitMerge, history
<1>3. ASSUME NEW w \in Writers,
             \/ ConflictMerge(w) \/ CountCommitted(w) \/ CountQuarantined(w)
             \/ ReadSnapshot(w) \/ RecordFailure(w) \/ ConflictRunWrite(w)
             \/ LoseAnswer(w) \/ Crash(w)
      PROVE  returned' = returned
  BY <1>3 DEF ConflictMerge, CountCommitted, CountQuarantined, ReadSnapshot, RecordFailure,
              ConflictRunWrite, LoseAnswer, Crash, history
<1>4. ASSUME \/ \E m \in lostMerges : LandMerge(m)
             \/ \E x \in lostRunWrites : LandRunWrite(x)
      PROVE  returned' = returned
  BY <1>4 DEF LandMerge, LandRunWrite, history
<1>5. CASE Next
  BY <1>1, <1>2, <1>3, <1>4, <1>5 DEF Next, CallStep
<1>6. CASE UNCHANGED vars
  BY <1>6 DEF vars, history
<1>7. QED
  BY <1>5, <1>6
\* A table never loses an event, and never holds one without its original.
StoredWell ==
  \A t \in Tables : \A row \in table[t] : \E raw \in table["raw_events"] : raw.id = row.id

\* Every event of a returned run is in raw_events and in the table of its verdict.
AllStored ==
  \A id \in Acknowledged : \E t \in Tables \ {"raw_events"} :
    /\ \E row \in table[t] : row.id = id
    /\ \E row \in table["raw_events"] : row.id = id

\* The invariant makes the abstract state one of EventStore.
LEMMA RunInvStores == RunInv => OneCopy /\ StoredWell /\ AllStored
<1> SUFFICES ASSUME RunInv PROVE StoredWell /\ AllStored
  BY CopiesCount
<1>1. StoredWell
  BY DEF RunInv, RowsInv, Present, StoredWell
<1>2. ASSUME NEW res \in returned, NEW e \in Items(batchOf[res.run])
      PROVE  \E t \in Tables \ {"raw_events"} :
               /\ \E row \in table[t] : row.id = e.id
               /\ \E row \in table["raw_events"] : row.id = e.id
  <2>1. res.run \in Runs /\ e.ok \in BOOLEAN
    BY EventsAssumption, ItemsDistinct DEF RunInv, MergeInv, TypeInv, TypeOK
  <2>2. runs[res.run].status \in Completed
    BY DEF RunInv, ReturnsInv
  <2>3. Backed(res.run)
    BY <2>1, <2>2 DEF RunInv, ClaimsInv, Claim
  <2>4. /\ e \in Destined("raw_events", BatchItems(res.run))
        /\ e.ok => e \in Destined("application_logs", BatchItems(res.run))
        /\ ~ e.ok => e \in Destined("quarantine_events", BatchItems(res.run))
    BY DEF Destined, BatchItems
  <2>5. QED
    BY <2>1, <2>3, <2>4 DEF Backed, AllPresent, Present, Tables
<1>3. AllStored
  BY <1>2 DEF AllStored, Acknowledged
<1>4. QED
  BY <1>1, <1>3

\* The initial states are those of EventStore.
LEMMA StoreInitially == Init => Promise!StoreInit
<1> SUFFICES ASSUME Init PROVE Promise!StoreInit
  OBVIOUS
<1>1. ASSUME NEW t \in Tables, NEW id \in EventIds
      PROVE  Cardinality({r \in table[t] : r.id = id}) = 0
  <2>1. {r \in table[t] : r.id = id} = {}
    BY DEF Init
  <2>2. QED
    BY <2>1, FS_EmptySet
<1>2. Acknowledged = {}
  BY DEF Init, Acknowledged
<1>3. QED
  BY <1>1, <1>2 DEF Promise!StoreInit, Acknowledged

\* Every step is one of EventStore or leaves its variables alone.
LEMMA StoreStep ==
  ASSUME RunInv, RunInv', [Next]_vars
  PROVE  Promise!Store \/ Promise!Acknowledge
<1>1. TypeInv /\ RunsNumbered /\ Effects
  BY StepEffects DEF RunInv, MergeInv
<1>2. OneCopy /\ StoredWell /\ AllStored
  BY RunInvStores
<1>3. OneCopy' /\ StoredWell' /\ AllStored'
  BY RunInvStores, PTL
<1>4. \A res \in returned : Items(batchOf'[res.run]) = Items(batchOf[res.run])
  BY <1>1 DEF RunsNumbered, Effects, ControlStep, TypeInv, TypeOK
<1>5. CASE returned' = returned
  <2>1. Acknowledged' = Acknowledged
    BY <1>4, <1>5 DEF Acknowledged
  <2>2. ASSUME NEW t \in Tables, NEW id \in EventIds
        PROVE  /\ Copies'[t][id] \in {0, 1}
               /\ Copies'[t][id] >= Copies[t][id]
               /\ Copies'[t][id] = 1 => Copies'["raw_events"][id] = 1
    <3>1. table[t] \subseteq table'[t]
      BY <1>1 DEF Effects, TablesStep
    <3>2. QED
      BY <1>2, <1>3, <3>1 DEF OneCopy, StoredWell, Tables
  <2>3. Copies' \in [Tables -> [EventIds -> {0, 1}]]
    BY <2>2 DEF Copies
  <2>4. Promise!Store
    BY <2>1, <2>2, <2>3 DEF Promise!Store, Copies, Acknowledged
  <2>5. QED
    BY <2>4
<1>6. CASE returned \subseteq returned' /\ table' = table
  <2>1. Copies' = Copies
    BY <1>6 DEF Copies
  <2>2. Acknowledged \subseteq Acknowledged'
    BY <1>4, <1>6 DEF Acknowledged
  <2>3. Acknowledged' \subseteq EventIds
    <3>1. \A res \in returned' : batchOf'[res.run] \in Seq(Events)
      BY DEF RunInv, MergeInv, TypeInv, TypeOK
    <3>2. \A res \in returned' : Items(batchOf'[res.run]) \subseteq Events
      BY <3>1, ItemsDistinct
    <3>3. QED
      BY <3>2 DEF Acknowledged, EventIds
  <2>4. ASSUME NEW id \in Acknowledged'
        PROVE  \E t \in Tables \ {"raw_events"} :
                 Copies[t][id] = 1 /\ Copies["raw_events"][id] = 1
    BY <1>2, <1>3, <1>6, <2>3 DEF AllStored, OneCopy, Tables
  <2>5. Promise!Acknowledge
    BY <2>1, <2>2, <2>4 DEF Promise!Acknowledge, Copies, Acknowledged
  <2>6. QED
    BY <2>5
<1>7. QED
  BY <1>5, <1>6, ReturnsOrStores

\* Whatever interleaves, conflicts, is lost or lands late: an event is stored at most once,
\* never without its original, never taken away, and acknowledged only when it is stored.
THEOREM StoresEvents == Spec => ImplementsEventStore
<1>1. RunInv /\ RunInv' /\ [Next]_vars => [Promise!Store \/ Promise!Acknowledge]_Promise!storeVars
  BY StoreStep
<1>2. QED
  BY <1>1, StoreInitially, RunInvHolds, PTL DEF ImplementsEventStore, Promise!StoreSpec, Spec
===============================================================================
