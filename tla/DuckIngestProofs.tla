--------------------------- MODULE DuckIngestProofs ---------------------------
(***************************************************************************)
(* Proofs about DuckIngest, for every set of sessions, every finite set of *)
(* events, every batch and bound: types, that a batch is stored as a whole *)
(* or not at all, that the frames of one dashboard belong together, and    *)
(* that DuckIngest implements EventStore.                                  *)
(*                                                                         *)
(* The argument follows the open transaction.  Its session has the lock,   *)
(* so the disk stands still; what the transaction sees beyond the disk are *)
(* rows of its own run for events of its own batch, and table by table all *)
(* of them.  COMMIT makes that the disk, in one step with the run row.     *)
(***************************************************************************)
EXTENDS DuckIngest, FiniteSetTheorems, FunctionTheorems, TLAPS

-------------------------------------------------------------------------------
(***************************************************************************)
(* The inductive invariant.                                                *)
(***************************************************************************)

\* The steps at which a session has the lock of the path.
Holding == Tables \cup {"recording", "committing", "rolling_back", "record_failure", "reading"}

\* The steps of a call that has not committed, and those inside its transaction.
Writing == Tables \cup {"recording", "committing"}
Pending == Writing \cup {"opening", "rolling_back", "record_failure"}
Calling == Pending \cup {"returning"}

Ids(rows) == {row.id : row \in rows}
Batch(r) == Items(batchOf[r])
IsCompleted(r) == disk.runs[r].status \in Completed

\* The lock belongs to the session that stands between opening and closing.
LockInv == \A s \in Sessions : pc[s] \in Holding <=> lock = s

\* Runs are numbered one by one, and a run is completed from its commit on.
RunsInv ==
  /\ \A s \in Sessions : pc[s] \in Calling => run[s] \in Runs /\ run[s] < nextRun
  /\ \A s, x \in Sessions :
       s # x /\ pc[s] \in Calling /\ pc[x] \in Calling => run[s] # run[x]
  /\ \A s \in Sessions : pc[s] \in Pending => ~ IsCompleted(run[s])
  /\ \A s \in Sessions : pc[s] = "returning" => IsCompleted(run[s])
  /\ \A r \in Runs : r >= nextRun => ~ IsCompleted(r)
  /\ \A r \in returned : IsCompleted(r)

Stored(db, t, S) == \A e \in S : \E row \in db.table[t] : row.id = e.id

OneRow(db) == \A t \in Tables : \A x, y \in db.table[t] : x.id = y.id => x = y

\* Every event of a completed run is stored; a run without a completed row has no rows.
DiskInv ==
  /\ OneRow(disk)
  /\ Ids(disk.table["raw_events"]) =
       Ids(disk.table["application_logs"]) \cup Ids(disk.table["quarantine_events"])
  /\ \A r \in Runs : IsCompleted(r) => \A t \in Tables : Stored(disk, t, Destined(t, Batch(r)))
  /\ \A t \in Tables : \A row \in disk.table[t] : IsCompleted(row.run)

\* What the open transaction of session s has not written to table t yet.
Missing(s, t) ==
  IF pc[s] = t THEN todo[s]
  ELSE IF \/ pc[s] = "raw_events"
          \/ pc[s] = "application_logs" /\ t = "quarantine_events"
  THEN Destined(t, Batch(run[s]))
  ELSE {}

\* The rows of a table as a transaction of run r sees it: those of the disk, one per event,
\* and rows of its own run for events of D, all of which it has but the missing ones.
Extension(rows, base, r, D, missing) ==
  /\ base \subseteq rows
  /\ \A x, y \in rows : x.id = y.id => x = y
  /\ \A row \in rows :
       row \in base \/ (row.run = r /\ [id |-> row.id, ok |-> row.ok] \in D)
  /\ missing \subseteq D
  /\ \A e \in D \ missing : \E row \in rows : row.id = e.id

\* The open transaction of s sees the disk and rows of its own run, of its own batch.
Transaction(s) ==
  /\ \A t \in Tables : Extension(work.table[t], disk.table[t], run[s],
                                 Destined(t, Batch(run[s])), Missing(s, t))
  /\ work.runs = IF pc[s] = "committing"
                 THEN [disk.runs EXCEPT ![run[s]] = CompletedRow(work, run[s])]
                 ELSE disk.runs

WorkInv == \A s \in Sessions : pc[s] \in Writing => Transaction(s)

\* query_many reads what was on disk when it connected, and nothing else.
ReadInv ==
  \A s \in Sessions : pc[s] = "reading" =>
    /\ work = disk
    /\ \A t \in Tables \ unread[s] : frames[s][t] = Ids(disk.table[t])

TypeInv == TypeOK /\ LockInv
DuckInv == TypeInv /\ RunsInv /\ DiskInv /\ WorkInv /\ ReadInv

-------------------------------------------------------------------------------
(***************************************************************************)
(* The batch.                                                              *)
(***************************************************************************)

\* The dictionary that ingest_events builds holds events of the batch, one per event_id.
LEMMA ItemsDistinct ==
  ASSUME NEW input \in Seq(Events)
  PROVE  /\ Items(input) \subseteq Events
         /\ \A e, f \in Items(input) : e.id = f.id => e = f
<1>1. Items(input) \subseteq Events
  BY DEF Items
<1>2. ASSUME NEW e \in Items(input), NEW f \in Items(input), e.id = f.id
      PROVE  e = f
  <2>1. PICK i \in DOMAIN input :
          e = input[i] /\ \A j \in DOMAIN input : j > i => input[j].id # input[i].id
    BY DEF Items
  <2>2. PICK k \in DOMAIN input :
          f = input[k] /\ \A j \in DOMAIN input : j > k => input[j].id # input[k].id
    BY DEF Items
  <2>3. i \in Nat /\ k \in Nat
    BY <2>1, <2>2
  <2>4. ~ (i < k) /\ ~ (k < i)
    BY <1>2, <2>1, <2>2, <2>3
  <2>5. QED
    BY <2>1, <2>2, <2>3, <2>4
<1>3. QED
  BY <1>1, <1>2

\* The dictionary of the batch is no larger than the batch.
LEMMA ItemsCount ==
  ASSUME NEW input \in Seq(Events)
  PROVE  IsFiniteSet(Items(input)) /\ Cardinality(Items(input)) <= Len(input)
<1> DEFINE K == {k \in DOMAIN input : \A j \in DOMAIN input : j > k => input[j].id # input[k].id}
           f == [k \in K |-> input[k]]
<1>1. Len(input) \in Nat /\ DOMAIN input = 1..Len(input)
  OBVIOUS
<1>2. IsFiniteSet(1..Len(input)) /\ Cardinality(1..Len(input)) = Len(input)
  BY <1>1, FS_Interval
<1>3. K \in SUBSET (1..Len(input))
  BY <1>1
<1>4. IsFiniteSet(K) /\ Cardinality(K) <= Len(input)
  BY <1>2, <1>3, FS_Subset
<1>5. f \in Surjection(K, Items(input))
  BY DEF Surjection, Items
<1> HIDE DEF K, f
<1>6. IsFiniteSet(Items(input)) /\ Cardinality(Items(input)) <= Cardinality(K)
  BY <1>4, <1>5, FS_Surjection
<1>7. Cardinality(Items(input)) \in Nat /\ Cardinality(K) \in Nat
  BY <1>4, <1>6, FS_CardinalityType
<1>8. QED
  BY <1>1, <1>4, <1>6, <1>7

\* An event is a record of its identifier and its verdict.
LEMMA EventFields ==
  ASSUME NEW e \in Events
  PROVE  e = [id |-> e.id, ok |-> e.ok] /\ e.id \in EventIds /\ e.ok \in BOOLEAN
BY EventsAssumption DEF EventIds

\* The batch of a run, and what of it is destined for a table, is a set of events.
LEMMA BatchEvents ==
  ASSUME TypeOK, NEW r \in Runs
  PROVE  /\ batchOf[r] \in Seq(Events)
         /\ Batch(r) \subseteq Events
         /\ \A t \in Tables : Destined(t, Batch(r)) \subseteq Events
<1>1. batchOf[r] \in Seq(Events)
  BY DEF TypeOK
<1>2. Batch(r) \subseteq Events
  BY <1>1, ItemsDistinct DEF Batch
<1>3. QED
  BY <1>1, <1>2 DEF Destined

-------------------------------------------------------------------------------
(***************************************************************************)
(* Rows.                                                                   *)
(***************************************************************************)

\* A database whose rows are looked at one by one.
LEMMA DatabaseParts ==
  ASSUME NEW db \in Database
  PROVE  /\ db = [table |-> db.table, runs |-> db.runs]
         /\ db.table \in [Tables -> SUBSET Row]
         /\ db.runs \in [Runs -> RunRow]
BY DEF Database

\* What an INSERT adds are rows of the run for events of the statement.
LEMMA NewRowsType ==
  ASSUME NEW S \in SUBSET Events, NEW r \in Runs, NEW rows
  PROVE  NewRows(rows, S, r) \subseteq Row
BY EventFields DEF NewRows, Row

\* Rows of the table t, in number at most the events of D that they are for.
LEMMA RowsCount ==
  ASSUME NEW D \in SUBSET Events, IsFiniteSet(D), NEW R,
         \A row \in R : [id |-> row.id, ok |-> row.ok] \in D,
         \A x, y \in R : x.id = y.id => x = y
  PROVE  /\ IsFiniteSet(R)
         /\ Cardinality(R) \in Nat
         /\ Cardinality(R) <= Cardinality(D)
<1> DEFINE f == [row \in R |-> [id |-> row.id, ok |-> row.ok]]
<1>1. \A row \in R : f[row] \in D /\ f[row].id = row.id
  OBVIOUS
<1>2. f \in [R -> D]
  BY <1>1
<1> HIDE DEF f
<1>3. f \in Injection(R, D)
  BY <1>1, <1>2 DEF Injection, IsInjective
<1>4. QED
  BY <1>3, FS_Injection, FS_CardinalityType

\* The rows of the run in the open transaction are for events of its batch.
LEMMA RowsOfRun ==
  ASSUME TypeInv, RunsInv, DiskInv, WorkInv,
         NEW s \in Sessions, pc[s] \in Writing, NEW t \in Tables,
         NEW row \in work.table[t], row.run = run[s]
  PROVE  [id |-> row.id, ok |-> row.ok] \in Destined(t, Batch(run[s]))
<1>1. ~ IsCompleted(run[s])
  BY DEF RunsInv, Pending
<1>2. row \notin disk.table[t]
  BY <1>1 DEF DiskInv
<1>3. QED
  BY <1>2 DEF WorkInv, Transaction, Extension

\* The run row that the transaction writes: its duplicates are never negative.
LEMMA CompletedRowType ==
  ASSUME TypeInv, RunsInv, DiskInv, WorkInv, NEW s \in Sessions, pc[s] \in Writing
  PROVE  CompletedRow(work, run[s]) \in RunRow
<1> DEFINE r == run[s]
           A == Destined("application_logs", Batch(r))
           Q == Destined("quarantine_events", Batch(r))
           committed == CountForRun(work, "application_logs", r)
           quarantined == CountForRun(work, "quarantine_events", r)
<1>1. r \in Runs
  BY DEF RunsInv, Calling, Pending
<1>2. /\ batchOf[r] \in Seq(Events) /\ Len(batchOf[r]) \in Nat
      /\ A \in SUBSET Events /\ Q \in SUBSET Events
  BY <1>1, BatchEvents DEF TypeInv, Tables
<1>3. IsFiniteSet(Batch(r)) /\ Cardinality(Batch(r)) <= Len(batchOf[r])
  BY <1>2, ItemsCount DEF Batch
<1>4. A \in SUBSET Batch(r) /\ Q \in SUBSET Batch(r) /\ A \cup Q \in SUBSET Batch(r) /\ A \cap Q = {}
  BY DEF Destined
<1>5. IsFiniteSet(A) /\ IsFiniteSet(Q) /\ Cardinality(A \cup Q) <= Cardinality(Batch(r))
  BY <1>3, <1>4, FS_Subset
<1>6. Cardinality(A \cup Q) = Cardinality(A) + Cardinality(Q) - Cardinality({})
  BY <1>4, <1>5, FS_Union
<1>7. Cardinality({}) = 0
  BY FS_EmptySet
<1>8. Cardinality(A) \in Nat /\ Cardinality(Q) \in Nat /\ Cardinality(Batch(r)) \in Nat
  BY <1>3, <1>5, FS_CardinalityType
<1>9. ASSUME NEW t \in Tables, NEW D \in SUBSET Events, IsFiniteSet(D),
             D = Destined(t, Batch(r))
      PROVE  CountForRun(work, t, r) \in Nat /\ CountForRun(work, t, r) <= Cardinality(D)
  <2> DEFINE R == {row \in work.table[t] : row.run = r}
  <2>1. \A row \in R : [id |-> row.id, ok |-> row.ok] \in D
    BY <1>9, RowsOfRun
  <2>2. \A x, y \in R : x.id = y.id => x = y
    BY DEF WorkInv, Transaction, Extension
  <2> HIDE DEF R
  <2>3. Cardinality(R) \in Nat /\ Cardinality(R) <= Cardinality(D)
    BY <1>9, <2>1, <2>2, RowsCount
  <2>4. QED
    BY <2>3 DEF R, CountForRun
<1>10. /\ committed \in Nat /\ committed <= Cardinality(A)
       /\ quarantined \in Nat /\ quarantined <= Cardinality(Q)
  BY <1>2, <1>5, <1>9 DEF Tables
<1> DEFINE duplicates == Len(batchOf[r]) - committed - quarantined
           status == IF quarantined > 0 THEN "COMPLETED_WITH_QUARANTINE" ELSE "COMPLETED"
<1>11. CompletedRow(work, r) =
         [status |-> status, received |-> Len(batchOf[r]), committed |-> committed,
          quarantined |-> quarantined, duplicates |-> duplicates]
  BY DEF CompletedRow
<1> HIDE DEF A, Q, committed, quarantined
<1>12. duplicates \in Nat
  <2>1. Cardinality(A \cup Q) = Cardinality(A) + Cardinality(Q)
    BY <1>6, <1>7, <1>8
  <2>2. Cardinality(A) + Cardinality(Q) <= Len(batchOf[r])
    BY <1>2, <1>3, <1>5, <1>8, <2>1
  <2>3. committed + quarantined <= Len(batchOf[r])
    BY <1>2, <1>8, <1>10, <2>2
  <2>4. QED
    BY <1>2, <1>10, <2>3
<1>13. status \in Completed
  BY DEF Completed
<1> HIDE DEF duplicates, status
<1>14. QED
  BY <1>2, <1>10, <1>11, <1>12, <1>13 DEF RunRow

-------------------------------------------------------------------------------
(***************************************************************************)
(* Types, and the lock.                                                    *)
(***************************************************************************)
LEMMA EmptyType == Empty \in Database
<1>1. NoRow \in RunRow
  BY DEF NoRow, RunRow
<1>2. NoFrames \in [Tables -> SUBSET Row]
  BY DEF NoFrames
<1>3. QED
  BY <1>1, <1>2 DEF Empty, Database

\* The empty database, and no session in a call.
LEMMA TypeInit == Init => TypeInv
<1> SUFFICES ASSUME Init PROVE TypeInv
  OBVIOUS
<1>1. NoFrames \in [Tables -> SUBSET EventIds]
  BY DEF NoFrames
<1>2. <<>> \in Seq(Events)
  OBVIOUS
<1> nextRun \in 1..(MaxRuns + 1) /\ faults \in 0..MaxFaults
  BY ConfigAssumption DEF Init
<1>3. TypeOK
  BY <1>1, <1>2, EmptyType DEF Init, TypeOK, Steps
<1>4. LockInv
  BY SessionsAssumption DEF Init, LockInv, Holding, Tables
<1>5. QED
  BY <1>3, <1>4 DEF TypeInv

\* What one INSERT leaves of the open transaction.
LEMMA InsertEffect ==
  ASSUME TypeInv, RunsInv, NEW s \in Sessions, NEW batch \in SUBSET todo[s], InsertRecords(s, batch)
  PROVE  /\ work' \in Database
         /\ work'.runs = work.runs
         /\ work'.table = [work.table EXCEPT ![pc[s]] = work.table[pc[s]] \cup
                             NewRows(work.table[pc[s]], batch, run[s])]
<1> DEFINE N == NewRows(work.table[pc[s]], batch, run[s])
<1>1. work' = [work EXCEPT !.table[pc[s]] = work.table[pc[s]] \cup N] /\ pc[s] \in Tables
  BY DEF InsertRecords
<1>2. batch \in SUBSET Events /\ run[s] \in Runs
  BY <1>1 DEF TypeInv, TypeOK, RunsInv, Calling, Pending, Writing
<1>3. N \in SUBSET Row
  BY <1>2, NewRowsType
<1>4. work \in Database
  BY DEF TypeInv, TypeOK
<1> HIDE DEF N
<1>5. /\ work = [table |-> work.table, runs |-> work.runs]
      /\ work.table \in [Tables -> SUBSET Row]
      /\ work.runs \in [Runs -> RunRow]
  BY <1>4, DatabaseParts
<1>6. work' = [table |-> [work.table EXCEPT ![pc[s]] = work.table[pc[s]] \cup N],
               runs |-> work.runs]
  BY <1>1, <1>5
<1>7. [work.table EXCEPT ![pc[s]] = work.table[pc[s]] \cup N] \in [Tables -> SUBSET Row]
  BY <1>1, <1>3, <1>5
<1>8. QED
  BY <1>5, <1>6, <1>7 DEF Database, N

\* Writing a run row leaves the tables alone.
LEMMA RunRowEffect ==
  ASSUME NEW db \in Database, NEW r \in Runs, NEW row \in RunRow,
         NEW after, after = [db EXCEPT !.runs[r] = row]
  PROVE  /\ after \in Database
         /\ after.runs = [db.runs EXCEPT ![r] = row]
         /\ after.table = db.table
BY DEF Database

\* The row of a failed run is a row of a run.
LEMMA FailedRowType ==
  ASSUME TypeOK, NEW r \in Runs
  PROVE  FailedRow(r) \in RunRow /\ FailedRow(r).status \notin Completed
BY DEF FailedRow, RunRow, Completed, TypeOK

\* The steps of a session that has no transaction.
LEMMA TypeCallSteps ==
  ASSUME TypeInv, RunsInv, NEW s \in Sessions,
         \/ \E input \in Inputs : IngestEvents(s, input)
         \/ OpenFails(s) \/ Return(s) \/ QueryMany(s)
  PROVE  TypeInv'
<1>1. CASE \E input \in Inputs : IngestEvents(s, input)
  <2>1. PICK input \in Seq(Events) : IngestEvents(s, input)
    BY <1>1, EventsAssumption
  <2>2. nextRun \in Runs /\ nextRun' \in 1..(MaxRuns + 1)
    BY <2>1, ConfigAssumption DEF IngestEvents, TypeInv, TypeOK, Runs
  <2>3. TypeOK'
    BY <2>1, <2>2 DEF IngestEvents, Goto, TypeInv, TypeOK, database, reading, Steps
  <2>4. LockInv'
    BY <2>1 DEF IngestEvents, Goto, TypeInv, TypeOK, LockInv, Holding, database, Tables
  <2>5. QED
    BY <2>3, <2>4 DEF TypeInv
<1>2. CASE OpenFails(s)
  <2>1. faults' \in 0..MaxFaults
    BY <1>2, ConfigAssumption DEF OpenFails, Fault, TypeInv, TypeOK
  <2>2. TypeOK'
    BY <1>2, <2>1 DEF OpenFails, Goto, TypeInv, TypeOK, database, reading, calls, Steps
  <2>3. LockInv'
    BY <1>2 DEF OpenFails, Goto, TypeInv, TypeOK, LockInv, Holding, database, Tables
  <2>4. QED
    BY <2>2, <2>3 DEF TypeInv
<1>3. CASE Return(s)
  <2> run[s] \in Runs
    BY <1>3 DEF Return, RunsInv, Calling
  <2>1. TypeOK'
    BY <1>3 DEF Return, Goto, TypeInv, TypeOK, database, reading, Steps
  <2>2. LockInv'
    BY <1>3 DEF Return, Goto, TypeInv, TypeOK, LockInv, Holding, database, Tables
  <2>3. QED
    BY <2>1, <2>2 DEF TypeInv
<1>4. CASE QueryMany(s)
  <2>1. TypeOK'
    BY <1>4 DEF QueryMany, Goto, TypeInv, TypeOK, database, reading, calls, Steps
  <2>2. LockInv'
    BY <1>4 DEF QueryMany, Goto, TypeInv, TypeOK, LockInv, Holding, database, Tables
  <2>3. QED
    BY <2>1, <2>2 DEF TypeInv
<1>5. QED
  BY <1>1, <1>2, <1>3, <1>4

\* The steps of a session inside its transaction that do not give the lock back.
LEMMA TypeTransactionSteps ==
  ASSUME TypeInv, RunsInv, DiskInv, WorkInv, NEW s \in Sessions,
         \/ OpenWrite(s)
         \/ \E batch \in SUBSET todo[s] : InsertRecords(s, batch)
         \/ NextTable(s) \/ RecordRun(s) \/ Rollback(s) \/ StatementFails(s)
  PROVE  TypeInv'
<1>1. CASE OpenWrite(s)
  <2>1. run[s] \in Runs
    BY <1>1 DEF OpenWrite, RunsInv, Calling, Pending
  <2>2. todo' \in [Sessions -> SUBSET Events]
    BY <1>1, <2>1, BatchEvents DEF OpenWrite, Batch, TypeInv, TypeOK
  <2>3. TypeOK'
    BY <1>1, <2>2, SessionsAssumption
       DEF OpenWrite, Goto, TypeInv, TypeOK, reading, calls, Steps, Tables
  <2>4. LockInv'
    BY <1>1, SessionsAssumption DEF OpenWrite, Goto, TypeInv, TypeOK, LockInv, Holding, Tables
  <2>5. QED
    BY <2>3, <2>4 DEF TypeInv
<1>2. ASSUME NEW batch \in SUBSET todo[s], InsertRecords(s, batch)
      PROVE  TypeInv'
  <2>1. work' \in Database
    BY <1>2, InsertEffect
  <2>2. TypeOK'
    BY <1>2, <2>1 DEF InsertRecords, TypeInv, TypeOK, reading, calls
  <2>3. LockInv'
    BY <1>2 DEF InsertRecords, TypeInv, LockInv
  <2>4. QED
    BY <2>2, <2>3 DEF TypeInv
<1>3. CASE NextTable(s)
  <2>1. run[s] \in Runs
    BY <1>3 DEF NextTable, RunsInv, Calling, Pending, Writing
  <2>2. After(pc[s]) \in Tables \cup {"recording"}
    BY DEF After, Tables
  <2>3. todo' \in [Sessions -> SUBSET Events]
    BY <1>3, <2>1, BatchEvents DEF NextTable, Batch, TypeInv, TypeOK
  <2>4. TypeOK'
    BY <1>3, <2>2, <2>3 DEF NextTable, Goto, TypeInv, TypeOK, database, reading, calls, Steps
  <2>5. LockInv'
    BY <1>3, <2>2 DEF NextTable, Goto, TypeInv, TypeOK, LockInv, Holding, database
  <2>6. QED
    BY <2>4, <2>5 DEF TypeInv
<1>4. CASE RecordRun(s)
  <2>1. CompletedRow(work, run[s]) \in RunRow /\ run[s] \in Runs
    BY <1>4, CompletedRowType DEF RecordRun, Writing, RunsInv, Calling, Pending
  <2>2. work' \in Database
    BY <1>4, <2>1, RunRowEffect DEF RecordRun, TypeInv, TypeOK
  <2>3. TypeOK'
    BY <1>4, <2>2 DEF RecordRun, Goto, TypeInv, TypeOK, reading, calls, Steps
  <2>4. LockInv'
    BY <1>4 DEF RecordRun, Goto, TypeInv, TypeOK, LockInv, Holding
  <2>5. QED
    BY <2>3, <2>4 DEF TypeInv
<1>5. CASE Rollback(s)
  <2>1. TypeOK'
    BY <1>5, EmptyType DEF Rollback, Goto, TypeInv, TypeOK, reading, calls, Steps
  <2>2. LockInv'
    BY <1>5 DEF Rollback, Goto, TypeInv, TypeOK, LockInv, Holding
  <2>3. QED
    BY <2>1, <2>2 DEF TypeInv
<1>6. CASE StatementFails(s)
  <2>1. faults' \in 0..MaxFaults
    BY <1>6, ConfigAssumption DEF StatementFails, Fault, TypeInv, TypeOK
  <2>2. work' \in Database /\ open' \in BOOLEAN /\ (open' => open)
    BY <1>6, EmptyType DEF StatementFails, TypeInv, TypeOK
  <2>3. TypeOK'
    BY <1>6, <2>1, <2>2 DEF StatementFails, Goto, TypeInv, TypeOK, reading, calls, Steps
  <2>4. LockInv'
    BY <1>6 DEF StatementFails, Goto, TypeInv, TypeOK, LockInv, Holding
  <2>5. QED
    BY <2>3, <2>4 DEF TypeInv
<1>7. QED
  BY <1>1, <1>2, <1>3, <1>4, <1>5, <1>6

\* The steps that close the connection and give the lock back.
LEMMA TypeClosingSteps ==
  ASSUME TypeInv, RunsInv, NEW s \in Sessions,
         \/ Commit(s) \/ RollbackFails(s) \/ RecordFailure(s) \/ RecordFailureFails(s)
         \/ FinishRead(s) \/ ReadFails(s)
  PROVE  TypeInv'
<1>1. /\ pc' \in [Sessions -> Steps] /\ pc' = [pc EXCEPT ![s] = pc'[s]]
      /\ pc'[s] \in {"idle", "returning"} /\ pc[s] \in Holding
      /\ lock' = Nobody /\ open' = FALSE /\ work' = Empty
      /\ run' = run /\ todo' = todo /\ nextRun' = nextRun /\ batchOf' = batchOf
      /\ returned' = returned
  BY DEF Commit, RollbackFails, RecordFailure, RecordFailureFails, FinishRead, ReadFails,
         Close, Goto, TypeInv, TypeOK, Steps, Holding, calls
<1>2. disk' \in Database
  <2>1. CASE RecordFailure(s)
    <3>1. run[s] \in Runs
      BY <2>1 DEF RecordFailure, RunsInv, Calling, Pending
    <3>2. QED
      BY <2>1, <3>1, FailedRowType, RunRowEffect DEF RecordFailure, TypeInv, TypeOK
  <2>2. CASE Commit(s)
    BY <2>2 DEF Commit, TypeInv, TypeOK
  <2>3. CASE disk' = disk
    BY <2>3 DEF TypeInv, TypeOK
  <2>4. QED
    BY <2>1, <2>2, <2>3 DEF RollbackFails, RecordFailureFails, FinishRead, ReadFails
<1>3. NoFrames \in [Tables -> SUBSET EventIds]
  BY DEF NoFrames
<1>4. /\ unread' \in [Sessions -> SUBSET (Tables \cup {Warehouse})]
      /\ frames' \in [Sessions -> [Tables -> SUBSET EventIds]]
  BY <1>3 DEF Commit, RollbackFails, RecordFailure, RecordFailureFails, FinishRead, ReadFails,
         reading, TypeInv, TypeOK
<1>5. faults' \in 0..MaxFaults
  BY ConfigAssumption DEF Commit, RollbackFails, RecordFailure, RecordFailureFails, FinishRead,
         ReadFails, Fault, TypeInv, TypeOK
<1>6. TypeOK'
  BY <1>1, <1>2, <1>4, <1>5, EmptyType DEF TypeInv, TypeOK
<1>7. LockInv'
  BY <1>1, SessionsAssumption DEF LockInv, TypeInv, TypeOK, Holding, Tables
<1>8. QED
  BY <1>6, <1>7 DEF TypeInv

\* The steps of a session that reads frames, and the end of the process.
LEMMA TypeReadSteps ==
  ASSUME TypeInv,
         \/ \E s \in Sessions : OpenRead(s) \/ StorageMetrics(s) \/ \E t \in Tables : ReadFrame(s, t)
         \/ Crash
  PROVE  TypeInv'
<1>1. ASSUME NEW s \in Sessions, OpenRead(s)
      PROVE  TypeInv'
  <2>1. TypeOK'
    BY <1>1, SessionsAssumption DEF OpenRead, Goto, TypeInv, TypeOK, calls, Steps
  <2>2. LockInv'
    BY <1>1, SessionsAssumption DEF OpenRead, Goto, TypeInv, TypeOK, LockInv, Holding, Tables
  <2>3. QED
    BY <2>1, <2>2 DEF TypeInv
<1>2. ASSUME NEW s \in Sessions, StorageMetrics(s)
      PROVE  TypeInv'
  <2>1. TypeOK'
    BY <1>2 DEF StorageMetrics, TypeInv, TypeOK, database, calls
  <2>2. LockInv'
    BY <1>2 DEF StorageMetrics, TypeInv, LockInv, database
  <2>3. QED
    BY <2>1, <2>2 DEF TypeInv
<1>3. ASSUME NEW s \in Sessions, NEW t \in Tables, ReadFrame(s, t)
      PROVE  TypeInv'
  <2>1. work.table[t] \in SUBSET Row
    BY DatabaseParts DEF TypeInv, TypeOK
  <2>2. {row.id : row \in work.table[t]} \in SUBSET EventIds
    BY <2>1 DEF Row
  <2>3. TypeOK'
    BY <1>3, <2>2 DEF ReadFrame, TypeInv, TypeOK, database, calls
  <2>4. LockInv'
    BY <1>3 DEF ReadFrame, TypeInv, LockInv, database
  <2>5. QED
    BY <2>3, <2>4 DEF TypeInv
<1>4. CASE Crash
  <2>1. faults' \in 0..MaxFaults
    BY <1>4, ConfigAssumption DEF Crash, Fault, TypeInv, TypeOK
  <2>2. NoFrames \in [Tables -> SUBSET EventIds]
    BY DEF NoFrames
  <2>3. TypeOK'
    BY <1>4, <2>1, <2>2, EmptyType DEF Crash, Close, TypeInv, TypeOK, calls, Steps
  <2>4. LockInv'
    BY <1>4, SessionsAssumption DEF Crash, Close, LockInv, Holding, Tables
  <2>5. QED
    BY <2>3, <2>4 DEF TypeInv
<1>5. QED
  BY <1>1, <1>2, <1>3, <1>4

\* TypeInv is inductive, given the rest of DuckInv.
LEMMA TypeStep == DuckInv /\ [Next]_vars => TypeInv'
<1> SUFFICES ASSUME DuckInv, [Next]_vars PROVE TypeInv'
  OBVIOUS
<1>1. TypeInv /\ RunsInv /\ DiskInv /\ WorkInv
  BY DEF DuckInv
<1>2. CASE Next
  BY <1>1, <1>2, TypeCallSteps, TypeTransactionSteps, TypeClosingSteps, TypeReadSteps
     DEF Next, Proceed
<1>3. CASE UNCHANGED vars
  BY <1>1, <1>3 DEF vars, database, reading, calls, TypeInv, TypeOK, LockInv
<1>4. QED
  BY <1>2, <1>3

-------------------------------------------------------------------------------
(***************************************************************************)
(* What a step does, seen from the runs.                                   *)
(***************************************************************************)

\* The disk changes by a COMMIT and by the row of a failure, and in no other way.
DiskStep ==
  \/ disk' = disk
  \/ \E s \in Sessions : Commit(s)
  \/ \E s \in Sessions : RecordFailure(s)

\* A session stays in its call, leaves it, or starts the next one, and only a session that
\* had its answer adds a result.
ControlStep ==
  /\ nextRun' \in {nextRun, nextRun + 1}
  /\ \A r \in Runs : r < nextRun => batchOf'[r] = batchOf[r]
  /\ \A r \in returned' \ returned : \E s \in Sessions : pc[s] = "returning" /\ r = run[s]
  /\ returned \subseteq returned'
  /\ \A s \in Sessions :
       \/ pc'[s] \notin Calling
       \/ run'[s] = run[s] /\ pc[s] \in Pending /\ pc'[s] \in Pending
       \/ run'[s] = run[s] /\ pc[s] = "returning" /\ pc'[s] = "returning"
       \/ run'[s] = run[s] /\ Commit(s)
       \/ /\ pc'[s] = "opening" /\ run'[s] = nextRun /\ nextRun \in Runs
          /\ nextRun' = nextRun + 1
          /\ \A x \in Sessions \ {s} : pc'[x] = pc[x] /\ run'[x] = run[x]

\* The disk changes only by a COMMIT or by the row of a failed run.
LEMMA DiskSteps == [Next]_vars => DiskStep
<1> SUFFICES ASSUME [Next]_vars, \A s \in Sessions : ~ Commit(s) /\ ~ RecordFailure(s)
             PROVE  disk' = disk
  BY DEF DiskStep
<1>1. ASSUME NEW s \in Sessions,
             \/ \E input \in Inputs : IngestEvents(s, input)
             \/ OpenWrite(s) \/ OpenFails(s)
             \/ \E batch \in SUBSET todo[s] : InsertRecords(s, batch)
             \/ NextTable(s) \/ RecordRun(s) \/ Return(s) \/ StatementFails(s)
             \/ Rollback(s) \/ RollbackFails(s) \/ RecordFailureFails(s)
      PROVE  disk' = disk
  BY <1>1 DEF IngestEvents, OpenWrite, OpenFails, InsertRecords, NextTable, RecordRun, Return,
              StatementFails, Rollback, RollbackFails, RecordFailureFails, database
<1>2. ASSUME NEW s \in Sessions,
             \/ QueryMany(s) \/ OpenRead(s) \/ \E t \in Tables : ReadFrame(s, t)
             \/ StorageMetrics(s) \/ FinishRead(s) \/ ReadFails(s)
      PROVE  disk' = disk
  BY <1>2 DEF QueryMany, OpenRead, ReadFrame, StorageMetrics, FinishRead, ReadFails, database
<1>3. CASE Crash
  BY <1>3 DEF Crash
<1>4. CASE UNCHANGED vars
  BY <1>4 DEF vars, database
<1>5. QED
  BY <1>1, <1>2, <1>3, <1>4 DEF Next, Proceed

\* Every action is such a step.
LEMMA ControlSteps == TypeInv /\ [Next]_vars => ControlStep
<1> SUFFICES ASSUME TypeInv, [Next]_vars PROVE ControlStep
  OBVIOUS
<1> USE DEF Calling, Pending, Writing
<1>1. ASSUME NEW s \in Sessions, NEW input \in Inputs, IngestEvents(s, input)
      PROVE  ControlStep
  <2>1. nextRun \in Runs
    BY <1>1, ConfigAssumption DEF IngestEvents, TypeInv, TypeOK, Runs
  <2>2. \A r \in Runs : r < nextRun => batchOf'[r] = batchOf[r]
    BY <1>1, <2>1 DEF IngestEvents, TypeInv, TypeOK, Runs
  <2>3. \A x \in Sessions \ {s} : pc'[x] = pc[x] /\ run'[x] = run[x]
    BY <1>1 DEF IngestEvents, Goto, TypeInv, TypeOK
  <2>4. pc'[s] = "opening" /\ run'[s] = nextRun
    BY <1>1 DEF IngestEvents, Goto, TypeInv, TypeOK
  <2>5. nextRun' = nextRun + 1 /\ returned' = returned
    BY <1>1 DEF IngestEvents
  <2>6. \A x \in Sessions \ {s} :
          \/ pc[x] \notin Calling \/ pc[x] \in Pending \/ pc[x] = "returning"
    OBVIOUS
  <2> HIDE DEF Calling, Pending, Writing
  <2>7. ASSUME NEW x \in Sessions \ {s}, pc'[x] \in Calling
        PROVE  \/ run'[x] = run[x] /\ pc[x] \in Pending /\ pc'[x] \in Pending
               \/ run'[x] = run[x] /\ pc[x] = "returning" /\ pc'[x] = "returning"
    BY <2>3, <2>6, <2>7
  <2>8. /\ nextRun' \in {nextRun, nextRun + 1}
        /\ \A r \in returned' \ returned : \E x \in Sessions : pc[x] = "returning" /\ r = run[x]
        /\ returned \subseteq returned'
    BY <2>5
  <2>9. /\ pc'[s] = "opening" /\ run'[s] = nextRun /\ nextRun \in Runs
        /\ nextRun' = nextRun + 1
        /\ \A x \in Sessions \ {s} : pc'[x] = pc[x] /\ run'[x] = run[x]
    BY <2>1, <2>3, <2>4, <2>5
  <2>10. \A z \in Sessions :
           \/ pc'[z] \notin Calling
           \/ run'[z] = run[z] /\ pc[z] \in Pending /\ pc'[z] \in Pending
           \/ run'[z] = run[z] /\ pc[z] = "returning" /\ pc'[z] = "returning"
           \/ run'[z] = run[z] /\ Commit(z)
           \/ /\ pc'[z] = "opening" /\ run'[z] = nextRun /\ nextRun \in Runs
              /\ nextRun' = nextRun + 1
              /\ \A x \in Sessions \ {z} : pc'[x] = pc[x] /\ run'[x] = run[x]
    BY <2>7, <2>9
  <2>11. QED
    BY <2>2, <2>8, <2>10 DEF ControlStep
<1>2. ASSUME NEW s \in Sessions, Return(s)
      PROVE  ControlStep
  <2>1. /\ nextRun' = nextRun /\ batchOf' = batchOf /\ run' = run
        /\ pc[s] = "returning" /\ returned' = returned \cup {run[s]}
    BY <1>2 DEF Return
  <2>2. pc'[s] = "idle" /\ \A x \in Sessions \ {s} : pc'[x] = pc[x]
    BY <1>2 DEF Return, Goto, TypeInv, TypeOK
  <2>3. \A x \in Sessions :
          \/ pc'[x] \notin Calling
          \/ pc[x] \in Pending /\ pc'[x] \in Pending
          \/ pc[x] = "returning" /\ pc'[x] = "returning"
    BY <2>2 DEF Tables
  <2>4. \A r \in returned' \ returned : \E x \in Sessions : pc[x] = "returning" /\ r = run[x]
    BY <2>1
  <2> HIDE DEF Calling, Pending, Writing
  <2>5. QED
    BY <2>1, <2>3, <2>4 DEF ControlStep
<1>3. ASSUME calls' = calls, run' = run,
             \A s \in Sessions : \/ pc'[s] = pc[s] \/ pc'[s] \notin Calling
                                 \/ pc[s] \in Pending /\ pc'[s] \in Pending
                                 \/ Commit(s)
      PROVE  ControlStep
  BY <1>3 DEF ControlStep, calls
<1>4. ASSUME NEW s \in Sessions,
             \/ OpenWrite(s) \/ OpenFails(s)
             \/ \E batch \in SUBSET todo[s] : InsertRecords(s, batch)
             \/ NextTable(s) \/ RecordRun(s) \/ Commit(s) \/ StatementFails(s)
      PROVE  ControlStep
  <2>1. calls' = calls /\ run' = run
    BY <1>4 DEF OpenWrite, OpenFails, InsertRecords, NextTable, RecordRun, Commit, StatementFails,
                calls
  <2>2. \A x \in Sessions \ {s} : pc'[x] = pc[x]
    BY <1>4 DEF OpenWrite, OpenFails, InsertRecords, NextTable, RecordRun, Commit, StatementFails,
                Goto, TypeInv, TypeOK
  <2>3. \/ pc'[s] = pc[s] \/ pc'[s] \notin Calling
        \/ pc[s] \in Pending /\ pc'[s] \in Pending
        \/ Commit(s)
    BY <1>4 DEF OpenWrite, OpenFails, InsertRecords, NextTable, RecordRun, StatementFails,
                Goto, After, Tables, TypeInv, TypeOK
  <2>4. QED
    BY <1>3, <2>1, <2>2, <2>3
<1>5. ASSUME NEW s \in Sessions,
             \/ Rollback(s) \/ RollbackFails(s) \/ RecordFailure(s) \/ RecordFailureFails(s)
             \/ QueryMany(s) \/ OpenRead(s) \/ \E t \in Tables : ReadFrame(s, t)
             \/ StorageMetrics(s) \/ FinishRead(s) \/ ReadFails(s)
      PROVE  ControlStep
  <2>1. calls' = calls /\ run' = run
    BY <1>5 DEF Rollback, RollbackFails, RecordFailure, RecordFailureFails, QueryMany, OpenRead,
                ReadFrame, StorageMetrics, FinishRead, ReadFails, calls
  <2>2. \A x \in Sessions \ {s} : pc'[x] = pc[x]
    BY <1>5 DEF Rollback, RollbackFails, RecordFailure, RecordFailureFails, QueryMany, OpenRead,
                ReadFrame, StorageMetrics, FinishRead, ReadFails, Goto, TypeInv, TypeOK
  <2>3. \/ pc'[s] = pc[s] \/ pc'[s] \notin Calling
        \/ pc[s] \in Pending /\ pc'[s] \in Pending
    BY <1>5 DEF Rollback, RollbackFails, RecordFailure, RecordFailureFails, QueryMany, OpenRead,
                ReadFrame, StorageMetrics, FinishRead, ReadFails, Goto, Tables, TypeInv, TypeOK
  <2>4. QED
    BY <1>3, <2>1, <2>2, <2>3
<1>6. CASE Crash
  <2>1. \A s \in Sessions : pc'[s] \notin Calling
    BY <1>6 DEF Crash, Tables
  <2>2. QED
    BY <1>3, <1>6, <2>1 DEF Crash
<1>7. CASE UNCHANGED vars
  BY <1>3, <1>7 DEF vars
<1>8. CASE Next
  BY <1>1, <1>2, <1>4, <1>5, <1>6, <1>8 DEF Next, Proceed
<1>9. QED
  BY <1>7, <1>8

\* What the disk becomes by a COMMIT: the tables of the transaction, with its run completed.
LEMMA CommitEffect ==
  ASSUME TypeInv, RunsInv, WorkInv, NEW s \in Sessions, Commit(s)
  PROVE  /\ run[s] \in Runs /\ run[s] < nextRun
         /\ disk' = work
         /\ \A r \in Runs : IsCompleted(r)' <=> IsCompleted(r) \/ r = run[s]
<1>1. pc[s] = "committing" /\ disk' = work
  BY DEF Commit
<1>2. run[s] \in Runs /\ run[s] < nextRun
  BY <1>1 DEF RunsInv, Calling, Pending, Writing
<1>3. work.runs = [disk.runs EXCEPT ![run[s]] = CompletedRow(work, run[s])]
  BY <1>1 DEF WorkInv, Transaction, Writing
<1>4. disk.runs \in [Runs -> RunRow]
  BY DatabaseParts DEF TypeInv, TypeOK
<1>5. CompletedRow(work, run[s]).status \in Completed
  BY DEF CompletedRow, Completed
<1>6. QED
  BY <1>1, <1>2, <1>3, <1>4, <1>5 DEF IsCompleted

\* The row of a failure is written for a run that is not completed.
LEMMA FailureEffect ==
  ASSUME TypeInv, RunsInv, NEW s \in Sessions, RecordFailure(s)
  PROVE  /\ disk'.table = disk.table
         /\ \A r \in Runs : IsCompleted(r)' <=> IsCompleted(r)
<1>1. pc[s] = "record_failure" /\ disk' = [disk EXCEPT !.runs[run[s]] = FailedRow(run[s])]
  BY DEF RecordFailure
<1>2. run[s] \in Runs /\ ~ IsCompleted(run[s])
  BY <1>1 DEF RunsInv, Calling, Pending
<1>3. FailedRow(run[s]) \in RunRow /\ FailedRow(run[s]).status \notin Completed
  BY <1>2, FailedRowType DEF TypeInv
<1>4. disk \in Database
  BY DEF TypeInv, TypeOK
<1>5. disk'.table = disk.table /\ disk'.runs = [disk.runs EXCEPT ![run[s]] = FailedRow(run[s])]
  BY <1>1, <1>2, <1>3, <1>4, RunRowEffect
<1>6. disk.runs \in [Runs -> RunRow]
  BY <1>4, DatabaseParts
<1>7. QED
  BY <1>2, <1>3, <1>5, <1>6 DEF IsCompleted

\* A run is completed by its COMMIT and stays completed.
LEMMA CompletedStep ==
  ASSUME TypeInv, RunsInv, WorkInv, [Next]_vars
  PROVE  \/ /\ \A s \in Sessions : ~ Commit(s)
            /\ \A r \in Runs : IsCompleted(r)' <=> IsCompleted(r)
         \/ \E s \in Sessions :
              /\ Commit(s) /\ run[s] \in Runs /\ run[s] < nextRun
              /\ \A r \in Runs : IsCompleted(r)' <=> IsCompleted(r) \/ r = run[s]
<1>1. CASE \E s \in Sessions : Commit(s)
  BY <1>1, CommitEffect
<1>2. CASE \A s \in Sessions : ~ Commit(s)
  <2>1. CASE disk' = disk
    BY <1>2, <2>1 DEF IsCompleted
  <2>2. CASE \E s \in Sessions : RecordFailure(s)
    BY <1>2, <2>2, FailureEffect
  <2>3. QED
    BY <1>2, <2>1, <2>2, DiskSteps DEF DiskStep
<1>3. QED
  BY <1>1, <1>2

-------------------------------------------------------------------------------
(***************************************************************************)
(* The conjuncts of the invariant, one by one.                             *)
(***************************************************************************)
LEMMA InvInit == Init => RunsInv /\ DiskInv /\ WorkInv /\ ReadInv
<1> SUFFICES ASSUME Init PROVE RunsInv /\ DiskInv /\ WorkInv /\ ReadInv
  OBVIOUS
<1>1. \A s \in Sessions : pc[s] = "idle"
  BY DEF Init
<1>2. \A r \in Runs : ~ IsCompleted(r)
  BY DEF Init, IsCompleted, Empty, NoRow, Completed
<1>3. \A t \in Tables : disk.table[t] = {}
  BY DEF Init, Empty, NoFrames
<1>4. RunsInv
  BY <1>1, <1>2 DEF Init, RunsInv, Calling, Pending, Writing, Tables
<1>5. DiskInv
  BY <1>2, <1>3 DEF DiskInv, OneRow, Ids, Tables
<1>6. WorkInv /\ ReadInv
  BY <1>1 DEF WorkInv, ReadInv, Writing, Tables
<1>7. QED
  BY <1>4, <1>5, <1>6

\* RunsInv is inductive, given the rest of DuckInv.
LEMMA RunsStep ==
  ASSUME TypeInv, RunsInv, WorkInv, [Next]_vars
  PROVE  RunsInv'
<1>1. ControlStep
  BY ControlSteps
<1>2. nextRun \in Nat /\ \A r \in Runs : r \in Nat
  BY ConfigAssumption DEF TypeInv, TypeOK, Runs
<1>3. nextRun' \in Nat /\ nextRun' >= nextRun
  BY <1>1, <1>2 DEF ControlStep
<1>4. ASSUME NEW s \in Sessions, pc'[s] \in Calling
      PROVE  run'[s] \in Runs /\ run'[s] < nextRun'
  BY <1>1, <1>2, <1>3, <1>4 DEF ControlStep, RunsInv, Calling, Pending, Commit, Writing
<1>5. ASSUME NEW s \in Sessions, NEW x \in Sessions, s # x,
             pc'[s] \in Calling, pc'[x] \in Calling
      PROVE  run'[s] # run'[x]
  <2>1. \A z \in Sessions : pc[z] \in Calling => run[z] \in Runs /\ run[z] < nextRun
    BY DEF RunsInv
  <2>2. \A z \in Sessions : Commit(z) => pc[z] \in Calling
    BY DEF Commit, Calling, Pending, Writing
  <2>3. CASE \E z \in {s, x} : pc'[z] = "opening" /\ run'[z] = nextRun /\ nextRun \in Runs
                                /\ \A y \in Sessions \ {z} : pc'[y] = pc[y] /\ run'[y] = run[y]
    BY <1>2, <1>5, <2>1, <2>3
  <2>4. CASE pc[s] \in Calling /\ pc[x] \in Calling /\ run'[s] = run[s] /\ run'[x] = run[x]
    BY <1>5, <2>4 DEF RunsInv
  <2>5. QED
    BY <1>1, <1>5, <2>2, <2>3, <2>4 DEF ControlStep, Calling
<1>6. ASSUME NEW r \in Runs, IsCompleted(r)' PROVE r < nextRun'
  BY <1>2, <1>3, <1>6, CompletedStep DEF RunsInv
<1>7. ASSUME NEW s \in Sessions, pc'[s] \in Pending, NEW r \in Runs, r = run'[s]
      PROVE  ~ IsCompleted(r)'
  <2>1. ~ Commit(s)
    BY <1>7 DEF Commit, Goto, Pending, Writing, Tables, TypeInv, TypeOK
  <2>2. \/ r = run[s] /\ pc[s] \in Pending
        \/ r = nextRun
    BY <1>1, <1>7, <2>1 DEF ControlStep, Calling, Pending, Writing, Tables
  <2>3. ~ IsCompleted(r)
    BY <1>2, <2>2 DEF RunsInv
  <2>4. ASSUME NEW z \in Sessions, Commit(z), run[z] < nextRun
        PROVE  r # run[z]
    <3>1. z # s /\ pc[z] \in Calling /\ (pc[s] \in Pending => pc[s] \in Calling)
      BY <2>1, <2>4 DEF Commit, Calling, Pending, Writing
    <3>2. QED
      BY <1>2, <2>2, <2>4, <3>1 DEF RunsInv
  <2>5. QED
    BY <2>3, <2>4, CompletedStep
<1>8. ASSUME NEW s \in Sessions, pc'[s] = "returning", NEW r \in Runs, r = run'[s]
      PROVE  IsCompleted(r)'
  <2>1. CASE Commit(s) /\ r = run[s]
    BY <2>1, CommitEffect
  <2>2. CASE pc[s] = "returning" /\ r = run[s]
    BY <2>2, CompletedStep DEF RunsInv
  <2>3. QED
    BY <1>1, <1>8, <2>1, <2>2 DEF ControlStep, Calling, Pending, Writing, Tables
<1>9. ASSUME NEW r \in returned'
      PROVE  IsCompleted(r)'
  <2>1. r \in returned \/ \E s \in Sessions : pc[s] = "returning" /\ r = run[s]
    BY <1>1, <1>9 DEF ControlStep
  <2>2. r \in Runs /\ IsCompleted(r)
    BY <2>1 DEF RunsInv, Calling, TypeInv, TypeOK
  <2>3. QED
    BY <2>2, CompletedStep
<1>10. \A s \in Sessions : pc'[s] \in Pending => ~ disk'.runs[run'[s]].status \in Completed
  BY <1>4, <1>7 DEF IsCompleted, Calling
<1>11. \A s \in Sessions : pc'[s] = "returning" => disk'.runs[run'[s]].status \in Completed
  BY <1>4, <1>8 DEF IsCompleted, Calling
<1>12. \A r \in Runs : r >= nextRun' => ~ disk'.runs[r].status \in Completed
  BY <1>2, <1>3, <1>6 DEF IsCompleted
<1>13. \A r \in returned' : disk'.runs[r].status \in Completed
  BY <1>9 DEF IsCompleted
<1>14. QED
  BY <1>4, <1>5, <1>10, <1>11, <1>12, <1>13 DEF RunsInv, IsCompleted

\* The batch of a run that was started is given once.
LEMMA BatchStays ==
  ASSUME TypeInv, [Next]_vars, NEW r \in Runs, r < nextRun
  PROVE  Batch(r)' = Batch(r)
BY ControlSteps DEF ControlStep, Batch

\* The disk is as good as the transaction that is committed: its rows are those of the disk
\* before and rows of its batch, and the whole batch is among them.
LEMMA CommittedTables ==
  ASSUME TypeInv, RunsInv, DiskInv, WorkInv, NEW s \in Sessions, pc[s] = "committing"
  PROVE  /\ OneRow(work)
         /\ Ids(work.table["raw_events"]) =
              Ids(work.table["application_logs"]) \cup Ids(work.table["quarantine_events"])
         /\ \A t \in Tables : /\ disk.table[t] \subseteq work.table[t]
                              /\ Stored(work, t, Destined(t, Batch(run[s])))
                              /\ \A row \in work.table[t] :
                                   row \in disk.table[t] \/ row.run = run[s]
<1> DEFINE B == Batch(run[s])
<1>1. /\ OneRow(work)
      /\ \A t \in Tables :
           /\ disk.table[t] \subseteq work.table[t]
           /\ Stored(work, t, Destined(t, B) \ Missing(s, t))
           /\ \A row \in work.table[t] :
                \/ row \in disk.table[t]
                \/ /\ row.run = run[s]
                   /\ [id |-> row.id, ok |-> row.ok] \in Destined(t, B)
  BY DEF WorkInv, Transaction, Extension, Writing, OneRow, Stored
<1>2. \A t \in Tables : Missing(s, t) = {}
  BY DEF Missing, Tables
<1>3. \A t \in Tables : Stored(work, t, Destined(t, B))
  BY <1>1, <1>2
<1> HIDE DEF B
<1>4. /\ "raw_events" \in Tables /\ "application_logs" \in Tables /\ "quarantine_events" \in Tables
      /\ Destined("raw_events", B) = B
      /\ Destined("application_logs", B) = {e \in B : e.ok}
      /\ Destined("quarantine_events", B) = {e \in B : ~ e.ok}
  BY DEF Tables, Destined
<1>5. ASSUME NEW id \in Ids(work.table["raw_events"])
      PROVE  id \in Ids(work.table["application_logs"]) \cup Ids(work.table["quarantine_events"])
  <2>1. PICK row \in work.table["raw_events"] : row.id = id
    BY DEF Ids
  <2>2. CASE row \in disk.table["raw_events"]
    <3>1. id \in Ids(disk.table["application_logs"]) \cup Ids(disk.table["quarantine_events"])
      BY <2>1, <2>2 DEF DiskInv, Ids
    <3>2. QED
      BY <1>1, <1>4, <3>1 DEF Ids
  <2>3. CASE [id |-> row.id, ok |-> row.ok] \in B
    <3>1. PICK e \in B : e.id = id
      BY <2>1, <2>3
    <3>2. e \in Destined("application_logs", B) \/ e \in Destined("quarantine_events", B)
      BY <1>4
    <3>3. QED
      BY <1>3, <1>4, <3>1, <3>2 DEF Stored, Ids
  <2>4. QED
    BY <1>1, <1>4, <2>1, <2>2, <2>3
<1>6. ASSUME NEW t \in Tables, NEW id \in Ids(work.table[t])
      PROVE  id \in Ids(work.table["raw_events"])
  <2>1. PICK row \in work.table[t] : row.id = id
    BY DEF Ids
  <2>2. CASE row \in disk.table[t]
    <3>1. id \in Ids(disk.table["raw_events"])
      BY <2>1, <2>2 DEF DiskInv, Ids, Tables
    <3>2. QED
      BY <1>1, <1>4, <3>1 DEF Ids
  <2>3. CASE [id |-> row.id, ok |-> row.ok] \in Destined(t, B)
    <3>1. PICK e \in B : e.id = id
      BY <2>1, <2>3 DEF Destined
    <3>2. QED
      BY <1>3, <1>4, <3>1 DEF Stored, Ids
  <2>4. QED
    BY <1>1, <2>1, <2>2, <2>3
<1>7. Ids(work.table["raw_events"]) =
        Ids(work.table["application_logs"]) \cup Ids(work.table["quarantine_events"])
  BY <1>4, <1>5, <1>6
<1>8. QED
  BY <1>1, <1>3, <1>7 DEF B

\* DiskInv is inductive: a COMMIT adds a whole batch with its run row, a failure a run row alone.
LEMMA DiskInvStep ==
  ASSUME TypeInv, RunsInv, DiskInv, WorkInv, [Next]_vars
  PROVE  DiskInv'
<1>1. \A r \in Runs : IsCompleted(r) => r < nextRun
  <2>1. nextRun \in Nat /\ \A r \in Runs : r \in Nat
    BY ConfigAssumption DEF TypeInv, TypeOK, Runs
  <2>2. QED
    BY <2>1 DEF RunsInv
<1>2. \A t \in Tables : disk.table[t] \subseteq Row
  BY DatabaseParts DEF TypeInv, TypeOK
<1>3. ASSUME disk'.table = disk.table, \A r \in Runs : IsCompleted(r)' <=> IsCompleted(r)
      PROVE  DiskInv'
  <2>1. OneRow(disk)' /\ Ids(disk'.table["raw_events"]) =
       Ids(disk'.table["application_logs"]) \cup Ids(disk'.table["quarantine_events"])
    BY <1>3 DEF DiskInv, OneRow
  <2>2. ASSUME NEW r \in Runs, IsCompleted(r)', NEW t \in Tables
        PROVE  Stored(disk, t, Destined(t, Batch(r)))'
    <3>1. Batch(r)' = Batch(r) /\ IsCompleted(r)
      BY <1>1, <1>3, <2>2, BatchStays
    <3>2. QED
      BY <1>3, <3>1 DEF DiskInv, Stored, Destined
  <2>3. \A t \in Tables : \A row \in disk'.table[t] : IsCompleted(row.run)'
    BY <1>2, <1>3 DEF DiskInv, Row
  <2>4. QED
    BY <2>1, <2>2, <2>3 DEF DiskInv
<1>4. ASSUME NEW s \in Sessions, Commit(s)
      PROVE  DiskInv'
  <2>1. pc[s] = "committing"
    BY <1>4 DEF Commit
  <2>2. /\ run[s] \in Runs /\ run[s] < nextRun
        /\ disk' = work
        /\ \A r \in Runs : IsCompleted(r)' <=> IsCompleted(r) \/ r = run[s]
    BY <1>4, CommitEffect
  <2>3. OneRow(disk)' /\ Ids(disk'.table["raw_events"]) =
       Ids(disk'.table["application_logs"]) \cup Ids(disk'.table["quarantine_events"])
    BY <2>1, <2>2, CommittedTables DEF OneRow
  <2>4. ASSUME NEW r \in Runs, IsCompleted(r)', NEW t \in Tables
        PROVE  Stored(disk, t, Destined(t, Batch(r)))'
    <3>1. r < nextRun /\ (IsCompleted(r) \/ r = run[s])
      BY <1>1, <2>2, <2>4
    <3>2. Batch(r)' = Batch(r)
      BY <3>1, BatchStays
    <3>3. Stored(work, t, Destined(t, Batch(r)))
      BY <2>1, <3>1, CommittedTables DEF DiskInv, Stored
    <3>4. QED
      BY <2>2, <3>2, <3>3 DEF Stored, Destined
  <2>5. ASSUME NEW t \in Tables, NEW row \in work.table[t]
        PROVE  row.run \in Runs /\ (IsCompleted(row.run) \/ row.run = run[s])
    <3>1. row \in disk.table[t] \/ row.run = run[s]
      BY <2>1, CommittedTables
    <3>2. QED
      BY <1>2, <2>2, <3>1 DEF DiskInv, Row
  <2>6. \A t \in Tables : \A row \in disk'.table[t] : IsCompleted(row.run)'
    BY <2>2, <2>5
  <2>7. QED
    BY <2>3, <2>4, <2>6 DEF DiskInv
<1>5. CASE disk' = disk
  BY <1>3, <1>5 DEF IsCompleted
<1>6. ASSUME NEW s \in Sessions, RecordFailure(s)
      PROVE  DiskInv'
  BY <1>3, <1>6, FailureEffect
<1>7. QED
  BY <1>4, <1>5, <1>6, DiskSteps DEF DiskStep

\* While a session has the lock, or nobody has, no other session stands where it is needed.
LEMMA OthersWait ==
  ASSUME TypeInv, NEW s \in Sessions, pc[s] \in Holding \/ lock = Nobody,
         NEW x \in Sessions, x # s
  PROVE  pc[x] \notin Holding /\ pc[x] \notin Writing /\ pc[x] # "reading"
BY SessionsAssumption DEF TypeInv, LockInv, Holding, Writing

\* Steps of other sessions leave the open transaction alone.
LEMMA TransactionStays ==
  ASSUME TypeInv, RunsInv, WorkInv, [Next]_vars, NEW s \in Sessions, pc[s] \in Writing,
         pc'[s] = pc[s], run'[s] = run[s], todo'[s] = todo[s], work' = work, disk' = disk
  PROVE  Transaction(s)'
<1>1. run[s] \in Runs /\ run[s] < nextRun
  BY DEF RunsInv, Calling, Pending
<1>2. batchOf'[run[s]] = batchOf[run[s]]
  BY <1>1, ControlSteps DEF ControlStep
<1>3. Batch(run[s])' = Batch(run[s])
  BY <1>2 DEF Batch
<1>4. \A t \in Tables : Missing(s, t)' = Missing(s, t)
  BY <1>3 DEF Missing
<1>5. CompletedRow(work, run[s])' = CompletedRow(work, run[s])
  BY <1>2 DEF CompletedRow, CountForRun
<1>6. Transaction(s)
  BY DEF WorkInv
<1>7. \A t \in Tables : Destined(t, Batch(run[s]))' = Destined(t, Batch(run[s]))
  BY <1>3 DEF Destined
<1>8. QED
  BY <1>4, <1>5, <1>6, <1>7 DEF Transaction

\* A transaction begins with the disk, and the whole batch to write.
LEMMA TransactionBegins ==
  ASSUME TypeInv, RunsInv, DiskInv, NEW s \in Sessions, OpenWrite(s)
  PROVE  Transaction(s)'
<1>1. /\ work' = disk /\ disk' = disk /\ run' = run /\ batchOf' = batchOf
      /\ todo'[s] = Items(batchOf[run[s]]) /\ pc'[s] = "raw_events"
  BY DEF OpenWrite, Goto, TypeInv, TypeOK, calls
<1>2. Batch(run[s])' = Batch(run[s])
  BY <1>1 DEF Batch
<1>3. todo'[s] = Destined("raw_events", Batch(run[s]))
  BY <1>1 DEF Destined, Batch
<1>4. \A t \in Tables : Missing(s, t)' = Destined(t, Batch(run[s]))
  BY <1>1, <1>2, <1>3 DEF Missing
<1>5. \A t \in Tables : Destined(t, Batch(run[s]))' = Destined(t, Batch(run[s]))
  BY <1>2 DEF Destined
<1>6. ASSUME NEW t \in Tables, NEW D
      PROVE  Extension(disk.table[t], disk.table[t], run[s], D, D)
  BY DEF Extension, DiskInv, OneRow
<1>7. QED
  BY <1>1, <1>4, <1>5, <1>6 DEF Transaction

\* An INSERT adds the events of the statement that were not there, and takes them off the
\* list of what is missing.
LEMMA InsertExtends ==
  ASSUME NEW old, NEW base, NEW r, NEW D \in SUBSET Events, NEW missing,
         \A e, f \in D : e.id = f.id => e = f,
         Extension(old, base, r, D, missing), NEW batch \in SUBSET missing
  PROVE  Extension(old \cup NewRows(old, batch, r), base, r, D, missing \ batch)
<1> DEFINE N == NewRows(old, batch, r)
<1>1. ASSUME NEW e \in batch PROVE [id |-> e.id, ok |-> e.ok] = e /\ e \in D
  BY EventFields DEF Extension
<1>2. \A row \in N : row.run = r /\ [id |-> row.id, ok |-> row.ok] \in D
  BY <1>1 DEF NewRows
<1>3. ASSUME NEW e \in batch, \A row \in old : row.id # e.id
      PROVE  \E row \in N : row.id = e.id
  <2>1. [id |-> e.id, run |-> r, ok |-> e.ok] \in N
    BY <1>3 DEF NewRows
  <2>2. QED
    BY <2>1
<1>4. \A x \in N : \A y \in old : x.id # y.id
  BY DEF NewRows
<1>5. \A x, y \in N : x.id = y.id => x = y
  BY <1>1 DEF NewRows
<1> HIDE DEF N
<1>6. \A x, y \in old \cup N : x.id = y.id => x = y
  BY <1>4, <1>5 DEF Extension
<1>7. \A e \in D \ (missing \ batch) : \E row \in old \cup N : row.id = e.id
  BY <1>3 DEF Extension
<1>8. Extension(old \cup N, base, r, D, missing \ batch)
  BY <1>2, <1>6, <1>7 DEF Extension
<1>9. QED
  BY <1>8 DEF N

\* An INSERT OR IGNORE extends what the transaction has written and shortens what is missing.
LEMMA TransactionInserts ==
  ASSUME TypeInv, RunsInv, WorkInv, NEW s \in Sessions,
         NEW batch \in SUBSET todo[s], InsertRecords(s, batch)
  PROVE  Transaction(s)'
<1>1. /\ pc[s] \in Tables /\ pc[s] \in Writing /\ Transaction(s)
      /\ disk' = disk /\ run' = run /\ batchOf' = batchOf /\ pc' = pc
      /\ todo'[s] = todo[s] \ batch
  BY DEF InsertRecords, WorkInv, Writing, TypeInv, TypeOK, calls
<1>2. run[s] \in Runs
  BY <1>1 DEF RunsInv, Calling, Pending
<1>3. /\ work'.runs = work.runs
      /\ work'.table = [work.table EXCEPT ![pc[s]] = work.table[pc[s]] \cup
                          NewRows(work.table[pc[s]], batch, run[s])]
  BY InsertEffect
<1>4. work.table \in [Tables -> SUBSET Row]
  BY DatabaseParts DEF TypeInv, TypeOK
<1>5. /\ work'.table[pc[s]] = work.table[pc[s]] \cup NewRows(work.table[pc[s]], batch, run[s])
      /\ \A t \in Tables \ {pc[s]} : work'.table[t] = work.table[t]
  BY <1>1, <1>3, <1>4
<1>6. Batch(run[s])' = Batch(run[s])
  BY <1>1 DEF Batch
<1>7. \A t \in Tables : Destined(t, Batch(run[s]))' = Destined(t, Batch(run[s]))
  BY <1>6 DEF Destined
<1>8. Missing(s, pc[s]) = todo[s]
  BY DEF Missing
<1>9. ASSUME NEW t \in Tables
      PROVE  Extension(work.table[t], disk.table[t], run[s],
                       Destined(t, Batch(run[s])), Missing(s, t))'
  <2>1. Extension(work.table[t], disk.table[t], run[s],
                  Destined(t, Batch(run[s])), Missing(s, t))
    BY <1>1 DEF Transaction
  <2>2. CASE t = pc[s]
    <3>1. /\ Destined(t, Batch(run[s])) \in SUBSET Events
          /\ \A e, f \in Destined(t, Batch(run[s])) : e.id = f.id => e = f
      BY <1>2, BatchEvents, ItemsDistinct DEF TypeInv, Batch, Destined
    <3>2. Missing(s, t) = todo[s]
      BY <1>8, <2>2
    <3>3. Extension(work.table[t] \cup NewRows(work.table[t], batch, run[s]), disk.table[t],
                    run[s], Destined(t, Batch(run[s])), todo[s] \ batch)
      BY <2>1, <3>1, <3>2, InsertExtends
    <3>4. Missing(s, t)' = todo[s] \ batch
      BY <1>1, <2>2 DEF Missing
    <3>5. work'.table[t] = work.table[t] \cup NewRows(work.table[t], batch, run[s])
      BY <1>5, <2>2
    <3>6. QED
      BY <1>1, <1>7, <3>3, <3>4, <3>5
  <2>3. CASE t # pc[s]
    <3>1. work'.table[t] = work.table[t]
      BY <1>5, <2>3
    <3>2. Missing(s, t)' = Missing(s, t)
      BY <1>1, <1>6, <2>3 DEF Missing
    <3>3. QED
      BY <1>1, <1>7, <2>1, <3>1, <3>2
  <2>4. QED
    BY <2>2, <2>3
<1>10. work'.runs = disk'.runs /\ pc'[s] # "committing"
  BY <1>1, <1>3 DEF Transaction, Tables
<1>11. QED
  BY <1>9, <1>10 DEF Transaction

\* The next table is begun when nothing of the last one is missing.
LEMMA TransactionTurns ==
  ASSUME TypeInv, RunsInv, WorkInv, NEW s \in Sessions, NextTable(s)
  PROVE  Transaction(s)'
<1>1. /\ pc[s] \in Tables /\ Transaction(s) /\ todo[s] = {}
      /\ disk' = disk /\ work' = work /\ run' = run /\ batchOf' = batchOf
      /\ pc'[s] = After(pc[s])
      /\ todo'[s] = IF After(pc[s]) \in Tables THEN Destined(After(pc[s]), Batch(run[s])) ELSE {}
  BY DEF NextTable, Goto, WorkInv, Writing, TypeInv, TypeOK, calls, database, Batch
<1>2. Batch(run[s])' = Batch(run[s])
  BY <1>1 DEF Batch
<1>3. \A t \in Tables : Destined(t, Batch(run[s]))' = Destined(t, Batch(run[s]))
  BY <1>2 DEF Destined
<1>4. CASE pc[s] = "raw_events"
  <2>1. \A t \in Tables : Missing(s, t)' = Missing(s, t)
    BY <1>1, <1>2, <1>4 DEF Missing, After, Tables, Destined
  <2>2. QED
    BY <1>1, <1>3, <1>4, <2>1 DEF Transaction, After
<1>5. CASE pc[s] = "application_logs"
  <2>1. \A t \in Tables : Missing(s, t)' = Missing(s, t)
    BY <1>1, <1>2, <1>5 DEF Missing, After, Tables, Destined
  <2>2. QED
    BY <1>1, <1>3, <1>5, <2>1 DEF Transaction, After
<1>6. CASE pc[s] = "quarantine_events"
  <2>1. \A t \in Tables : Missing(s, t)' = Missing(s, t)
    BY <1>1, <1>2, <1>6 DEF Missing, After, Tables, Destined
  <2>2. QED
    BY <1>1, <1>3, <1>6, <2>1 DEF Transaction, After
<1>7. QED
  BY <1>1, <1>4, <1>5, <1>6 DEF Tables

\* The run row is the last thing the transaction writes.
LEMMA TransactionRecords ==
  ASSUME TypeInv, RunsInv, DiskInv, WorkInv, NEW s \in Sessions, RecordRun(s)
  PROVE  Transaction(s)'
<1>1. /\ pc[s] = "recording" /\ pc[s] \in Writing /\ Transaction(s)
      /\ disk' = disk /\ run' = run /\ batchOf' = batchOf /\ todo' = todo
      /\ pc'[s] = "committing"
      /\ work' = [work EXCEPT !.runs[run[s]] = CompletedRow(work, run[s])]
  BY DEF RecordRun, Goto, WorkInv, Writing, TypeInv, TypeOK, calls
<1>2. run[s] \in Runs /\ CompletedRow(work, run[s]) \in RunRow
  BY <1>1, CompletedRowType DEF RunsInv, Calling, Pending
<1>3. /\ work'.runs = [work.runs EXCEPT ![run[s]] = CompletedRow(work, run[s])]
      /\ work'.table = work.table
  BY <1>1, <1>2, RunRowEffect DEF TypeInv, TypeOK
<1>4. CompletedRow(work, run[s])' = CompletedRow(work, run[s])
  BY <1>1, <1>3 DEF CompletedRow, CountForRun
<1>5. Batch(run[s])' = Batch(run[s])
  BY <1>1 DEF Batch
<1>6. \A t \in Tables : /\ Destined(t, Batch(run[s]))' = Destined(t, Batch(run[s]))
                        /\ Missing(s, t)' = Missing(s, t)
  BY <1>1, <1>5 DEF Destined, Missing, Tables
<1>7. QED
  BY <1>1, <1>3, <1>4, <1>6 DEF Transaction

\* WorkInv is inductive, given the rest of DuckInv.
LEMMA WorkStep ==
  ASSUME TypeInv, RunsInv, DiskInv, WorkInv, [Next]_vars
  PROVE  WorkInv'
<1>1. ASSUME NEW s \in Sessions,
             \/ OpenWrite(s) \/ \E batch \in SUBSET todo[s] : InsertRecords(s, batch)
             \/ NextTable(s) \/ RecordRun(s)
      PROVE  WorkInv'
  <2>1. pc[s] \in Holding \/ lock = Nobody
    BY <1>1 DEF OpenWrite, InsertRecords, NextTable, RecordRun, Holding
  <2>2. \A x \in Sessions \ {s} : pc'[x] = pc[x]
    BY <1>1 DEF OpenWrite, InsertRecords, NextTable, RecordRun, Goto, TypeInv, TypeOK
  <2>3. \A x \in Sessions \ {s} : pc'[x] \notin Writing
    BY <2>1, <2>2, OthersWait
  <2>4. Transaction(s)'
    BY <1>1, TransactionBegins, TransactionInserts, TransactionTurns, TransactionRecords
  <2>5. QED
    BY <2>3, <2>4 DEF WorkInv
<1>2. ASSUME NEW s \in Sessions, pc[s] \in Holding \/ lock = Nobody, pc'[s] \notin Writing,
             \A x \in Sessions \ {s} : pc'[x] = pc[x]
      PROVE  WorkInv'
  <2>1. \A x \in Sessions : pc'[x] \notin Writing
    BY <1>2, OthersWait
  <2>2. QED
    BY <2>1 DEF WorkInv
<1>3. ASSUME NEW s \in Sessions,
             \/ Commit(s) \/ StatementFails(s) \/ Rollback(s) \/ RollbackFails(s)
             \/ RecordFailure(s) \/ RecordFailureFails(s) \/ OpenRead(s)
      PROVE  WorkInv'
  <2>1. (pc[s] \in Holding \/ lock = Nobody) /\ pc'[s] \notin Writing
    BY <1>3 DEF Commit, StatementFails, Rollback, RollbackFails, RecordFailure,
                RecordFailureFails, OpenRead, Goto, Holding, Writing, Tables, TypeInv, TypeOK
  <2>2. \A x \in Sessions \ {s} : pc'[x] = pc[x]
    BY <1>3 DEF Commit, StatementFails, Rollback, RollbackFails, RecordFailure,
                RecordFailureFails, OpenRead, Goto, TypeInv, TypeOK
  <2>3. QED
    BY <1>2, <2>1, <2>2
<1>4. ASSUME NEW s \in Sessions,
             \/ \E t \in Tables : ReadFrame(s, t)
             \/ StorageMetrics(s) \/ FinishRead(s) \/ ReadFails(s)
      PROVE  WorkInv'
  <2>1. pc[s] \in Holding /\ pc'[s] \notin Writing
    BY <1>4 DEF ReadFrame, StorageMetrics, FinishRead, ReadFails, Goto, Holding, Writing, Tables,
                TypeInv, TypeOK
  <2>2. \A x \in Sessions \ {s} : pc'[x] = pc[x]
    BY <1>4 DEF ReadFrame, StorageMetrics, FinishRead, ReadFails, Goto, TypeInv, TypeOK
  <2>3. QED
    BY <1>2, <2>1, <2>2
<1>5. ASSUME work' = work, disk' = disk,
             \A s \in Sessions : \/ pc'[s] \notin Writing
                                 \/ pc'[s] = pc[s] /\ run'[s] = run[s] /\ todo'[s] = todo[s]
      PROVE  WorkInv'
  <2>1. ASSUME NEW s \in Sessions, pc'[s] \in Writing PROVE Transaction(s)'
    BY <1>5, <2>1, TransactionStays
  <2>2. QED
    BY <2>1 DEF WorkInv
<1>6. ASSUME NEW s \in Sessions,
             \/ \E input \in Inputs : IngestEvents(s, input)
             \/ OpenFails(s) \/ Return(s) \/ QueryMany(s)
      PROVE  WorkInv'
  <2>1. work' = work /\ disk' = disk /\ todo' = todo
    BY <1>6 DEF IngestEvents, OpenFails, Return, QueryMany, database
  <2>2. \A x \in Sessions \ {s} : pc'[x] = pc[x] /\ run'[x] = run[x]
    BY <1>6 DEF IngestEvents, OpenFails, Return, QueryMany, Goto, TypeInv, TypeOK
  <2>3. pc'[s] \notin Writing
    BY <1>6 DEF IngestEvents, OpenFails, Return, QueryMany, Goto, Writing, Tables, TypeInv, TypeOK
  <2>4. QED
    BY <1>5, <2>1, <2>2, <2>3
<1>7. CASE Crash
  <2>1. \A s \in Sessions : pc'[s] \notin Writing
    BY <1>7 DEF Crash, Writing, Tables
  <2>2. QED
    BY <2>1 DEF WorkInv
<1>8. CASE UNCHANGED vars
  BY <1>5, <1>8 DEF vars, database
<1>9. CASE Next
  BY <1>1, <1>3, <1>4, <1>6, <1>7, <1>9 DEF Next, Proceed
<1>10. QED
  BY <1>8, <1>9

\* ReadInv is inductive: frames are read in one transaction, of one state of the disk.
LEMMA ReadStep ==
  ASSUME TypeInv, ReadInv, [Next]_vars
  PROVE  ReadInv'
<1>1. ASSUME NEW s \in Sessions, OpenRead(s)
      PROVE  ReadInv'
  <2>1. \A x \in Sessions \ {s} : pc'[x] # "reading"
    BY <1>1, OthersWait DEF OpenRead, Goto, TypeInv, TypeOK
  <2>2. work' = disk' /\ Tables \ unread'[s] = {}
    BY <1>1 DEF OpenRead, TypeInv, TypeOK
  <2>3. QED
    BY <2>1, <2>2 DEF ReadInv
<1>2. ASSUME NEW s \in Sessions, NEW t \in Tables, ReadFrame(s, t)
      PROVE  ReadInv'
  <2>1. pc[s] = "reading" /\ pc' = pc /\ work' = work /\ disk' = disk /\ work = disk
    BY <1>2 DEF ReadFrame, ReadInv, database
  <2>2. /\ frames'[s][t] = Ids(disk.table[t]) /\ unread'[s] = unread[s] \ {t}
        /\ \A u \in Tables \ {t} : frames'[s][u] = frames[s][u]
        /\ \A x \in Sessions \ {s} : frames'[x] = frames[x] /\ unread'[x] = unread[x]
    BY <1>2, <2>1 DEF ReadFrame, Ids, TypeInv, TypeOK
  <2>3. \A u \in Tables \ unread'[s] : frames'[s][u] = Ids(disk.table[u])
    BY <2>1, <2>2 DEF ReadInv
  <2>4. QED
    BY <2>1, <2>2, <2>3 DEF ReadInv
<1>3. ASSUME NEW s \in Sessions, StorageMetrics(s)
      PROVE  ReadInv'
  <2>1. pc' = pc /\ work' = work /\ disk' = disk /\ frames' = frames
    BY <1>3 DEF StorageMetrics, database
  <2>2. \A x \in Sessions : Tables \ unread'[x] = Tables \ unread[x]
    BY <1>3 DEF StorageMetrics, Warehouse, Tables, TypeInv, TypeOK
  <2>3. QED
    BY <2>1, <2>2 DEF ReadInv
<1>4. ASSUME NEW s \in Sessions, pc[s] \in Holding \/ lock = Nobody, pc'[s] # "reading",
             \A x \in Sessions \ {s} : pc'[x] = pc[x]
      PROVE  ReadInv'
  <2>1. \A x \in Sessions : pc'[x] # "reading"
    BY <1>4, OthersWait
  <2>2. QED
    BY <2>1 DEF ReadInv
<1>5. ASSUME NEW s \in Sessions,
             \/ OpenWrite(s) \/ \E batch \in SUBSET todo[s] : InsertRecords(s, batch)
             \/ NextTable(s) \/ RecordRun(s) \/ Commit(s) \/ StatementFails(s)
      PROVE  ReadInv'
  <2>1. (pc[s] \in Holding \/ lock = Nobody) /\ pc'[s] # "reading"
    BY <1>5 DEF OpenWrite, InsertRecords, NextTable, RecordRun, Commit, StatementFails,
                Goto, After, Holding, Tables, TypeInv, TypeOK
  <2>2. \A x \in Sessions \ {s} : pc'[x] = pc[x]
    BY <1>5 DEF OpenWrite, InsertRecords, NextTable, RecordRun, Commit, StatementFails,
                Goto, TypeInv, TypeOK
  <2>3. QED
    BY <1>4, <2>1, <2>2
<1>6. ASSUME NEW s \in Sessions,
             \/ Rollback(s) \/ RollbackFails(s) \/ RecordFailure(s) \/ RecordFailureFails(s)
             \/ FinishRead(s) \/ ReadFails(s)
      PROVE  ReadInv'
  <2>1. pc[s] \in Holding /\ pc'[s] # "reading"
    BY <1>6 DEF Rollback, RollbackFails, RecordFailure, RecordFailureFails, FinishRead, ReadFails,
                Goto, Holding, TypeInv, TypeOK
  <2>2. \A x \in Sessions \ {s} : pc'[x] = pc[x]
    BY <1>6 DEF Rollback, RollbackFails, RecordFailure, RecordFailureFails, FinishRead, ReadFails,
                Goto, TypeInv, TypeOK
  <2>3. QED
    BY <1>4, <2>1, <2>2
<1>7. ASSUME work' = work, disk' = disk, unread' = unread, frames' = frames,
             \A s \in Sessions : pc'[s] = "reading" => pc[s] = "reading"
      PROVE  ReadInv'
  BY <1>7 DEF ReadInv
<1>8. ASSUME NEW s \in Sessions,
             \/ \E input \in Inputs : IngestEvents(s, input)
             \/ OpenFails(s) \/ Return(s) \/ QueryMany(s)
      PROVE  ReadInv'
  <2>1. work' = work /\ disk' = disk /\ unread' = unread /\ frames' = frames
    BY <1>8 DEF IngestEvents, OpenFails, Return, QueryMany, database, reading
  <2>2. \A x \in Sessions : pc'[x] = "reading" => pc[x] = "reading"
    BY <1>8 DEF IngestEvents, OpenFails, Return, QueryMany, Goto, TypeInv, TypeOK
  <2>3. QED
    BY <1>7, <2>1, <2>2
<1>9. CASE Crash
  BY <1>9 DEF Crash, ReadInv
<1>10. CASE UNCHANGED vars
  BY <1>7, <1>10 DEF vars, database, reading
<1>11. CASE Next
  BY <1>1, <1>2, <1>3, <1>5, <1>6, <1>8, <1>9, <1>11 DEF Next, Proceed
<1>12. QED
  BY <1>10, <1>11

-------------------------------------------------------------------------------
(***************************************************************************)
(* The theorems.                                                           *)
(***************************************************************************)
LEMMA DuckInvHolds == Spec => []DuckInv
<1>1. Init => DuckInv
  BY TypeInit, InvInit DEF DuckInv
<1>2. DuckInv /\ [Next]_vars => DuckInv'
  <2> SUFFICES ASSUME DuckInv, [Next]_vars PROVE DuckInv'
    OBVIOUS
  <2>1. TypeInv /\ RunsInv /\ DiskInv /\ WorkInv /\ ReadInv
    BY DEF DuckInv
  <2>2. TypeInv' /\ RunsInv' /\ DiskInv' /\ WorkInv' /\ ReadInv'
    BY <2>1, TypeStep, RunsStep, DiskInvStep, WorkStep, ReadStep
  <2>3. QED
    BY <2>2 DEF DuckInv
<1>3. QED
  BY <1>1, <1>2, PTL DEF Spec

\* Every variable keeps its type: above all, the number of duplicates in a run row is never
\* negative, and an open transaction always belongs to the holder of the lock.
THEOREM TypeCorrect == Spec => []TypeOK
<1>1. DuckInv => TypeOK
  BY DEF DuckInv, TypeInv
<1>2. QED
  BY <1>1, DuckInvHolds, PTL

\* "Raw, normalized, quarantine and successful audit writes are in one atomic transaction":
\* whatever statement raises and whenever the process dies, a run has a completed row and
\* all its events, or no row in any event table.
THEOREM Atomic == Spec => []BatchIsAtomic
<1>1. ASSUME DuckInv, NEW r \in Runs, ~ IsCompleted(r), NEW t \in Tables
      PROVE  CountForRun(disk, t, r) = 0
  <2>1. {row \in disk.table[t] : row.run = r} = {}
    BY <1>1 DEF DuckInv, DiskInv
  <2>2. QED
    BY <2>1, FS_EmptySet DEF CountForRun
<1>2. ASSUME DuckInv, NEW r \in Runs, IsCompleted(r), NEW t \in Tables,
             NEW e \in Destined(t, Items(batchOf[r]))
      PROVE  \E row \in disk.table[t] : row.id = e.id
  BY <1>2 DEF DuckInv, DiskInv, Stored, Batch
<1>3. DuckInv => BatchIsAtomic
  BY <1>1, <1>2 DEF BatchIsAtomic, IsCompleted
<1>4. QED
  BY <1>3, DuckInvHolds, PTL

\* The frames that query_many collects are of one moment: every original they show is there
\* as a normalized or as a quarantined event, and the other way round.
THEOREM FramesBelong == Spec => []FramesAgree
<1>1. ASSUME DuckInv, NEW s \in Sessions, pc[s] = "reading", unread[s] = {}
      PROVE  frames[s]["raw_events"] =
               frames[s]["application_logs"] \cup frames[s]["quarantine_events"]
  <2>1. \A t \in Tables : frames[s][t] = Ids(disk.table[t])
    BY <1>1 DEF DuckInv, ReadInv
  <2>2. QED
    BY <1>1, <2>1 DEF DuckInv, DiskInv, Tables
<1>2. DuckInv => FramesAgree
  BY <1>1 DEF FramesAgree
<1>3. QED
  BY <1>2, DuckInvHolds, PTL

-------------------------------------------------------------------------------
(***************************************************************************)
(* The refinement of EventStore: a COMMIT is a Store, a returned result is *)
(* an Acknowledge, and everything else is a stutter.                       *)
(***************************************************************************)
Copies == [t \in Tables |->
             [id \in EventIds |-> Cardinality({r \in disk.table[t] : r.id = id})]]
Acknowledged == UNION {{e.id : e \in Items(batchOf[r])} : r \in returned}

\* With one row per event, the number of copies says whether there is one.
OneCopy ==
  \A t \in Tables : \A id \in EventIds :
    Copies[t][id] = IF id \in Ids(disk.table[t]) THEN 1 ELSE 0

\* No event is in a table without its original.
StoredWell == \A t \in Tables : Ids(disk.table[t]) \subseteq Ids(disk.table["raw_events"])

\* Every event of a returned run is in raw_events and in the table of its verdict.
AllStored ==
  \A id \in Acknowledged : \E t \in Tables \ {"raw_events"} :
    id \in Ids(disk.table[t]) /\ id \in Ids(disk.table["raw_events"])

\* At most one copy is stored of every event.
LEMMA CopiesCount == DiskInv => OneCopy
<1> SUFFICES ASSUME DiskInv, NEW t \in Tables, NEW id \in EventIds
             PROVE  Copies[t][id] = IF id \in Ids(disk.table[t]) THEN 1 ELSE 0
  BY DEF OneCopy
<1> DEFINE S == {r \in disk.table[t] : r.id = id}
<1>1. Copies[t][id] = Cardinality(S)
  BY DEF Copies
<1>2. CASE id \in Ids(disk.table[t])
  <2>1. PICK row \in disk.table[t] : row.id = id
    BY <1>2 DEF Ids
  <2>2. S = {row}
    BY <2>1 DEF DiskInv, OneRow
  <2>3. QED
    BY <1>1, <1>2, <2>2, FS_Singleton
<1>3. CASE id \notin Ids(disk.table[t])
  <2>1. S = {}
    BY <1>3 DEF Ids
  <2>2. QED
    BY <1>1, <1>3, <2>1, FS_EmptySet
<1>4. QED
  BY <1>2, <1>3

\* The invariant makes the abstract state one of EventStore.
LEMMA InvStores == DuckInv => OneCopy /\ StoredWell /\ AllStored
<1> SUFFICES ASSUME DuckInv PROVE StoredWell /\ AllStored
  BY CopiesCount DEF DuckInv
<1>1. StoredWell
  BY DEF DuckInv, DiskInv, StoredWell, Tables
<1>2. ASSUME NEW r \in returned, NEW e \in Items(batchOf[r])
      PROVE  \E t \in Tables \ {"raw_events"} :
               e.id \in Ids(disk.table[t]) /\ e.id \in Ids(disk.table["raw_events"])
  <2>1. r \in Runs /\ IsCompleted(r)
    BY DEF DuckInv, RunsInv, TypeInv, TypeOK
  <2>2. e.ok \in BOOLEAN
    BY <2>1, BatchEvents, EventFields DEF DuckInv, TypeInv, Batch
  <2>3. /\ e \in Destined("raw_events", Batch(r))
        /\ e.ok => e \in Destined("application_logs", Batch(r))
        /\ ~ e.ok => e \in Destined("quarantine_events", Batch(r))
    BY DEF Destined, Batch
  <2>4. QED
    BY <2>1, <2>2, <2>3 DEF DuckInv, DiskInv, Stored, Ids, Tables
<1>3. AllStored
  BY <1>2 DEF AllStored, Acknowledged
<1>4. QED
  BY <1>1, <1>3

\* The initial states are those of EventStore.
LEMMA StoreInitially == Init => Promise!StoreInit
<1> SUFFICES ASSUME Init PROVE Promise!StoreInit
  OBVIOUS
<1>1. ASSUME NEW t \in Tables, NEW id \in EventIds
      PROVE  Cardinality({r \in disk.table[t] : r.id = id}) = 0
  <2>1. {r \in disk.table[t] : r.id = id} = {}
    BY DEF Init, Empty, NoFrames
  <2>2. QED
    BY <2>1, FS_EmptySet
<1>2. Acknowledged = {}
  BY DEF Init, Acknowledged
<1>3. QED
  BY <1>1, <1>2 DEF Promise!StoreInit, Acknowledged

\* Tables only grow, and a step that returns a result leaves them alone.
LEMMA TablesGrow ==
  ASSUME DuckInv, [Next]_vars
  PROVE  /\ \A t \in Tables : Ids(disk.table[t]) \subseteq Ids(disk'.table[t])
         /\ returned' # returned => disk' = disk
<1>1. TypeInv /\ RunsInv /\ DiskInv /\ WorkInv
  BY DEF DuckInv
<1>2. \A s \in Sessions : Commit(s) \/ RecordFailure(s) => returned' = returned
  BY DEF Commit, RecordFailure, calls
<1>3. ASSUME NEW s \in Sessions, Commit(s), NEW t \in Tables
      PROVE  Ids(disk.table[t]) \subseteq Ids(disk'.table[t])
  <2>1. pc[s] = "committing" /\ disk' = work
    BY <1>3 DEF Commit
  <2>2. disk.table[t] \subseteq work.table[t]
    BY <1>1, <2>1, CommittedTables
  <2>3. QED
    BY <2>1, <2>2 DEF Ids
<1>4. ASSUME NEW s \in Sessions, RecordFailure(s)
      PROVE  disk'.table = disk.table
  BY <1>1, <1>4, FailureEffect
<1>5. QED
  BY <1>2, <1>3, <1>4, DiskSteps DEF DiskStep

\* Every step is one of EventStore or leaves its variables alone.
LEMMA StoreStep ==
  ASSUME DuckInv, DuckInv', [Next]_vars
  PROVE  Promise!Store \/ Promise!Acknowledge
<1>1. TypeInv /\ RunsInv /\ ControlStep
  BY ControlSteps DEF DuckInv
<1>2. OneCopy /\ StoredWell /\ AllStored
  BY InvStores
<1>3. OneCopy' /\ StoredWell' /\ AllStored'
  BY InvStores, PTL
<1>4. \A r \in returned : Items(batchOf'[r]) = Items(batchOf[r])
  <2>1. nextRun \in Nat /\ \A r \in Runs : r \in Nat
    BY <1>1, ConfigAssumption DEF TypeInv, TypeOK, Runs
  <2>2. \A r \in returned : r \in Runs /\ r < nextRun
    BY <1>1, <2>1 DEF RunsInv, TypeInv, TypeOK
  <2>3. QED
    BY <1>1, <2>2 DEF ControlStep
<1>5. CASE returned' = returned
  <2>1. Acknowledged' = Acknowledged
    BY <1>4, <1>5 DEF Acknowledged
  <2>2. ASSUME NEW t \in Tables, NEW id \in EventIds
        PROVE  /\ Copies'[t][id] \in {0, 1}
               /\ Copies'[t][id] >= Copies[t][id]
               /\ Copies'[t][id] = 1 => Copies'["raw_events"][id] = 1
    <3>1. Ids(disk.table[t]) \subseteq Ids(disk'.table[t])
      BY TablesGrow
    <3>2. QED
      BY <1>2, <1>3, <3>1 DEF OneCopy, StoredWell, Tables
  <2>3. Copies' \in [Tables -> [EventIds -> {0, 1}]]
    BY <2>2 DEF Copies
  <2>4. Promise!Store
    BY <2>1, <2>2, <2>3 DEF Promise!Store, Copies, Acknowledged
  <2>5. QED
    BY <2>4
<1>6. CASE returned' # returned
  <2>1. Copies' = Copies
    BY <1>6, TablesGrow DEF Copies
  <2>2. Acknowledged \subseteq Acknowledged'
    BY <1>1, <1>4 DEF Acknowledged, ControlStep
  <2>3. Acknowledged' \subseteq EventIds
    <3>1. \A r \in returned' : batchOf'[r] \in Seq(Events)
      BY DEF DuckInv, TypeInv, TypeOK
    <3>2. \A r \in returned' : Items(batchOf'[r]) \subseteq Events
      BY <3>1, ItemsDistinct
    <3>3. QED
      BY <3>2 DEF Acknowledged, EventIds
  <2>4. ASSUME NEW id \in Acknowledged'
        PROVE  \E t \in Tables \ {"raw_events"} :
                 Copies[t][id] = 1 /\ Copies["raw_events"][id] = 1
    <3>1. PICK t \in Tables \ {"raw_events"} :
            id \in Ids(disk'.table[t]) /\ id \in Ids(disk'.table["raw_events"])
      BY <1>3 DEF AllStored
    <3>2. id \in Ids(disk.table[t]) /\ id \in Ids(disk.table["raw_events"])
      BY <1>6, <3>1, TablesGrow
    <3>3. QED
      BY <1>2, <2>3, <3>2 DEF OneCopy, Tables
  <2>5. Promise!Acknowledge
    BY <2>1, <2>2, <2>4 DEF Promise!Acknowledge, Copies, Acknowledged
  <2>6. QED
    BY <2>5
<1>7. QED
  BY <1>5, <1>6

\* Whatever raises or dies, an event is stored at most once, never without its original,
\* never taken away, and acknowledged only when it is stored.
THEOREM StoresEvents == Spec => ImplementsEventStore
<1>1. DuckInv /\ DuckInv' /\ [Next]_vars => [Promise!Store \/ Promise!Acknowledge]_Promise!storeVars
  BY StoreStep
<1>2. QED
  BY <1>1, StoreInitially, DuckInvHolds, PTL DEF ImplementsEventStore, Promise!StoreSpec, Spec
===============================================================================
