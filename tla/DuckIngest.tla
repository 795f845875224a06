------------------------------ MODULE DuckIngest ------------------------------
(***************************************************************************)
(* DuckDBBackend (src/ulpf/services/duckdb_backend.py): the sessions of    *)
(* one Streamlit process share a database file.  A lock per path lets one  *)
(* connection at a time open it; ingest_events does all its work in one    *)
(* transaction; after an exception it rolls back and writes a FAILED row   *)
(* outside of any transaction; query_many reads the frames of a dashboard  *)
(* one after the other over one connection.                                *)
(*                                                                         *)
(* The process may die at any point, and any statement may raise (memory   *)
(* limit, full disk, a file another process has locked).                   *)
(***************************************************************************)
EXTENDS Integers, FiniteSets, Sequences

CONSTANTS
  Sessions,         \* threads of the process
  Nobody,           \* holder of a free lock
  Events,           \* normalized events, records [id, ok]: event_id, parse_success
  Inputs,           \* the batches handed to ingest_events: sequences of events
  BlankId,          \* an event_id that is empty or only white space
  InsertBatchSize,  \* config.insert_batch_size
  MaxRuns,          \* bound: how many runs are started
  MaxFaults         \* bound: how many statements raise or processes die

Tables == {"raw_events", "application_logs", "quarantine_events"}
EventIds == {e.id : e \in Events}
Runs == 1..MaxRuns

ASSUME SessionsAssumption == Nobody \notin Sessions
ASSUME EventsAssumption ==
  /\ IsFiniteSet(Events)
  /\ \A e \in Events : e = [id |-> e.id, ok |-> e.ok] /\ e.ok \in BOOLEAN
  /\ Inputs \subseteq Seq(Events)
ASSUME ConfigAssumption ==
  /\ InsertBatchSize \in Nat \ {0}
  /\ MaxRuns \in Nat
  /\ MaxFaults \in Nat

Completed == {"COMPLETED", "COMPLETED_WITH_QUARANTINE"}

NoRow == [status |-> "NONE", received |-> 0, committed |-> 0, quarantined |-> 0, duplicates |-> 0]
NoFrames == [t \in Tables |-> {}]
Empty == [table |-> NoFrames, runs |-> [r \in Runs |-> NoRow]]

VARIABLES
  disk,      \* what is committed: table[t], rows [id, run, ok], and runs
  work,      \* the same as the open transaction sees it
  open,      \* whether the connection has a transaction open
  lock,      \* the session that holds the lock of the path
  pc,        \* where each session stands
  run,       \* run_id of the session's call
  todo,      \* items of the current table not written yet
  unread,    \* queries of query_many not run yet
  frames,    \* results of query_many: frames[s][t], the event ids seen in t
  nextRun,   \* the next fresh run_id
  batchOf,   \* history: the batch each run was given
  returned,  \* history: the runs whose IngestionResult a caller has
  faults     \* faults so far, for the bound MaxFaults

database == <<disk, work, open, lock>>
calls == <<nextRun, batchOf, returned>>
reading == <<unread, frames>>
vars == <<database, pc, run, todo, reading, calls, faults>>

\* list({event.event_id: event for event in received}.values()): the last one wins.
Items(input) ==
  {input[i] : i \in {k \in DOMAIN input :
                       \A j \in DOMAIN input : j > k => input[j].id # input[k].id}}

Destined(t, items) ==
  {e \in items : \/ t = "raw_events"
                 \/ t = "application_logs" /\ e.ok
                 \/ t = "quarantine_events" /\ ~ e.ok}

After(t) ==
  IF t = "raw_events" THEN "application_logs"
  ELSE IF t = "application_logs" THEN "quarantine_events"
  ELSE "recording"

\* (variant) Without ON CONFLICT DO NOTHING on a table without a primary key.
AllRows(rows, S, r) == {[id |-> e.id, run |-> r, ok |-> e.ok] : e \in S}

\* ON CONFLICT DO NOTHING: the rows of S whose primary key is not in the table yet.
NewRows(rows, S, r) ==
  {[id |-> e.id, run |-> r, ok |-> e.ok] : e \in {x \in S : \A row \in rows : row.id # x.id}}

CountForRun(db, t, r) == Cardinality({row \in db.table[t] : row.run = r})

CompletedRow(db, r) ==
  LET committed == CountForRun(db, "application_logs", r)
      quarantined == CountForRun(db, "quarantine_events", r)
  IN  [status |-> IF quarantined > 0 THEN "COMPLETED_WITH_QUARANTINE" ELSE "COMPLETED",
       received |-> Len(batchOf[r]),
       committed |-> committed,
       quarantined |-> quarantined,
       duplicates |-> Len(batchOf[r]) - committed - quarantined]

FailedRow(r) ==
  [status |-> "FAILED", received |-> Len(batchOf[r]), committed |-> 0,
   quarantined |-> 0, duplicates |-> 0]

-------------------------------------------------------------------------------
Init ==
  /\ disk = Empty
  /\ work = Empty
  /\ open = FALSE
  /\ lock = Nobody
  /\ pc = [s \in Sessions |-> "idle"]
  /\ run = [s \in Sessions |-> 0]
  /\ todo = [s \in Sessions |-> {}]
  /\ unread = [s \in Sessions |-> {}]
  /\ frames = [s \in Sessions |-> NoFrames]
  /\ nextRun = 1
  /\ batchOf = [r \in Runs |-> <<>>]
  /\ returned = {}
  /\ faults = 0

Goto(s, step) == pc' = [pc EXCEPT ![s] = step]
Fault == faults < MaxFaults /\ faults' = faults + 1

\* connection.close(), then the lock is released: an open transaction is gone.
Close ==
  /\ lock' = Nobody
  /\ open' = FALSE
  /\ work' = Empty

(***************************************************************************)
(* ingest_events.                                                          *)
(***************************************************************************)

\* The guards before anything is opened: return EMPTY, or raise for a blank event_id.
IngestEvents(s, input) ==
  /\ pc[s] = "idle"
  /\ nextRun <= MaxRuns
  /\ input # <<>>
  /\ \A i \in DOMAIN input : input[i].id # BlankId
  /\ run' = [run EXCEPT ![s] = nextRun]
  /\ batchOf' = [batchOf EXCEPT ![nextRun] = input]
  /\ nextRun' = nextRun + 1
  /\ Goto(s, "opening")
  /\ UNCHANGED <<database, todo, reading, returned, faults>>

\* The lock, duckdb.connect, BEGIN TRANSACTION.
OpenWrite(s) ==
  /\ pc[s] = "opening"
  /\ lock = Nobody
  /\ lock' = s
  /\ open' = TRUE
  /\ work' = disk
  /\ todo' = [todo EXCEPT ![s] = Items(batchOf[run[s]])]
  /\ Goto(s, "raw_events")
  /\ UNCHANGED <<disk, run, reading, calls, faults>>

\* The file is locked by another process, or BEGIN raises: outside of the try block.
OpenFails(s) ==
  /\ pc[s] \in {"opening", "connecting"}
  /\ lock = Nobody
  /\ Fault
  /\ Goto(s, "idle")
  /\ UNCHANGED <<database, run, todo, reading, calls>>

\* (variant) A batch is written as it is.
InsertAllRows(s, batch) ==
  /\ pc[s] \in Tables
  /\ batch # {}
  /\ work' = [work EXCEPT !.table[pc[s]] = @ \cup AllRows(@, batch, run[s])]
  /\ todo' = [todo EXCEPT ![s] = @ \ batch]
  /\ UNCHANGED <<disk, open, lock, pc, run, reading, calls, faults>>

\* One INSERT of _insert_records: the next insert_batch_size records.
InsertRecords(s, batch) ==
  /\ pc[s] \in Tables
  /\ batch # {}
  /\ Cardinality(batch) <= InsertBatchSize
  /\ Cardinality(batch) < InsertBatchSize => batch = todo[s]
  /\ work' = [work EXCEPT !.table[pc[s]] = @ \cup NewRows(@, batch, run[s])]
  /\ todo' = [todo EXCEPT ![s] = @ \ batch]
  /\ UNCHANGED <<disk, open, lock, pc, run, reading, calls, faults>>

NextTable(s) ==
  /\ pc[s] \in Tables
  /\ todo[s] = {}
  /\ todo' = [todo EXCEPT ![s] = IF After(pc[s]) \in Tables
                                 THEN Destined(After(pc[s]), Items(batchOf[run[s]]))
                                 ELSE {}]
  /\ Goto(s, After(pc[s]))
  /\ UNCHANGED <<database, run, reading, calls, faults>>

\* The two counts and the run row, in the same transaction.
RecordRun(s) ==
  /\ pc[s] = "recording"
  /\ work' = [work EXCEPT !.runs[run[s]] = CompletedRow(work, run[s])]
  /\ Goto(s, "committing")
  /\ UNCHANGED <<disk, open, lock, run, todo, reading, calls, faults>>

Commit(s) ==
  /\ pc[s] = "committing"
  /\ disk' = work
  /\ Close
  /\ Goto(s, "returning")
  /\ UNCHANGED <<run, todo, reading, calls, faults>>

Return(s) ==
  /\ pc[s] = "returning"
  /\ returned' = returned \cup {run[s]}
  /\ Goto(s, "idle")
  /\ UNCHANGED <<database, run, todo, reading, nextRun, batchOf, faults>>

\* A statement of the try block raises.  When it is COMMIT, DuckDB has dropped the
\* transaction by the time the except branch runs.
StatementFails(s) ==
  /\ pc[s] \in Tables \cup {"recording", "committing"}
  /\ Fault
  /\ IF pc[s] = "committing"
     THEN open' = FALSE /\ work' = Empty
     ELSE UNCHANGED <<open, work>>
  /\ todo' = [todo EXCEPT ![s] = {}]
  /\ Goto(s, "rolling_back")
  /\ UNCHANGED <<disk, lock, run, reading, calls>>

\* (variant) The statements were committed one by one.
RollbackTooLate(s) ==
  /\ pc[s] = "rolling_back"
  /\ open
  /\ disk' = work
  /\ open' = FALSE
  /\ work' = Empty
  /\ Goto(s, "record_failure")
  /\ UNCHANGED <<lock, run, todo, reading, calls, faults>>

Rollback(s) ==
  /\ pc[s] = "rolling_back"
  /\ open
  /\ open' = FALSE
  /\ work' = Empty
  /\ Goto(s, "record_failure")
  /\ UNCHANGED <<disk, lock, run, todo, reading, calls, faults>>

\* (variant) ROLLBACK is repeated until it works.
RollbackAgain(s) ==
  /\ pc[s] = "rolling_back"
  /\ ~ open
  /\ UNCHANGED vars

\* ROLLBACK without a transaction raises too: no FAILED row is written.
RollbackFails(s) ==
  /\ pc[s] = "rolling_back"
  /\ ~ open
  /\ Close
  /\ Goto(s, "idle")
  /\ UNCHANGED <<disk, run, todo, reading, calls, faults>>

\* The FAILED row commits by itself; then the exception goes on to the caller.
RecordFailure(s) ==
  /\ pc[s] = "record_failure"
  /\ disk' = [disk EXCEPT !.runs[run[s]] = FailedRow(run[s])]
  /\ Close
  /\ Goto(s, "idle")
  /\ UNCHANGED <<run, todo, reading, calls, faults>>

RecordFailureFails(s) ==
  /\ pc[s] = "record_failure"
  /\ Fault
  /\ Close
  /\ Goto(s, "idle")
  /\ UNCHANGED <<disk, run, todo, reading, calls>>

-------------------------------------------------------------------------------
(***************************************************************************)
(* query_many.  WAREHOUSE_QUERY takes the lock once more (it is an RLock). *)
(***************************************************************************)
Warehouse == "warehouse"

QueryMany(s) ==
  /\ pc[s] = "idle"
  /\ Goto(s, "connecting")
  /\ UNCHANGED <<database, run, todo, reading, calls, faults>>

OpenRead(s) ==
  /\ pc[s] = "connecting"
  /\ lock = Nobody
  /\ lock' = s
  /\ open' = TRUE
  /\ work' = disk
  /\ unread' = [unread EXCEPT ![s] = Tables \cup {Warehouse}]
  /\ Goto(s, "reading")
  /\ UNCHANGED <<disk, run, todo, frames, calls, faults>>

\* (variant) Each frame is read by a call of query, with a connection of its own.
ReadAlone(s, t) ==
  /\ pc[s] = "reading"
  /\ t \in unread[s] \cap Tables
  /\ frames' = [frames EXCEPT ![s][t] = {row.id : row \in disk.table[t]}]
  /\ unread' = [unread EXCEPT ![s] = @ \ {t}]
  /\ lock' = Nobody
  /\ UNCHANGED <<disk, work, open, pc, run, todo, calls, faults>>

ReadFrame(s, t) ==
  /\ pc[s] = "reading"
  /\ t \in unread[s] \cap Tables
  /\ frames' = [frames EXCEPT ![s][t] = {row.id : row \in work.table[t]}]
  /\ unread' = [unread EXCEPT ![s] = @ \ {t}]
  /\ UNCHANGED <<database, pc, run, todo, calls, faults>>

StorageMetrics(s) ==
  /\ pc[s] = "reading"
  /\ Warehouse \in unread[s]
  /\ lock \in {Nobody, s}
  /\ unread' = [unread EXCEPT ![s] = @ \ {Warehouse}]
  /\ UNCHANGED <<database, pc, run, todo, frames, calls, faults>>

FinishRead(s) ==
  /\ pc[s] = "reading"
  /\ unread[s] = {}
  /\ Close
  /\ frames' = [frames EXCEPT ![s] = NoFrames]
  /\ Goto(s, "idle")
  /\ UNCHANGED <<disk, run, todo, unread, calls, faults>>

\* A query raises: the timer interrupted it, or the SQL is not read-only.
ReadFails(s) ==
  /\ pc[s] = "reading"
  /\ Fault
  /\ Close
  /\ unread' = [unread EXCEPT ![s] = {}]
  /\ frames' = [frames EXCEPT ![s] = NoFrames]
  /\ Goto(s, "idle")
  /\ UNCHANGED <<disk, run, todo, calls>>

\* The process dies with all its sessions; DuckDB recovers what was committed.
Crash ==
  /\ Fault
  /\ \E s \in Sessions : pc[s] # "idle"
  /\ pc' = [s \in Sessions |-> "idle"]
  /\ todo' = [s \in Sessions |-> {}]
  /\ unread' = [s \in Sessions |-> {}]
  /\ frames' = [s \in Sessions |-> NoFrames]
  /\ Close
  /\ UNCHANGED <<disk, run, calls>>

-------------------------------------------------------------------------------
\* What a session does once it has the lock, or after it has given it back.
Proceed(s) ==
  \/ \E batch \in SUBSET todo[s] : InsertRecords(s, batch)
  \/ NextTable(s)
  \/ RecordRun(s)
  \/ Commit(s)
  \/ Return(s)
  \/ Rollback(s)
  \/ RollbackFails(s)
  \/ RecordFailure(s)
  \/ \E t \in Tables : ReadFrame(s, t)
  \/ StorageMetrics(s)
  \/ FinishRead(s)

Next ==
  \/ \E s \in Sessions :
       \/ \E input \in Inputs : IngestEvents(s, input)
       \/ OpenWrite(s)
       \/ OpenFails(s)
       \/ StatementFails(s)
       \/ RecordFailureFails(s)
       \/ QueryMany(s)
       \/ OpenRead(s)
       \/ ReadFails(s)
       \/ Proceed(s)
  \/ Crash

Spec == Init /\ [][Next]_vars

\* A thread that is not waiting for the lock runs, and DuckDB answers or raises.
FairSpec == Spec /\ \A s \in Sessions : WF_vars(Proceed(s))

-------------------------------------------------------------------------------
(***************************************************************************)
(* Properties.                                                             *)
(***************************************************************************)
Row == [id : EventIds, run : Runs, ok : BOOLEAN]
RunRow == [status : Completed \cup {"NONE", "FAILED"}, received : Nat, committed : Nat,
           quarantined : Nat, duplicates : Nat]
Database == [table : [Tables -> SUBSET Row], runs : [Runs -> RunRow]]
Steps == Tables \cup
  {"idle", "opening", "recording", "committing", "returning", "rolling_back",
   "record_failure", "connecting", "reading"}

\* Every variable has its type; no run row is ever stored as RUNNING, and whoever has a
\* transaction open holds the lock.
TypeOK ==
  /\ disk \in Database
  /\ work \in Database
  /\ open \in BOOLEAN
  /\ lock \in Sessions \cup {Nobody}
  /\ open => lock # Nobody
  /\ pc \in [Sessions -> Steps]
  /\ run \in [Sessions -> Runs \cup {0}]
  /\ todo \in [Sessions -> SUBSET Events]
  /\ unread \in [Sessions -> SUBSET (Tables \cup {Warehouse})]
  /\ frames \in [Sessions -> [Tables -> SUBSET EventIds]]
  /\ nextRun \in 1..(MaxRuns + 1)
  /\ batchOf \in [Runs -> Seq(Events)]
  /\ returned \subseteq Runs
  /\ faults \in 0..MaxFaults

\* "Raw, normalized, quarantine and successful audit writes are in one atomic
\* transaction" (docs/homelab-mode.md): a run has a completed row and all its events, or
\* no row in any event table.
BatchIsAtomic ==
  \A r \in Runs :
    IF disk.runs[r].status \in Completed
    THEN \A t \in Tables : \A e \in Destined(t, Items(batchOf[r])) :
           \E row \in disk.table[t] : row.id = e.id
    ELSE \A t \in Tables : CountForRun(disk, t, r) = 0

\* The frames of one dashboard belong together: every original it shows is there as a
\* normalized or as a quarantined event, and the other way round (query_many).
FramesAgree ==
  \A s \in Sessions :
    pc[s] = "reading" /\ unread[s] = {} =>
      frames[s]["raw_events"] =
        frames[s]["application_logs"] \cup frames[s]["quarantine_events"]

\* DuckIngest keeps the promise of a backend.
Promise == INSTANCE EventStore
  WITH RawTable <- "raw_events",
       copies <- [t \in Tables |->
                    [id \in EventIds |-> Cardinality({r \in disk.table[t] : r.id = id})]],
       acknowledged <- UNION {{e.id : e \in Items(batchOf[r])} : r \in returned}

ImplementsEventStore == Promise!StoreSpec

\* Whatever raises, the lock of the path comes free again for the other sessions.
LockIsReleased == lock # Nobody ~> lock = Nobody
===============================================================================
