# OCSF Forge: formal model

TLA+ modules of OCSF Forge, the TLC configurations that check them, and proofs for TLAPS. The
modules are translated from `src/`; every definition that models code is listed in
`PROJECT.json` ("map") with the lines it stands for.

## The system

OCSF Forge takes log lines in many formats, turns each into a normalized OCSF event or a
quarantined one, stores them in Iceberg tables through Trino (or in a local DuckDB file),
and runs a few workers around that store.

| Component | Code | State it keeps | Operations | What makes it correct |
| --- | --- | --- | --- | --- |
| Trino ingestion | `ulpf/services/trino.py` | `raw_events`, `application_logs`, `quarantine_events`, `ingestion_runs` | `ingest_events` and everything it calls | one row per event whatever races and retries; run rows that account for the batch and are never ahead of the data |
| Statement sizes, batching | `trino.py` | open batch of a MERGE | `_assert_events_fit`, `_merge_batches`, `_merge_batch` | no statement over the limits, none lost, and the pre-check refuses what the loop refuses |
| DuckDB backend | `ulpf/services/duckdb_backend.py` | one database file, one lock per path | `ingest_events`, `query_many`, `_connection` | a batch is atomic, a dashboard is one snapshot, the lock comes free |
| Kafka worker | `ulpf/streaming/` | consumer position, committed offsets, batch in hand | `main`, `initialize_with_retry`, `ingest_with_retry`, `publish_dead_letters` | nothing committed is lost, nothing finished is replayed, the log drains |
| Detection rules | `ulpf/detection/rules.py` | queues and counters of one pass | `evaluate` | finds what the rules say; evidence supports the finding |
| Detection worker and store | `ulpf/detection/worker.py`, `store.py` | `detections`, heartbeat, scan range | `run_once`, `main`, `read_authentication`, `write_findings` | findings are unique and fixed; late logons inside the lookback are found; health means progress |
| Event pipeline | `ulpf/pipeline.py`, `parsing/registry.py` | open logical event | `_logical_events`, `run`, `run_payload` | one event per record at its offset, or one quarantined document; budget exact |
| Normalizer, OCSF projection | `normalizer.py`, `ocsf.py`, `models.py` | none | `normalize`, `to_ocsf_dict` | invalid times, addresses and ports are quarantined; an exported record keeps its class contract and all its context |
| Format parsers | `parsing/*.py` | none | `detect`, `parse` | a logon's outcome is what its record says; escaped headers keep their fields |
| Maintenance, watchdog | `maintenance.py`, `watchdog.py` | time of the next maintenance | `run_once`, `stale_runs`, `main` | neither task starves the other; every abandoned run is reported; a failing table holds up none before it |
| SQL guard, consoles | `services/sql_guard.py`, `trino.py`, `ui/sql_console.py` | scan position, open quote, comment depth | `scrub_sql`, `query` | literals and comments end where SQL ends them; one statement at a time |
| Configuration, CLI, UI, catalog start-up, validation, benchmarks | rest | none of interest | | |

How they interact. The Kafka worker, the Streamlit sessions and the CLI call `ingest_events` of
one backend, in parallel and without a common lock when the backend is Trino. The Kafka worker
commits its offsets only after `ingest_events` and the dead letters have succeeded. The detection
worker reads `application_logs` and merges into `detections` with the MERGE code of Trino ingestion.
Maintenance and watchdog read the same tables. Nothing is shared but the tables, the Kafka topics
and, for DuckDB, the file.

The hard behaviours: optimistic Iceberg commits that conflict and are executed again; statements
whose answer is lost and which commit later; three tables written without a common transaction;
callers that retry whole batches; a worker evicted from its consumer group that does not know it;
failures between storage, dead letters and offset commit; a rollback that raises; logons that
arrive late or after an outage; two size estimates that should agree; one loop that serves two schedules; six
formats tried one after the other on the same document; two scanners of text with escapes. `PROJECT.json` lists them
under "hazards", at their lines, with the properties that watch them.

## Modules

### `EventStore`: what a backend promises

Two actions over `copies` (rows of an event id in a table) and `acknowledged` (ids somebody was
told are stored). `Store`: a commit adds rows, never a second one of an id, never a normalized or
quarantined one without its original. `Acknowledge`: only what is stored is acknowledged. It says
nothing about how: `TrinoIngest` and `DuckIngest` each define a refinement mapping `Promise` and
check `ImplementsEventStore == Promise!StoreSpec`.

### `TrinoIngest`: `TrinoService.ingest_events`

One state variable per table, `version` for its snapshots, `runs` for `ingestion_runs`, and for
each writer a program counter that stands for the place in `ingest_events`. One action per
statement of the code:

| Action | Code |
| --- | --- |
| `IngestNothing`, `IngestUnidentified` | the two early exits |
| `IngestEvents`, `InsertRun`, `ApplyRunWrite` | the run row as RUNNING |
| `AssertEventsFit` | the three size checks |
| `SendBatch`, `RejectBatch`, `NextTable` | `_merge_batches`, table by table; `RejectBatch` is the `ValueError` of line 310 |
| `PlanMerge`, `CommitMerge`, `ConflictMerge` | one MERGE: planned on a snapshot, committed if nobody committed since, else executed again `iceberg_commit_retries` times, then raised |
| `CountCommitted`, `CountQuarantined`, `ReadSnapshot`, `FinishRun` | the reads and the last UPDATE |
| `RecordFailure` | the except branch |
| `ConflictRunWrite` | a conflict on `ingestion_runs` |
| `LoseAnswer`, `Crash` | the client gives up, or dies; the statement goes on at the server |
| `LandMerge`, `LandRunWrite` | such a statement commits late, or never |

The payload of an event is its id and its verdict. `Items` keeps the last event of an id, as the
dictionary comprehension does. Which part of the items one MERGE carries is any part of at most
`InsertBatchSize`: the sizes decide it in the code, and `MergeBatches` models that. `Fits` and
`Mergeable` are the two size checks; `MergeSizes` computes them. The backoff between attempts is
left out, since it changes no state. `ensure_lakehouse` is idempotent DDL and is the initial state.

External assumptions: a MERGE is atomic on its table and reads one snapshot; Iceberg refuses a
commit when the table has changed since (serializable isolation); a MERGE that inserts nothing
commits nothing; an UPDATE of `ingestion_runs` follows the same rule.

### `MergeSizes`, `MergeBatches`: size of a statement

`MergeSizes` has the byte counts of `_assert_events_fit` and of `_merge_batches` with the actual
column lists of the three tables (`Layout`). `MergeBatches` is the loop that cuts the batches, with
both limits, the flush before and the flush at the end.

### `DuckIngest`: `DuckDBBackend`

`disk` is what is committed, `work` what the open transaction sees; `lock` is the lock of the path.
`ingest_events` is `IngestEvents`, `OpenWrite`, `InsertRecords` per batch, `NextTable`, `RecordRun`,
`Commit`, `Return`; any statement may raise (`StatementFails`), then `Rollback` and
`RecordFailure`, which runs outside a transaction and may fail itself. `RollbackFails` is a
`ROLLBACK` that raises, which happens when the failed COMMIT has ended the transaction: no FAILED
row is written, and the connection closes. `query_many` is `QueryMany`, `OpenRead`, one `ReadFrame`
per query (`StorageMetrics` for the one that looks at files), `FinishRead`. `Crash` is the death of
the process with all its sessions. External assumption: DuckDB's transactions are atomic and durable,
and reads in a transaction see one snapshot.

### `KafkaWorker`: the stream workers

Each worker is `Initialize`, `Poll`, `IngestSucceeds` / `IngestFails` / `GiveUp`, `Publish` /
`PublishFails`, `Commit` / `CommitUnanswered` / `CommitRefused`, `Leave`, and outside of its control
`Stop` (SIGTERM), `Crash`, `Restart`, `Evict` (max_poll_interval_ms) and `Rebalance`. Storage is
what `EventStore` promises: idempotent and, when it fails, partly done (`IngestFails` stores any
part of the batch). The group is Kafka's: a commit of a member that was evicted is refused
(`CommitRefused`). `InvalidRecords` stands for `parse_record` with `parse_success` false,
`RefusedRecords` for records that `ingest_events` refuses whenever they come.

### `AuthFindings`, `AuthRules`: the detection rules

`AuthFindings` says without any loop what the three rules find in a set of logons: the failures
in the window of an event, the threshold, the identity with its bucket, the first trigger of an
identity. `AuthRules` is `evaluate`: the pass in time order, `Purge` of both queues with their
counters, `Failure`, `Success`, `Skip`, `Emit` with its sampled evidence, and the refusal of an
input that is too long. Scope stands for host, service and address; an identity is a record where
the code hashes it; the rule version and the settings in the hash are constants. `evaluate` is
given a list; the sort makes it a set with a total order (time, then id).

### `DetectionScan`: the detection worker

A clock `now`, `arrived` (when each logon reached `application_logs`), the table `detections`, and
for each scanner, the poller or an operator's `--once --since --until`, the steps of `main`:
`RunOnce` (the range), `Evaluate` (one bounded read and the rules) or `RefuseScan`,
`SendMerge`, `CommitMerge`, `RetryMerge`, `ConflictMerge`, `Succeed` with the heartbeat. `Abandon`
is the exception handler. `ensure_storage` is idempotent DDL and no step of its own: the first poll
includes it, and `Fail` at a due poll is its failure. Time may pass between any two steps. `evaluate` is
`AuthFindings!Findings`, which `AuthRules` shows to be what the loop computes. Instants are
integers; a tick stands for any unit. `scans` is a history of the successes for one property.

### `StreamIngest`: the workers on Trino

Takes in `KafkaWorker` and `TrinoIngest` (two INSTANCEs over one state) and joins them where
the code does: an attempt of `ingest_with_retry` is `Attempt`, one call of `ingest_events` with the
batch as events; `Call` and `LoseAnswer` are its steps and its lost answers; `Return` is `FinishRun`
with the worker going on to `publish_dead_letters`; `Crash` takes worker and call together and
leaves the statement at the server; `Land` is such a statement. The rest are the worker's own steps.
`KafkaWorker` speaks of a storage that keeps a promise; here that promise is the code of
`TrinoService`. `ImplementsWorker` maps `stored` to what `ingest_events` has acknowledged.

### `Maintenance`: one loop for the watchdog and the maintenance

`main` of `maintenance.py`: `Look` and `LookFails` are `stale_runs` with its order, its `LIMIT 101` and
its truncation; `Decide` compares the clock with `next_maintenance`; `CountFiles`, `Optimize`,
`ExpireSnapshots` and `RemoveOrphans` are the statements of `run_once` on one table, `MaintenanceFails` an
exception out of any of them; `EndWait` is the return of `stopped.wait`, `Stop` the signal. `BeginRun` and
`EndRun` are the writers of `ingestion_runs`, `Tick` is time, which also passes during statements.
Clocks are relative (`due`, `left`), so nothing has to be bounded. `unseen` and `idle` are
histories: how long the loop has waited since a stale run was covered by a message, and since
maintenance was last attempted. They count waiting only: how long a statement runs is Trino's
affair and the request timeout's.

### `Parsers`, `Normalizer`, `RunPayload`, `LogicalEvents`: from a document to events

A record is abstracted to tokens: the syntaxes it matches (`reads`), what its decoder made of it
(`form`) and the fields that are present with values from a small set ("zoned", "naive", "65536",
"[]" for a list or object, ...). What the code asks of a value (`title`, `int`, `ip_address`, `fromisoformat`) is
a table on tokens. Times in digits are kept as the numbers they are, in millions and the rest (`Digits`), since
they go beyond TLC's integers; `InstantOf` reads them as the code does and `Meant` is what they are. `Parsers` has the eight parsers, the outcome table of `authentication.py` and the choice
of the registry (`Best`). `Normalizer` is `normalize` with ports, addresses, times and status ids,
then `to_ocsf_dict` with the projection on a class, and the contracts of the classes
(`validation/ocsf_contract.py` with the JSON files of `tests/fixtures/ocsf-1.8.0`).

`RunPayload` is `run_payload`: `Exceed`, `Refuse` or `Split` decide on the text of the document in the
order of the code (UTF-8, JSON, XML, CSV, lines), where JSON and XML are tried by the first characters of the text
whatever stands behind them; `Group` is `_logical_events`, line by line in
`LogicalEvents`; `NormalizeEvents` is the loop of `run`; `Raise` is the budget that ends it. The reference
is independent of that: `Held` reads off the document which records it holds, `Said` what a record says.

### `ScrubSql`, `EscapedFields`: two scanners

Character by character. `ScrubSql` is the loop of `scrub_sql` (one action per branch: `OpenQuote`, `Quoted`,
`LineComment`, `OpenComment`, `Commented`, `Copy`, `EndScan`) and the decision of `TrinoService.query`; a whole
word is one character (`SqlChars` lists them). Its reference `Syntax` looks at the text at once: a literal ends with the first row of
quotes of odd length, a comment where as many marks are closed as opened. That comments nest is taken from the code (`depth`); Trino's
own lexer ends a comment at the first `*/`, and what it makes of a statement is not modelled: the properties are about the text as `scrub_sql`
understands it. `EscapedFields` is `split_escaped`
with `unescape_cef`, held against a sender that escapes.

## Runs

| Run | Instance | Shows |
| --- | --- | --- |
| race | 2 writers, 3 overlapping batches with a repeated id and an event whose verdict differs, batch size 1, 1 retry, 2 runs, 1 fault | `OneRowPerEvent`, `CompletedRunAccounts`, `CompletedRunIsStored`, `SnapshotCoversRun`, `ImplementsEventStore` |
| retry | 2 writers, real byte counts at limit 10000 with an event that the pre-check refuses and one in the gap, an empty and an unidentified batch, 1 retry, 2 runs, 1 fault | `ReturnedResultStands`, `EveryCallReturns` |
| gap | real byte counts, limit 10000 | finding, see below |
| sessions | 2 sessions, 3 overlapping batches, batch size 2, 2 runs, 2 faults | `BatchIsAtomic`, `FramesAgree`, `ImplementsEventStore`, `LockIsReleased` |
| group | 2 workers, 2 partitions of 2 records, 3 faults | `CommittedIsHandled`, `OffsetsNeverRegress`, `EverythingCommitted` |
| refused | 1 worker, 3 records, the first is refused | finding, see below |
| rules | every set of up to 4 logons, plus one that is not eligible | `FindsWhatTheRulesSay`, `EvidenceSupportsFinding` |
| poll | poller and operator, 5 logons in 2 uploads at any delay, clock 0..3, window 2, lookback 2, limit 4, 1 fault | `OneFindingPerBucket`, `FirstEvidenceStands`, `HealthFollowsFindings`, `MissedOnlyInOutage` |
| schedule | 3 open runs of which a report names 1, 2 tables, interval 5, retry delay 2, watchdog interval 3, stuck timeout 1 | `StaleRunsCovered`, `AttemptsOnSchedule`, `OldestIsNamed`, `OnlyTablesBehindStarve` |
| documents | every file of up to 5 lines of every kind; lists, tables, containers, JSON and XML lines of up to 4 or 5 records; single records of every format with up to three fields; budget 3 | `EveryRecordIsOneEvent`, `BudgetIsExact`, `EventsAreTraces`, `InvalidFieldsAreQuarantined`, `NumericTimesAreNotMistaken`, `LogonOutcomeIsExplicit`, `OnlyEvidenceIsMissing`, `ContextSurvivesExport` |
| loops | every statement of up to 5 characters of seven, 8 of three (comments), 6 of five (semicolons); headers of three fields of up to 3 characters; every list of up to 5 events of 4 sizes | `ScrubbedIsSyntax`, `OneStatementIsRun`, `FieldsSurviveEscaping`, `StatementsWithinBudget`, `StatementsCarryEvents` |
| stream | 2 workers, 1 partition with a valid and an invalid record, no conflict retry, 2 runs, 1 disturbance of the group, 1 fault of Trino | `CommittedIsInTables`, `ImplementsWorker` |

The type invariant (`TypeOK`) of `TrinoIngest` is checked in race and proved; those of `KafkaWorker`, `Maintenance`,
`DuckIngest` and `DetectionScan` are proved, and no run lists them. Each property of a passing run
has a variant of the code (marked "(variant)" in the modules) that TLC finds to break it.

Why the bounds are enough. A duplicate row needs two statements planned on one snapshot, so two
writers, or one writer and one statement left behind by an earlier attempt: race has both, and
retry goes on after the second. One retry (`CommitRetries = 1`) makes both the
re-execution and the exhaustion happen. Batches of one event per MERGE put a commit between any two
rows. In the worker, three faults allow an eviction, a crash of the new owner and a failed commit in
one behaviour; two partitions allow a rebalance that moves one and keeps the other. The rules are
compared on sets of four logons because thresholds of two make each rule fire with three, and the
fourth makes an earlier or later trigger, an expired failure, a tie or a second user; times reach
from before the window to the end of the range, across two buckets; with an evidence limit of two the part of `EvidenceSupportsFinding` on larger
samples is empty in the run, and the theorem is for every limit. In poll three failures lie
in one bucket, so that where a scan begins decides the trigger, and two scans of the same logons
write different rows of one identity; the scan of instant 1 is one logon too large once both
uploads are there, that of instant 2 is not. In schedule a report
of one run with three stale ones is truncated, and the four intervals do not divide each other, so that
every order of due times occurs. The documents are longer than the budget by one or two records, so that it
is hit by a first, a middle and the last record, blank and ragged rows before and behind it included; three fields make
an alias shadow another and an outcome contradict an action. The times in digits are of 1978, where microseconds begin to lie beyond
the calendar, 2026, and the second of 2286 whose number is the boundary itself, in each unit, and the last millisecond
of the calendar with the first behind it. Eight characters hold a comment in a comment
with a mark cut in half. In stream two runs are an attempt that failed, or is still under way at an evicted
worker, and its replay; the theorems `WorkersOnTrino` and `FromTopicToTables` have no bound. Symmetry is used only for the
workers of race and stream, which check no liveness.

Deadlock is checked in sessions and schedule (behind a stop the writers of `ingestion_runs` go on). The
others may stop: calls and scans end, the log is finite, or the bound on runs is used up.

### Fairness

- `TrinoIngest!FairSpec`: each writer inside a call takes its next step. Every statement is
  answered, refused, or given up by `request_timeout`, and the retry loop only sleeps. Nothing is
  assumed of faults, late statements or new calls.
- `DuckIngest!FairSpec`: a thread that is not waiting for the lock goes on (`Proceed`); DuckDB
  answers or raises, and the query timer interrupts reads. Nothing is assumed about who gets the
  lock: `threading.RLock` makes no promise.
- `KafkaWorker!FairSpec`: a worker keeps running, a batch that storage does not refuse is taken
  after finitely many failures (the retry loop has no end), `restart: unless-stopped` restarts a
  container, and the coordinator completes a rebalance. Evictions, crashes, failed publishes and
  commits are bounded by `MaxFaults`: a group that is disturbed for ever makes no progress.
- `Maintenance!FairSpec`: the loop goes on, since every statement is answered or times out and the wait
  returns; the clock ticks; and the query of the watchdog does not fail for ever (strong fairness of
  `Look`, since `LookFails` may take its place any number of times). Nothing is assumed of the success of maintenance.

## What is proved

All for every value of the constants that satisfies the named assumptions.

**`TrinoIngestProofs`.** `TypeCorrect` (`TypeOK`) from the inductive `TypeInv`, which adds that a
writer inside a call has a run and that a batch under way implies a table. `NoDuplicateRows`
(`OneRowPerEvent`). It is not inductive by itself: a commit adds rows planned earlier. `MergeInv`
adds `MergesDistinct` (the events of a statement, those left behind included, have distinct ids,
which follows from `Items`) and `PlansFresh` (a plan whose base is the current version holds only
events that are not in the table). A commit bumps the version, so every other plan of that table is
no longer current, and `PlansFresh` is preserved vacuously for it; that is the whole argument why
optimistic commits replace a primary key. `SizeChecksDiffer`, about `MergeSizes`: for all three tables and every
limit of at least 10000 bytes the MERGE loop is stricter than the pre-check (so `SizesAssumption` is
justified), and there is an event between the two.

In the same module, about the row of a run: `CompletedStored` (`CompletedRunIsStored`), `RunsAccount` (`CompletedRunAccounts`), `SnapshotCovers`
(`SnapshotCoversRun`), `ResultsStand` (`ReturnedResultStands`) and `StoresEvents` (`ImplementsEventStore`). None
is inductive, since a completed row may be stored by a statement left behind long after its call. `RunInv`
follows a run through its call. Until the call writes its row for the last time it is clean (`Clean`): it has left
nothing behind in Trino, since a lost answer ends it in the except branch. The tables it is done with have all that is
destined for them, the one it is at has it but for what is under way and what is still to be sent (`Delivers`).
When it is done with all three the run is settled (`Settled`): no statement anywhere can add a row to it, so the
numbers the call reads back stay true (`Counts`), and every row that says completed, stored or left behind, is true from then on (`ClaimsInv`).
That the duplicates are never fewer than none is counting: the rows of a run are at most the items of its batch. For the refinement the
lemmas say what a step does to the tables and to `returned`, whichever action it is; a step of `EventStore`
is then a commit, a return or a stutter.

**`DuckIngestProofs`.** `TypeCorrect`, `Atomic` (`BatchIsAtomic`), `FramesBelong` (`FramesAgree`) and `StoresEvents`
(`ImplementsEventStore`). `DuckInv` is about the open transaction. Its session has the lock (`LockInv`), so
the disk stands still; what the transaction sees beyond the disk are rows of its own run for events of its own batch,
and table by table all of them but what is still to be inserted (`Transaction`). COMMIT makes that the disk in one
step with the run row, any other end drops it. What `query_many` has read is what the disk holds (`ReadInv`), and on disk every
original has a normalized or quarantined event (`DiskInv`).

**`KafkaWorkerProofs`.** `TypeCorrect`, `NothingLost` (`CommittedIsHandled`) and
`NoReplayOfCommitted` (`OffsetsNeverRegress`). The inductive `HandledInv` adds that a live member's
batch is exactly what lies between its committed and its fetched position in the partitions it owns
(`BatchInv`, `MemberInv`), and that what a worker at "publishing" or "committing" holds is stored
and dead-lettered. An evicted worker is not a member, and its commit changes nothing.

**`LoopProofs`, the maintenance loop.** `TypeCorrect`, `WatchdogCovers` (`StaleRunsCovered`) and `MaintenanceIsAttempted`
(`AttemptsOnSchedule`), for any intervals. `OnTime`: the time waited and the time until maintenance make up
the delay that the last attempt set, and the wait never goes past the due time. `Covered`: what a stale run
has waited and what is left of the wait stay within the watchdog's interval, and behind a look nothing has
waited. The look is the interesting step: `ShortReportIsComplete` shows that when a query for one row more than the
report names returns no more than that, the report names all (by the minimal run of those left out, in the well-founded
order of the sets of their predecessors).

**`LoopProofs`, the loops over one text or list.** `WithinBudget` (`StatementsWithinBudget`) and `EventsCarried`
(`StatementsCarryEvents`), for any layout, batch and limits: until the loop of `_merge_batches` ends the estimate is that of the batch
in hand, which fits, and what was sent and what is in hand are the events passed (`MergeInv`). `FieldsSurvive`
(`FieldsSurviveEscaping`), for any fields over any alphabet that has the special characters (`HeadersAssumption`): the splitter is within
the piece of a field, has all pieces before it, and stands before a character of the field or between the two that stand for it
(`Within`), so a bar separates where a field ends and nowhere else (`SeparatesAtEnd`); `UnescapeEscape` goes downwards from the end of a field.
The sums, the concatenations and `Unescape` are recursive. What they compute is shown without induction theorems: each is
the solution of an equation, which exists and is unique by the least counterexample (`LeastNatural`), and the least
counterexample again shows what it yields (`SumOneMore`, `FlattenAppend`, `FlattenPlaces`).

**`StreamIngestProofs`.** `WorkersOnTrino` (`ImplementsWorker`): every step of the composition is a step of
`KafkaWorker` or a stutter, so what `KafkaWorkerProofs` shows of committed offsets holds of workers that
call the real `ingest_events`, with "stored" for "acknowledged". The invariant `StreamInv` says that a call under way
belongs to a worker that is waiting for it and was given just the batch the worker holds
(`CallsServeBatches`), and that a new call never touches the batch of a run whose result was returned.
`FromTopicToTables` (`CommittedIsInTables`) puts three modules together: every step of the composition is a step of
`KafkaWorker` and of `TrinoIngest`, or a stutter of them, so `HandledInv` and `RunInv` hold of it. A record below a committed offset was acknowledged
(`HandledInv`); an acknowledged run is completed, and a completed run has all its events in the tables (`RunInv`); the id of every
record of a batch is the id of an item that was written (`EveryIdIsItem`: the last record of an id); and an event has one row.

**`AuthRulesProofs`.** `RulesFound` (`FindsWhatTheRulesSay`) and `EvidenceSupports` (`EvidenceSupportsFinding`). The
inductive `LoopInv` is about what the pass has behind it. Each queue is sorted, holds failures of its own user or
scope only, and among them all that a logon still to come in the range has in its window (`QueueOf`); each
counter counts its queue (`CountersInv`). So after `Purge` the queue of a logon is its window, and its length and its users
are what the rule counts (`PurgedIsWindow`, `CountedAreHeld`); for a success the counter of its timestamp
takes off the failures that are not strictly earlier (`EarlierFailures`). `Matches` says that every finding is that of a first
trigger and that every rule that fired has its finding; when the pass ends everything is behind it. The list
`Sorted` chooses element by element is sorted because ranks are a bijection (`RanksCount`). For the evidence:
the oldest part of a sorted queue repeats nothing, and the representatives are one failure of each
user (`OnePerUser`). Of the logons the proofs assume that a set has finitely many and that no two have one id
(`LogonsAssumption`), as for the next module.

**`DetectionScanProofs`.** `TypeCorrect`, `OneFinding` (`OneFindingPerBucket`), `FirstEvidence`
(`FirstEvidenceStands`), `Health` (`HealthFollowsFindings`) and `LateArrivals` (`MissedOnlyInOutage`). First the rules: the
findings of one call have distinct identities, and whatever fires is among them (`FindingsDistinct`, `FindingsComplete`:
the first of finitely many triggers of an identity exists); a rule that fires on some logons fires on more (`FiresWithMore`). Then
the table: a MERGE commits only where nobody has committed since it was planned (`WritesInv`). Then the poller:
whatever fires in its range on the logons present before its scan began is in the table or in its hands (`PollInv`), and at
a success its hands are empty. For `LateArrivals`, take the first success that ends after trigger and evidence:
the one before it ended no later than one of the two, so by the bound on the gap its range begins before the trigger, and
the logons it read include the evidence. Of the logons the proofs assume that they are finitely many and that
none has the id of another (`LogonsAssumption`): `application_logs` has one row of an event, which is what
`NoDuplicateRows` says.

**`LoopProofs`, the scanner of SQL.** `Scrubbed` (`ScrubbedIsSyntax`) and `OneStatement` (`OneStatementIsRun`), for any
statement over the characters of the model (`SqlTextsAssumption`), of any length. The invariant (`SqlInv`) says where the scan is
(`Place`): outside of literals and comments, what it kept and the syntax from there on make up the `Syntax` of the statement; inside one, what it
kept and the syntax from the beginning of that literal or comment do. In a literal it stands behind an even number of quotes
of a row, and no end lies behind it (`InRow`); in a comment the depth is one more than the marks opened and not closed, and the comment has
not ended (`InPairs`). So a quote that stands alone is the end that the reference finds (`RowEnds`), and so is the mark that takes
the depth to 0 (`CommentCloses`). `SyntaxFrom` is recursive; that it exists and yields a text is shown by the least counterexample again,
from the end of the statement (`SyntaxExists`). The decision of `query` is then about one text: when the part without its
semicolons is not empty and nothing follows a semicolon, the first character of the stripped text begins the one statement (`OneStart`),
and a word that changes data is part of a longer word in the text if it is in the stripped one (`InLongerWord`).

**`RunPayloadProofs`.** All the safety properties of `RunPayload`: `Traces` (`EventsAreTraces`), `Budget` (`BudgetIsExact`), `Records`
(`EveryRecordIsOneEvent`), `Valid` (`InvalidFieldsAreQuarantined`), `NumericTimes` (`NumericTimesAreNotMistaken`), `Logons` (`LogonOutcomeIsExplicit`), `Contracts`
(`OnlyEvidenceIsMissing`) and `Context` (`ContextSurvivesExport`), for any set of documents of the kinds the model has, of any length
(`DocumentsAssumption`), and any budget (`BudgetAssumption`). `Invariant`: the logical events are those of the document's format
(`LinesOf`), in order, and the events made so far are the traces of those below the index. What the loop over lines has put together is what the
document holds: by lemmas on sets in order (`InOrder`, `Ranks`: the n-th record of a text is the n-th event). What an event says goes
through three stages. The registry takes one of its parsers (`BestIs`: confidence and order leave one that is better than the others); each parser's
result is faithful to what the record says (`Faithful`, against `Said`), with the table of outcomes for logons; and
`normalize` accepts a field only if `Accepts` does, and gives a time in digits the instant that `DigitsRead` finds to be the one meant. For the exports the lemmas `InterchangeIs`, `Retained`, `LogonIs` and `HttpIs` say what the record
and its projection on a class keep, and where, from which follow the contracts (`Kept`, `Contracted`, `Sound`).

Only model-checked: liveness (`EveryCallReturns`, `LockIsReleased`, `EverythingCommitted`, `OldestIsNamed`,
`OnlyTablesBehindStarve`), which is out of the prover's reach, as is ENABLED. Every invariant and every action property of a
passing run is proved.

## Findings

1. **An oversized event can leave rows behind** (run gap). README.md:241 says "A single event larger
   than the safe Trino binding limit is rejected before event tables are partially written."
   `_assert_events_fit` allows 512 bytes plus twice the column list for the text of the statement;
   `_merge_batches` counts the column list a third time, with `source.` before each column. A
   normalized row whose size lies in the gap (536 bytes for `application_logs`) passes the check
   and raises at `trino.py:310`, after `raw_events` was written. The run ends FAILED with committed 0
   while its raw rows are there. A replay would not duplicate them.
2. **A refused record blocks its partition** (run refused). README.md:206 says "Invalid records also go
   to `ulpf-dead-letter` with their source coordinates and error reason"; retry.py:1 says "Retry
   transient storage failures". `ingest_with_retry` retries every exception, also the `ValueError`
   of an event that is too large, for ever. Invalid records in that batch and behind it are never
   dead-lettered.

Remarks that are no divergences:

- The configuration accepts `lookback_seconds` equal to `interval_seconds`, and then successive scans
  leave the duration of a scan uncovered, as `MissedOnlyInOutage` quantifies (its hypothesis is about the
  gap between the ends of two scans, not about the interval).
- A file of JSON lines is quarantined as a whole when its first record repeats a key; the same record on a
  later line is quarantined alone. `decode_json` meets the key before the text behind the first value shows that
  the file is no JSON document. `EveryRecordIsOneEvent` states this exception.
- A file of XML elements one a line, or a log whose first line begins with an XML element, is taken for one XML
  document, fails to decode and is quarantined as one event, although each line alone would be parsed. `EveryRecordIsOneEvent`
  states this exception too; README.md:167 speaks of "XML event collections" only.
- Microseconds are quarantined only because the calendar of `datetime` ends with the year 9999; before 1978-01-11T21:31:41Z they are
  read as milliseconds of a later time, and so are milliseconds before 1970-04-26 as seconds. `NumericTimesAreNotMistaken` begins in 1978.
- The outcome that a logon's action implies is that of the first of `event_type`, `action` and `operation`: a record with `event_type`
  login and `action` login_failure is a logon of unknown outcome. `LogonOutcomeIsExplicit` is about the action in this sense.
- When a record has two names for one field (`src_ip` and `client_ip`, `timestamp` and `time`), the second one is
  neither used nor kept in the metadata; it is only in the raw payload.
- A status that is a list counts as an outcome that is not known, and is not quarantined for it.
- A CEF record whose time field is empty is given the time of the collector, a JSON record is quarantined.
- The read-only console takes a keyword only up to white space: `VALUES(1)` is refused.

## Not modelled

- Cutting a text into fields (regular expressions, the key=value extensions of CEF and LEEF, the walk through an
  XML tree), formats of times beyond their class, messages, hashes: library work on strings. Unit tests
  are the place for it.
- Row conversions (`_raw_values` and the like), `events_to_frame`, dashboards and metrics queries: payload,
  without control that the properties see.
- The SQL console of DuckDB relies on DuckDB's own parser (`extract_statements`) and a read-only connection.
- `minio.py`, `init_catalog.py`, `cli.py`, the Streamlit pages: linear I/O; the sessions appear as
  writers and sessions.
- `config.py` parses settings; its values are the constants here.
- `validation/` beyond the contract check, `benchmarks/`: not part of the running system.
- The health commands only read the clock.

## Plan

The components with control of their own are modelled, and their safety properties are proved. What is left is to
model: the DuckDB console, if the parser of DuckDB is to be held against `scrub_sql`, and `parse_extensions`, whose
regular expressions are abstracted to the fields they give.

## Checking it

```
tlc -config TrinoIngest_race.cfg MCTrinoIngest
tlapm TrinoIngestProofs.tla      # likewise the seven other modules named *Proofs
```

Each `.cfg` names its module by its prefix, with `MC` before it. The longest runs (retry, poll,
group) take two to three minutes with two workers, the others less than one.
