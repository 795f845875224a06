---------------------------- MODULE Maintenance ----------------------------
(***************************************************************************)
(* The process of maintenance.py: one loop looks for abandoned runs        *)
(* (watchdog.stale_runs), maintains the tables when that is due (run_once), *)
(* and waits.  Times are relative: due is how long until next_maintenance,  *)
(* left how long the wait still lasts.  They need no bound, because both    *)
(* count down.  Statements take any time: the clock ticks while they run.   *)
(***************************************************************************)
EXTENDS Integers, FiniteSets

CONSTANTS
  Runs,              \* run ids that can be open at one time, in their order
  Tables,            \* the number of configured tables
  Interval,          \* ULPF_MAINTENANCE_INTERVAL_SECONDS
  RetryDelay,        \* 60 seconds
  WatchdogInterval,  \* ULPF_WATCHDOG_INTERVAL_SECONDS
  StuckTimeout,      \* ULPF_STUCK_RUN_TIMEOUT_SECONDS
  ReportLimit        \* 100

ASSUME TimesAssumption ==
  /\ Interval \in Nat /\ RetryDelay \in Nat
  /\ WatchdogInterval \in Nat \ {0} /\ StuckTimeout \in Nat \ {0}
ASSUME SizesAssumption == Runs \subseteq Nat /\ IsFiniteSet(Runs) /\ Tables \in Nat \ {0} /\ ReportLimit \in Nat \ {0}

VARIABLES
  pc,        \* where the loop is
  table,     \* the table of the statement under way
  due,       \* time until next_maintenance, 0 when it has come
  left,      \* what is left of the wait
  stopping,  \* a SIGTERM has arrived
  age,       \* how long each run has been RUNNING, NoRun when it is not
  report,    \* the runs that the last report of the watchdog names
  unseen,    \* time waited since a run got stale, without a message about it
  idle,      \* time waited since maintenance was last attempted
  outcome    \* what the last maintenance statement that ended came to

vars == <<pc, table, due, left, stopping, age, report, unseen, idle, outcome>>

Lesser(a, b) == IF a < b THEN a ELSE b

\* What is left of a time: max(0, next_maintenance - time.monotonic()) as it passes.
Pred(n) == IF n = 0 THEN 0 ELSE n - 1

NoRun == -1
OldEnough == StuckTimeout + 2  \* ages above it are not told apart

\* The places of the loop: the watchdog's statement, the test of the due time,
\* the four statements on a table, the wait, and the end of main.
Statements == {"counting", "optimizing", "expiring", "removing"}
Places == {"watching", "deciding", "waiting", "ended"} \cup Statements

\* started_at is strictly more than the timeout ago.
Stale(r) == age[r] > StuckTimeout
StaleRuns == {r \in Runs : Stale(r)}

\* The delay that main set when the last attempt ended.
Delay == IF outcome.ok THEN Interval ELSE RetryDelay

Init ==
  /\ pc = "watching" /\ table = 1 /\ due = 0 /\ left = 0 /\ stopping = FALSE
  /\ age = [r \in Runs |-> NoRun]
  /\ report = {}
  /\ unseen = [r \in Runs |-> 0]
  /\ idle = 0
  /\ outcome = [ok |-> TRUE, table |-> 0]

----------------------------------------------------------------------------
\* The watchdog.

\* ORDER BY started_at, run_id
Before(r, s) == age[r] > age[s] \/ (age[r] = age[s] /\ r < s)

\* The first n of a set of runs in that order.
\* (variant) ORDER BY started_at DESC
NewestOf(S, n) == {r \in S : Cardinality({s \in S : Before(r, s)}) < n}
FirstOf(S, n) == {r \in S : Cardinality({s \in S : Before(s, r)}) < n}

\* LIMIT 101: one row more than a report names tells that it is truncated.
\* (variant) the limit of the report
RowLimitOfReport == ReportLimit
RowLimit == ReportLimit + 1

\* A message covers a run that it names, or when it says that it is not complete.
Look ==
  /\ pc = "watching"
  /\ LET rows == FirstOf(StaleRuns, RowLimit)
         named == FirstOf(rows, ReportLimit)
         truncated == Cardinality(rows) > ReportLimit
     IN /\ report' = named
        /\ unseen' = [r \in Runs |-> IF r \in named \/ truncated \/ ~Stale(r)
                                     THEN 0 ELSE unseen[r]]
  /\ pc' = "deciding"
  /\ UNCHANGED <<table, due, left, stopping, age, idle, outcome>>

\* The message is then an ingestion_watchdog_error.
LookFails ==
  /\ pc = "watching"
  /\ unseen' = [r \in Runs |-> 0]
  /\ pc' = "deciding"
  /\ UNCHANGED <<table, due, left, stopping, age, report, idle, outcome>>

----------------------------------------------------------------------------
\* Maintenance.

\* stopped.wait: at most the watchdog's interval, and not past the due time.
\* (variant) a wait for the watchdog alone
WaitForWatchdog(time) == WatchdogInterval
WaitTime(time) == Lesser(WatchdogInterval, time)

\* (variant) an attempt goes on with the table that failed
DecideResuming ==
  /\ pc = "deciding"
  /\ IF due = 0
     THEN pc' = "counting" /\ idle' = 0 /\ UNCHANGED <<left, table>>
     ELSE pc' = "waiting" /\ left' = WaitTime(due) /\ UNCHANGED <<table, idle>>
  /\ UNCHANGED <<due, stopping, age, report, unseen, outcome>>
Decide ==
  /\ pc = "deciding"
  /\ IF due = 0
     THEN pc' = "counting" /\ table' = 1 /\ idle' = 0 /\ UNCHANGED left
     ELSE pc' = "waiting" /\ left' = WaitTime(due) /\ UNCHANGED <<table, idle>>
  /\ UNCHANGED <<due, stopping, age, report, unseen, outcome>>

\* The statements of one table.  Whether it has many small files is any answer.
Execute(from, to) ==
  /\ pc = from /\ pc' = to
  /\ UNCHANGED <<table, due, left, stopping, age, report, unseen, idle, outcome>>

CountFiles == \E next \in {"optimizing", "expiring"} : Execute("counting", next)
Optimize == Execute("optimizing", "expiring")
ExpireSnapshots == Execute("expiring", "removing")

\* The end of run_once: the next attempt is due after the given delay.
Attempted(ok, delay) ==
  /\ outcome' = [ok |-> ok, table |-> table]
  /\ due' = delay
  /\ left' = WaitTime(delay)
  /\ pc' = "waiting"
  /\ UNCHANGED <<table, stopping, age, report, unseen, idle>>

RemoveOrphans ==
  /\ pc = "removing"
  /\ IF table = Tables
     THEN Attempted(TRUE, Interval)
     ELSE /\ pc' = "counting" /\ table' = table + 1
          /\ outcome' = [ok |-> TRUE, table |-> table]
          /\ UNCHANGED <<due, left, stopping, age, report, unseen, idle>>

\* A statement raises: the tables behind this one are left for the next attempt,
\* which begins with the first table.
MaintenanceFails == pc \in Statements /\ Attempted(FALSE, RetryDelay)

\* The wait ends when its time has passed or a stop arrives.
EndWait ==
  /\ pc = "waiting" /\ (left = 0 \/ stopping)
  /\ pc' = IF stopping THEN "ended" ELSE "watching"
  /\ UNCHANGED <<table, due, left, stopping, age, report, unseen, idle, outcome>>

\* The handler of SIGTERM and SIGINT.
Stop ==
  /\ pc # "ended" /\ ~stopping
  /\ stopping' = TRUE
  /\ UNCHANGED <<pc, table, due, left, age, report, unseen, idle, outcome>>

----------------------------------------------------------------------------
\* Around the process: the writers of ingestion_runs and the clock.

BeginRun(r) ==
  /\ age[r] = NoRun
  /\ age' = [age EXCEPT ![r] = 0]
  /\ UNCHANGED <<pc, table, due, left, stopping, report, unseen, idle, outcome>>

\* A writer records its end, or the row of a dead writer is replaced.
EndRun(r) ==
  /\ age[r] # NoRun
  /\ age' = [age EXCEPT ![r] = NoRun]
  /\ unseen' = [unseen EXCEPT ![r] = 0]
  /\ UNCHANGED <<pc, table, due, left, stopping, report, idle, outcome>>

Older(r) == IF age[r] = NoRun THEN NoRun ELSE Lesser(age[r] + 1, OldEnough)

\* A unit of time.  The clock does not pass the moment when the wait returns: what
\* the loop is late counts as time of the next statement.
Tick ==
  /\ pc # "ended"
  /\ pc = "waiting" => left > 0 /\ ~stopping
  /\ age' = [r \in Runs |-> Older(r)]
  /\ due' = Pred(due)
  /\ IF pc = "waiting"
     THEN /\ left' = left - 1
          /\ idle' = idle + 1
          /\ unseen' = [r \in Runs |-> IF Stale(r) THEN unseen[r] + 1 ELSE unseen[r]]
     ELSE UNCHANGED <<left, idle, unseen>>
  /\ UNCHANGED <<pc, table, stopping, report, outcome>>

Loop ==
  \/ Look \/ LookFails \/ Decide
  \/ CountFiles \/ Optimize \/ ExpireSnapshots \/ RemoveOrphans \/ MaintenanceFails
  \/ EndWait

Next ==
  \/ Loop \/ Stop \/ Tick
  \/ \E r \in Runs : BeginRun(r) \/ EndRun(r)

Spec == Init /\ [][Next]_vars

\* Each statement ends, answered or not (the requests of the client time out), the
\* wait returns when its time has passed, and the watchdog's query does not fail for
\* ever.  Nothing is assumed of the success of the maintenance statements.
FairSpec == Spec /\ WF_vars(Loop) /\ WF_vars(Tick) /\ SF_vars(Look)

----------------------------------------------------------------------------
TypeOK ==
  /\ pc \in Places /\ table \in 1..Tables
  /\ due \in Nat /\ left \in Nat /\ idle \in Nat
  /\ stopping \in BOOLEAN
  /\ age \in [Runs -> NoRun..OldEnough]
  /\ report \in SUBSET Runs
  /\ unseen \in [Runs -> Nat]
  /\ outcome \in [ok : BOOLEAN, table : 0..Tables]

\* However maintenance goes, and however often it fails, the loop does not wait longer
\* than the watchdog's interval before a message covers a stale run: it is named, the
\* message says that it is truncated, or that the query failed.
StaleRunsCovered == \A r \in Runs : unseen[r] <= WatchdogInterval

\* The watchdog's shorter waits do not put off maintenance: between two attempts the
\* loop waits no longer than the interval, or the retry delay after a failure.
AttemptsOnSchedule == idle <= Delay

\* A run that stays the oldest stale one is named for ever, though the report is cut at
\* its limit and younger runs come and go.
OldestIsNamed ==
  \A r \in Runs :
    <>[](Stale(r) /\ \A s \in StaleRuns \ {r} : Before(r, s))
      => <>stopping \/ <>[](r \in report)

\* A table that is not maintained again and again has itself, or a table before it, fail
\* again and again: a failure never holds up the tables in front of it.
OnlyTablesBehindStarve ==
  \A t \in 1..Tables :
    \/ <>stopping
    \/ []<>(outcome = [ok |-> TRUE, table |-> t])
    \/ \E u \in 1..t : []<>(outcome = [ok |-> FALSE, table |-> u])

=============================================================================
