----------------------------- MODULE DetectionScan -----------------------------
(***************************************************************************)
(* The detection worker (src/ulpf/detection/worker.py, store.py): it polls *)
(* application_logs for logons of the last Lookback ticks, evaluates the   *)
(* rules on them and merges the findings into iceberg.logging.detections,  *)
(* where a finding that is stored already stays as it is.  Logons arrive   *)
(* late and in any order, statements fail, lose their answers or conflict, *)
(* the worker dies and restarts, and an operator may run a scan of a past  *)
(* range (--once --since --until) beside it.                               *)
(*                                                                         *)
(* evaluate is AuthFindings!Findings, which AuthRules compares with the    *)
(* code's loop; how the rows of one write are cut into statements is       *)
(* MergeBatches, here any part of them.                                    *)
(***************************************************************************)
EXTENDS AuthFindings

CONSTANTS
  Poller,         \* the worker
  Backfills,      \* operators' scans of a past range
  Ranges,         \* the ranges [since, until) they choose from
  Uploads,        \* batches of logons that may be ingested, each at once
  Lookback, Interval, RetryDelay,  \* config.lookback_seconds, interval_seconds, min(30, interval)
  ScanLimit,      \* config.max_events
  CommitRetries,  \* config.iceberg_commit_retries
  MaxNow,         \* bound: last instant of the clock
  MaxFaults       \* bound: failures, crashes and lost answers

ASSUME ScanAssumption ==
  /\ Poller \notin Backfills
  /\ Interval \in Nat \ {0} /\ RetryDelay \in 1..Interval
  /\ Lookback \in Nat /\ Lookback >= Window /\ Lookback >= Interval
  /\ ScanLimit \in Nat \ {0} /\ CommitRetries \in Nat
  /\ Ranges \subseteq [since : Int, until : Int]
  /\ \A r \in Ranges : r.since < r.until
  /\ MaxNow \in Nat /\ MaxFaults \in Nat

Logons == UNION Uploads

\* application_logs has one row per event_id.
ASSUME LogonsAssumption ==
  /\ IsFiniteSet(Logons)
  /\ \A e \in Logons : e.id \in Int /\ e.time \in Int /\ e.status \in {1, 2}
  /\ \A e, f \in Logons : e.id = f.id => e = f

Scanners == {Poller} \cup Backfills
NotYet == MaxNow + 1
NoScan == [since |-> 0, until |-> 0]
NoMerge == [rows |-> {}, seen |-> {}, attempt |-> 0]

VARIABLES
  now,         \* the clock
  arrived,     \* logon -> the instant at which it is in application_logs
  detections,  \* rows of the table detections
  behind,      \* MERGE statements whose client is gone
  pc,          \* scanner -> "waiting", "reading", "writing", "merging", "ended"
  due,         \* end of the poller's wait, 0 while it scans
  range,       \* scanner -> start and end of its scan
  unwritten,   \* scanner -> findings of the scan not yet written
  merge,       \* scanner -> its MERGE: rows, the table it was planned on, attempt
  heartbeat,   \* time of the poller's last success
  scans,       \* (history) the poller's successes: first start, last end, longest gap of ends
  faults       \* (bound) faults so far

worker == <<pc, due, range, unwritten, merge>>
vars == <<now, arrived, detections, behind, worker, heartbeat, scans, faults>>

Present(t) == {e \in Logons : arrived[e] <= t}

Init ==
  /\ now = 0
  /\ arrived = [e \in Logons |-> NotYet]
  /\ detections = {}
  /\ behind = {}
  /\ pc = [s \in Scanners |-> "waiting"]
  /\ due = 0
  /\ range = [s \in Scanners |-> NoScan]
  /\ unwritten = [s \in Scanners |-> {}]
  /\ merge = [s \in Scanners |-> NoMerge]
  /\ heartbeat = -1
  /\ scans = [any |-> FALSE, first |-> 0, last |-> 0, longest |-> 0]
  /\ faults = 0

-------------------------------------------------------------------------------
Tick ==
  /\ now < MaxNow
  /\ now' = now + 1
  /\ UNCHANGED <<arrived, detections, behind, worker, heartbeat, scans, faults>>

\* Logons are ingested, in time, late, or ahead of the clock.
Arrive(batch) ==
  /\ \A e \in batch : arrived[e] = NotYet
  /\ arrived' = [e \in Logons |-> IF e \in batch THEN now ELSE arrived[e]]
  /\ UNCHANGED <<now, detections, behind, worker, heartbeat, scans, faults>>

\* The exception handler of main: another poll after a delay, or the end of --once.
Abandon(s) ==
  /\ pc' = [pc EXCEPT ![s] = IF s = Poller THEN "waiting" ELSE "ended"]
  /\ due' = IF s = Poller THEN now + RetryDelay ELSE due
  /\ range' = [range EXCEPT ![s] = NoScan]
  /\ unwritten' = [unwritten EXCEPT ![s] = {}]
  /\ merge' = [merge EXCEPT ![s] = NoMerge]

\* The poller has waited; an operator starts at any time.
Due(s) == pc[s] = "waiting" /\ (s = Poller => due <= now)

\* ensure_storage is done (CREATE TABLE IF NOT EXISTS), run_once begins: the range ends now and reaches back Lookback, or is the one asked for.
RunOnce(s) ==
  /\ Due(s)
  /\ \E r \in IF s = Poller THEN {[since |-> now - Lookback, until |-> now]} ELSE Ranges :
       range' = [range EXCEPT ![s] = r]
  /\ pc' = [pc EXCEPT ![s] = "reading"]
  /\ due' = IF s = Poller THEN 0 ELSE due
  /\ UNCHANGED <<now, arrived, detections, behind, unwritten, merge,
                 heartbeat, scans, faults>>

\* (variant) The scan reads its range without the window before it.
RowsOfRange(s) ==
  {e \in Present(now) : range[s].since <= e.time /\ e.time < range[s].until}

\* read_authentication: one statement, with the window before the range as context.
Rows(s) ==
  {e \in Present(now) : range[s].since - Window <= e.time /\ e.time < range[s].until}

\* (variant) LIMIT cuts the rows and nothing is raised.
ReadTruncated(s) ==
  /\ pc[s] = "reading"
  /\ \E part \in SUBSET Rows(s) :
       /\ Cardinality(part) = IF Cardinality(Rows(s)) > ScanLimit
                              THEN ScanLimit ELSE Cardinality(Rows(s))
       /\ \A e \in part, f \in Rows(s) \ part : Before(e, f)
       /\ unwritten' = [unwritten EXCEPT ![s] = Findings(part, range[s].since, range[s].until)]
  /\ pc' = [pc EXCEPT ![s] = "writing"]
  /\ UNCHANGED <<now, arrived, detections, behind, due, range, merge,
                 heartbeat, scans, faults>>

Evaluate(s) ==
  /\ pc[s] = "reading"
  /\ Cardinality(Rows(s)) <= ScanLimit
  /\ unwritten' = [unwritten EXCEPT ![s] = Findings(Rows(s), range[s].since, range[s].until)]
  /\ pc' = [pc EXCEPT ![s] = "writing"]
  /\ UNCHANGED <<now, arrived, detections, behind, due, range, merge,
                 heartbeat, scans, faults>>

\* "Detection scan exceeds max_events": nothing is written.
RefuseScan(s) ==
  /\ pc[s] = "reading"
  /\ Cardinality(Rows(s)) > ScanLimit
  /\ Abandon(s)
  /\ UNCHANGED <<now, arrived, detections, behind, heartbeat, scans, faults>>

-------------------------------------------------------------------------------
\* WHEN NOT MATCHED: the rows that the table the statement was planned on lacks.
NewRows(m) == {f \in m.rows : \A row \in m.seen : row.identity # f.identity}

\* The next statement takes findings in the order of their triggers, as many as fit.
SendMerge(s) ==
  /\ pc[s] = "writing"
  /\ \E part \in SUBSET unwritten[s] \ {{}} :
       /\ \A f \in part, g \in unwritten[s] \ part : f.last <= g.last
       /\ merge' = [merge EXCEPT ![s] = [rows |-> part, seen |-> detections, attempt |-> 1]]
  /\ pc' = [pc EXCEPT ![s] = "merging"]
  /\ UNCHANGED <<now, arrived, detections, behind, due, range, unwritten,
                 heartbeat, scans, faults>>

\* (variant) The commit does not look at what was committed since the plan.
MayAlwaysCommit(m) == TRUE

\* Iceberg takes the commit when nobody else has committed since the plan, or when there
\* is nothing to commit.
MayCommit(m) == NewRows(m) = {} \/ detections = m.seen

\* (variant) WHEN MATCHED THEN UPDATE: the later finding replaces the stored one.
CommitReplacing(s) ==
  /\ pc[s] = "merging"
  /\ MayCommit(merge[s])
  /\ detections' = merge[s].rows \cup
       {row \in detections : \A f \in merge[s].rows : row.identity # f.identity}
  /\ unwritten' = [unwritten EXCEPT ![s] = @ \ merge[s].rows]
  /\ merge' = [merge EXCEPT ![s] = NoMerge]
  /\ pc' = [pc EXCEPT ![s] = "writing"]
  /\ UNCHANGED <<now, arrived, behind, due, range, heartbeat, scans, faults>>

CommitMerge(s) ==
  /\ pc[s] = "merging"
  /\ MayCommit(merge[s])
  /\ detections' = detections \cup NewRows(merge[s])
  /\ unwritten' = [unwritten EXCEPT ![s] = @ \ merge[s].rows]
  /\ merge' = [merge EXCEPT ![s] = NoMerge]
  /\ pc' = [pc EXCEPT ![s] = "writing"]
  /\ UNCHANGED <<now, arrived, behind, due, range, heartbeat, scans, faults>>

\* A conflict: the statement is executed again, CommitRetries times, then raises.
RetryMerge(s) ==
  /\ pc[s] = "merging"
  /\ ~ MayCommit(merge[s])
  /\ merge[s].attempt <= CommitRetries
  /\ merge' = [merge EXCEPT ![s].seen = detections, ![s].attempt = @ + 1]
  /\ UNCHANGED <<now, arrived, detections, behind, pc, due, range, unwritten,
                 heartbeat, scans, faults>>

ConflictMerge(s) ==
  /\ pc[s] = "merging"
  /\ ~ MayCommit(merge[s])
  /\ merge[s].attempt > CommitRetries
  /\ Abandon(s)
  /\ UNCHANGED <<now, arrived, detections, behind, heartbeat, scans, faults>>

Longer(a, b) == IF a > b THEN a ELSE b

\* run_once returns: the poller leaves its heartbeat and waits, --once ends.
Succeed(s) ==
  /\ pc[s] = "writing"
  /\ unwritten[s] = {}
  /\ pc' = [pc EXCEPT ![s] = IF s = Poller THEN "waiting" ELSE "ended"]
  /\ due' = IF s = Poller THEN now + Interval ELSE due
  /\ range' = [range EXCEPT ![s] = NoScan]
  /\ heartbeat' = IF s = Poller THEN now ELSE heartbeat
  /\ scans' = IF s # Poller THEN scans
              ELSE [any |-> TRUE,
                    first |-> IF scans.any THEN scans.first ELSE range[s].since,
                    last |-> range[s].until,
                    longest |-> IF scans.any
                                THEN Longer(scans.longest, range[s].until - scans.last) ELSE 0]
  /\ UNCHANGED <<now, arrived, detections, behind, unwritten, merge, faults>>

-------------------------------------------------------------------------------
Fault == faults < MaxFaults /\ faults' = faults + 1

\* A statement raises and has done nothing; or a finding is too large, before any MERGE.
Fail(s) ==
  /\ \/ pc[s] \in {"reading", "writing", "merging"}
     \/ Due(s)
  /\ Fault
  /\ Abandon(s)
  /\ UNCHANGED <<now, arrived, detections, behind, heartbeat, scans>>

\* The answer of a MERGE does not come; Trino may still commit it.
LoseAnswer(s) ==
  /\ pc[s] = "merging"
  /\ Fault
  /\ behind' = behind \cup {merge[s]}
  /\ Abandon(s)
  /\ UNCHANGED <<now, arrived, detections, heartbeat, scans>>

\* The process dies, a statement of its may survive it; Docker starts the poller again.
Crash(s) ==
  /\ pc[s] # "ended"
  /\ Fault
  /\ behind' = IF pc[s] = "merging" THEN behind \cup {merge[s]} ELSE behind
  /\ pc' = [pc EXCEPT ![s] = IF s = Poller THEN "waiting" ELSE "ended"]
  /\ due' = IF s = Poller THEN now ELSE due
  /\ range' = [range EXCEPT ![s] = NoScan]
  /\ unwritten' = [unwritten EXCEPT ![s] = {}]
  /\ merge' = [merge EXCEPT ![s] = NoMerge]
  /\ UNCHANGED <<now, arrived, detections, heartbeat, scans>>

\* A statement without a client commits, or fails for good.
LandMerge(m) ==
  /\ behind' = behind \ {m}
  /\ \/ MayCommit(m) /\ detections' = detections \cup NewRows(m)
     \/ UNCHANGED detections
  /\ UNCHANGED <<now, arrived, worker, heartbeat, scans, faults>>

\* SIGTERM: the poller's loop is left once the scan is over.
Stop ==
  /\ pc[Poller] = "waiting"
  /\ pc' = [pc EXCEPT ![Poller] = "ended"]
  /\ UNCHANGED <<now, arrived, detections, behind, due, range, unwritten, merge,
                 heartbeat, scans, faults>>

ScannerStep(s) ==
  \/ RunOnce(s) \/ Evaluate(s) \/ RefuseScan(s)
  \/ SendMerge(s) \/ CommitMerge(s) \/ RetryMerge(s) \/ ConflictMerge(s) \/ Succeed(s)
  \/ Fail(s) \/ LoseAnswer(s) \/ Crash(s)

Next ==
  \/ Tick
  \/ \E batch \in Uploads : Arrive(batch)
  \/ \E s \in Scanners : ScannerStep(s)
  \/ Stop
  \/ \E m \in behind : LandMerge(m)

Spec == Init /\ [][Next]_vars

-------------------------------------------------------------------------------
(***************************************************************************)
(* Properties.                                                             *)
(***************************************************************************)

Row == [identity : [rule : Rules, scope : {e.scope : e \in Logons},
                         subject : {e.user : e \in Logons} \cup {NoSubject}, bucket : Int],
             count : Nat, first : Int, last : Int]
Statement == [rows : SUBSET Row, seen : SUBSET Row, attempt : 0..(CommitRetries + 1)]

\* Every variable has its type; a MERGE is executed CommitRetries + 1 times at most.
TypeOK ==
  /\ now \in 0..MaxNow
  /\ arrived \in [Logons -> 0..NotYet]
  /\ detections \subseteq Row
  /\ behind \subseteq Statement
  /\ pc \in [Scanners -> {"waiting", "reading", "writing", "merging", "ended"}]
  /\ due \in 0..(MaxNow + Interval)
  /\ range \in [Scanners -> [since : Int, until : Int]]
  /\ unwritten \in [Scanners -> SUBSET Row]
  /\ merge \in [Scanners -> Statement]
  /\ heartbeat \in 0..MaxNow \cup {-1}
  /\ scans \in [any : BOOLEAN, first : Int, last : Int, longest : Nat]
  /\ faults \in 0..MaxFaults

\* A rule finds a subject at most once in a bucket, whatever scans overlap, repeat or
\* leave statements behind ("at most one finding per rule and subject in each bucket").
OneFindingPerBucket ==
  \A f, g \in detections : f.identity = g.identity => f = g

\* "Stored findings retain the first matching evidence; later scans do not update them."
FirstEvidenceStands == [][detections \subseteq detections']_detections

\* The heartbeat, and with it the container's health, never runs ahead of the table: when a
\* scan succeeds, all that the logons present at its start show is in the table.
HealthFollowsFindings ==
  [][heartbeat' # heartbeat =>
       \A f \in Findings(Present(range[Poller].until - 1), range[Poller].since, range[Poller].until) :
         \E row \in detections : row.identity = f.identity]_heartbeat

\* "Late arrivals within the lookback are reconsidered", with the delay the polls add: a
\* trigger whose evidence is complete by Lookback minus the longest gap between two
\* successful scans after it is found by the first success that ends after both.
MissedOnlyInOutage ==
  \A rule \in Rules, e \in Logons, complete \in 0..MaxNow :
    /\ scans.longest <= Lookback
    /\ complete <= e.time + Lookback - scans.longest
    /\ scans.any /\ scans.first <= e.time
    /\ e.time < scans.last /\ complete < scans.last
    /\ Fires(rule, Present(complete), e) /\ e \in Present(complete)
    => \E row \in detections : row.identity = Identity(rule, e)
===============================================================================
