------------------------------ MODULE KafkaWorker ------------------------------
(***************************************************************************)
(* The stream workers (src/ulpf/streaming/): each polls a batch from the   *)
(* partitions it owns, ingests it and retries until storage takes it,      *)
(* publishes the invalid records to the dead-letter topic, and only then   *)
(* commits its offsets.  Auto-commit is off, auto_offset_reset is          *)
(* "earliest", and the container restarts a worker whose main() raised.    *)
(*                                                                         *)
(* Storage is what EventStore promises: idempotent, possibly partial when  *)
(* it fails.  The consumer group is Kafka's: a worker that is busy longer  *)
(* than max_poll_interval_ms is evicted, goes on unaware, and finds out    *)
(* when it commits.                                                        *)
(***************************************************************************)
EXTENDS Integers, FiniteSets

CONSTANTS
  Workers,         \* worker processes of the consumer group
  Partitions,      \* partitions of raw-app-logs
  LogEnd,          \* LogEnd[p]: number of records of partition p
  InvalidRecords,  \* records whose event has parse_success FALSE
  RefusedRecords,  \* records that ingest_events always refuses (event too large)
  MaxPollRecords,  \* KAFKA_BATCH_SIZE
  MaxFaults        \* bound: crashes, stops, evictions, failed publishes and commits

Records == UNION {{p} \X (0..(LogEnd[p] - 1)) : p \in Partitions}

ASSUME LogAssumption ==
  /\ LogEnd \in [Partitions -> Nat]
  /\ InvalidRecords \subseteq Records
  /\ RefusedRecords \subseteq Records
ASSUME BoundsAssumption == MaxPollRecords \in Nat \ {0} /\ MaxFaults \in Nat

VARIABLES
  committed,    \* committed[p]: the group's committed offset
  members,      \* workers of the current generation
  owner,        \* the assignment of the current generation
  stored,       \* records whose events are in the lakehouse
  deadLetters,  \* deadLetters[r]: copies of r in the dead-letter topic
  pc,           \* where main() of each worker stands
  position,     \* position[w][p]: next offset the consumer of w fetches
  batch,        \* the records w polled and has not committed
  stopped,      \* the stop event, set by SIGTERM
  faults        \* faults so far, for the bound MaxFaults

group == <<committed, members, owner>>
topics == <<stored, deadLetters>>
vars == <<group, topics, pc, position, batch, stopped, faults>>

Owned(w) == IF w \in members THEN {p \in Partitions : owner[p] = w} ELSE {}
Invalid(S) == S \cap InvalidRecords

Init ==
  /\ committed = [p \in Partitions |-> 0]
  /\ members = {}
  /\ owner \in [Partitions -> Workers]
  /\ stored = {}
  /\ deadLetters = [r \in Records |-> 0]
  /\ pc = [w \in Workers |-> "starting"]
  /\ position = [w \in Workers |-> [p \in Partitions |-> 0]]
  /\ batch = [w \in Workers |-> {}]
  /\ stopped = [w \in Workers |-> FALSE]
  /\ faults = 0

Goto(w, step) == pc' = [pc EXCEPT ![w] = step]

Fault == faults < MaxFaults /\ faults' = faults + 1

\* main() ends: the finally block closes the consumer, which leaves the group.
Exit(w) ==
  /\ Goto(w, "down")
  /\ members' = members \ {w}
  /\ batch' = [batch EXCEPT ![w] = {}]

Deliver(S) == deadLetters' = [r \in Records |-> deadLetters[r] + (IF r \in S THEN 1 ELSE 0)]

-------------------------------------------------------------------------------
\* initialize_with_retry: ensure_lakehouse has succeeded, or SIGTERM came first.
Initialize(w) ==
  /\ pc[w] = "starting"
  /\ Goto(w, IF stopped[w] THEN "down" ELSE "polling")
  /\ UNCHANGED <<group, topics, position, batch, stopped, faults>>

\* while not stopped.is_set(): poll returns at most MaxPollRecords records, in offset
\* order within a partition.
Poll(w, upto) ==
  /\ pc[w] = "polling"
  /\ ~ stopped[w]
  /\ \A p \in Partitions : /\ upto[p] \in position[w][p]..LogEnd[p]
                           /\ p \notin Owned(w) => upto[p] = position[w][p]
  /\ LET polled == {r \in Records : position[w][r[1]] <= r[2] /\ r[2] < upto[r[1]]}
     IN  /\ polled # {}
         /\ Cardinality(polled) <= MaxPollRecords
         /\ batch' = [batch EXCEPT ![w] = polled]
  /\ position' = [position EXCEPT ![w] = upto]
  /\ Goto(w, "ingesting")
  /\ UNCHANGED <<group, topics, stopped, faults>>

\* ingest_events raised after it stored part of the batch; the loop tries again.
IngestFails(w, part) ==
  /\ pc[w] = "ingesting"
  /\ part \subseteq batch[w] \ RefusedRecords
  /\ stored' = stored \cup part
  /\ UNCHANGED <<group, deadLetters, pc, position, batch, stopped, faults>>

\* (variant) Any answer of ingest_with_retry lets the worker go on.
IngestGoesOn(w) ==
  /\ pc[w] = "ingesting"
  /\ batch[w] \cap RefusedRecords = {}
  /\ \E part \in SUBSET batch[w] : stored' = stored \cup part
  /\ Goto(w, "publishing")
  /\ UNCHANGED <<group, deadLetters, position, batch, stopped, faults>>

IngestSucceeds(w) ==
  /\ pc[w] = "ingesting"
  /\ batch[w] \cap RefusedRecords = {}
  /\ stored' = stored \cup batch[w]
  /\ Goto(w, "publishing")
  /\ UNCHANGED <<group, deadLetters, position, batch, stopped, faults>>

\* stopped.wait(delay) returned TRUE: result is None, the loop breaks without a commit.
GiveUp(w) ==
  /\ pc[w] = "ingesting"
  /\ stopped[w]
  /\ Exit(w)
  /\ UNCHANGED <<committed, owner, topics, position, stopped, faults>>

\* publish_dead_letters: every future was acknowledged.
Publish(w) ==
  /\ pc[w] = "publishing"
  /\ Deliver(Invalid(batch[w]))
  /\ Goto(w, "committing")
  /\ UNCHANGED <<group, stored, position, batch, stopped, faults>>

\* A future failed or timed out after some of the records were delivered: main() raises.
PublishFails(w, delivered) ==
  /\ pc[w] = "publishing"
  /\ Invalid(batch[w]) # {}
  /\ delivered \subseteq Invalid(batch[w])
  /\ Fault
  /\ Deliver(delivered)
  /\ Exit(w)
  /\ UNCHANGED <<committed, owner, stored, position, stopped>>

\* The broker takes the positions of the assigned partitions.
CommitPositions(w) ==
  committed' = [p \in Partitions |-> IF p \in Owned(w) THEN position[w][p] ELSE committed[p]]

\* (variant) The broker does not ask which generation a commit comes from.
CommitUnfenced(w) ==
  /\ pc[w] = "committing"
  /\ committed' = [p \in Partitions |-> IF owner[p] = w \/ \E r \in batch[w] : r[1] = p
                                        THEN position[w][p] ELSE committed[p]]
  /\ batch' = [batch EXCEPT ![w] = {}]
  /\ Goto(w, "polling")
  /\ UNCHANGED <<members, owner, topics, position, stopped, faults>>

\* (variant) The status COMPLETED_WITH_QUARANTINE is not in the set that is committed.
CommitCleanOnly(w) ==
  /\ pc[w] = "committing"
  /\ w \in members
  /\ IF Invalid(batch[w]) = {} THEN CommitPositions(w) ELSE UNCHANGED committed
  /\ batch' = [batch EXCEPT ![w] = {}]
  /\ Goto(w, "polling")
  /\ UNCHANGED <<members, owner, topics, position, stopped, faults>>

Commit(w) ==
  /\ pc[w] = "committing"
  /\ w \in members
  /\ CommitPositions(w)
  /\ batch' = [batch EXCEPT ![w] = {}]
  /\ Goto(w, "polling")
  /\ UNCHANGED <<members, owner, topics, position, stopped, faults>>

\* The offsets are committed and the answer is lost: commit() raises.
CommitUnanswered(w) ==
  /\ pc[w] = "committing"
  /\ w \in members
  /\ Fault
  /\ CommitPositions(w)
  /\ Exit(w)
  /\ UNCHANGED <<owner, topics, position, stopped>>

\* CommitFailedError: the worker is no longer a member.
CommitRefused(w) ==
  /\ pc[w] = "committing"
  /\ w \notin members
  /\ Exit(w)
  /\ UNCHANGED <<committed, owner, topics, position, stopped, faults>>

\* The loop condition is false at the next turn.
Leave(w) ==
  /\ pc[w] = "polling"
  /\ stopped[w]
  /\ Exit(w)
  /\ UNCHANGED <<committed, owner, topics, position, stopped, faults>>

-------------------------------------------------------------------------------
(***************************************************************************)
(* Signals, faults, and the container's restart policy.                    *)
(***************************************************************************)
Stop(w) ==
  /\ pc[w] # "down"
  /\ ~ stopped[w]
  /\ Fault
  /\ stopped' = [stopped EXCEPT ![w] = TRUE]
  /\ UNCHANGED <<group, topics, pc, position, batch>>

Crash(w) ==
  /\ pc[w] # "down"
  /\ Fault
  /\ Exit(w)
  /\ UNCHANGED <<committed, owner, topics, position, stopped>>

Restart(w) ==
  /\ pc[w] = "down"
  /\ Goto(w, "starting")
  /\ stopped' = [stopped EXCEPT ![w] = FALSE]
  /\ UNCHANGED <<group, topics, position, batch, faults>>

Busy(w) == pc[w] \in {"ingesting", "publishing", "committing"}

\* max_poll_interval_ms passed between two polls.
Evict(w) ==
  /\ w \in members
  /\ Busy(w)
  /\ Fault
  /\ members' = members \ {w}
  /\ UNCHANGED <<committed, owner, topics, pc, position, batch, stopped>>

(***************************************************************************)
(* The coordinator waits for the members at work and gives every partition *)
(* to a worker in poll(), whose consumer starts at the committed offset.   *)
(***************************************************************************)
Rebalance(assignment) ==
  LET polling == {w \in Workers : pc[w] = "polling"}
  IN  /\ \A w \in members : ~ Busy(w)
      /\ polling # members
      /\ assignment \in [Partitions -> polling]
      /\ members' = polling
      /\ owner' = assignment
      /\ position' = [w \in Workers |-> IF w \in polling THEN committed ELSE position[w]]
      /\ UNCHANGED <<committed, topics, pc, batch, stopped, faults>>

-------------------------------------------------------------------------------
Offsets == [Partitions -> UNION {0..LogEnd[p] : p \in Partitions}]

Step(w) ==
  \/ Initialize(w)
  \/ \E upto \in Offsets : Poll(w, upto)
  \/ IngestSucceeds(w)
  \/ GiveUp(w)
  \/ Publish(w)
  \/ Commit(w)
  \/ CommitRefused(w)
  \/ Leave(w)
  \/ Restart(w)

Disturbance(w) ==
  \/ \E part \in SUBSET batch[w] : IngestFails(w, part)
  \/ \E delivered \in SUBSET batch[w] : PublishFails(w, delivered)
  \/ CommitUnanswered(w)
  \/ Stop(w)
  \/ Crash(w)
  \/ Evict(w)

Next ==
  \/ \E w \in Workers : Step(w) \/ Disturbance(w)
  \/ \E assignment \in [Partitions -> Workers] : Rebalance(assignment)

Spec == Init /\ [][Next]_vars

\* A worker keeps running, storage takes a batch it does not refuse after finitely many
\* failures, Docker restarts a stopped worker, the coordinator ends a rebalance.
FairSpec ==
  /\ Spec
  /\ \A w \in Workers : WF_vars(Step(w))
  /\ WF_vars(\E assignment \in [Partitions -> Workers] : Rebalance(assignment))

-------------------------------------------------------------------------------
(***************************************************************************)
(* Properties.                                                             *)
(***************************************************************************)

\* Every variable has its type, and a worker holds no more than one batch of records.
TypeOK ==
  /\ committed \in [Partitions -> Nat]
  /\ members \subseteq Workers
  /\ owner \in [Partitions -> Workers]
  /\ stored \subseteq Records
  /\ deadLetters \in [Records -> Nat]
  /\ pc \in [Workers -> {"starting", "polling", "ingesting", "publishing",
                         "committing", "down"}]
  /\ position \in [Workers -> [Partitions -> Nat]]
  /\ batch \in [Workers -> SUBSET Records]
  /\ \A w \in Workers : Cardinality(batch[w]) <= MaxPollRecords
  /\ stopped \in [Workers -> BOOLEAN]
  /\ faults \in 0..MaxFaults

\* "Kafka offsets are committed only after the Iceberg writes and dead-letter flush
\* succeed" (docs/operations.md): every record below a committed offset is stored and,
\* when it is invalid, in the dead-letter topic.
CommittedIsHandled ==
  \A r \in Records :
    r[2] < committed[r[1]] =>
      /\ r \in stored
      /\ r \in InvalidRecords => deadLetters[r] >= 1

\* No worker, evicted or restarted, moves a committed offset back: a commit never makes
\* the group replay what it had finished.
OffsetsNeverRegress ==
  [][\A p \in Partitions : committed'[p] >= committed[p]]_committed

\* Every record of every partition is committed in the end.
EverythingCommitted == <>(\A p \in Partitions : committed[p] = LogEnd[p])

\* "Invalid records also go to ulpf-dead-letter" (README.md): each of them, in the end.
InvalidRecordsAreDeadLettered == \A r \in InvalidRecords : <>(deadLetters[r] >= 1)
===============================================================================
