------------------------------ MODULE StreamIngest ------------------------------
(***************************************************************************)
(* The stream workers on Trino: KafkaWorker with TrinoIngest in place of a  *)
(* storage that keeps its promise.  A batch becomes a call of ingest_events *)
(* per attempt, the call may be under way when its worker is evicted or     *)
(* dies, its statements may commit after another worker has taken the same  *)
(* records, and a replay finds rows that earlier attempts left.             *)
(*                                                                         *)
(* The event of a record is [id, ok]; its id is the record itself, since    *)
(* event_id is made of topic, partition, offset and payload.                *)
(***************************************************************************)
EXTENDS Integers, Sequences, FiniteSets

CONSTANTS
  Workers, Partitions, LogEnd, InvalidRecords, MaxPollRecords,   \* of KafkaWorker
  MaxDisturbances,                                               \* its MaxFaults
  InsertBatchSize, CommitRetries, MaxRuns, MaxFaults             \* of TrinoIngest

ASSUME WorkersAssumption == IsFiniteSet(Workers)
ASSUME LogAssumption ==
  /\ IsFiniteSet(Partitions)
  /\ LogEnd \in [Partitions -> Nat]
  /\ InvalidRecords \subseteq UNION {{p} \X (0..(LogEnd[p] - 1)) : p \in Partitions}
ASSUME BoundsAssumption ==
  /\ MaxPollRecords \in Nat \ {0} /\ InsertBatchSize \in Nat \ {0}
  /\ CommitRetries \in Nat
  /\ MaxRuns \in Nat /\ MaxFaults \in Nat /\ MaxDisturbances \in Nat

VARIABLES
  committed, members, owner, deadLetters, position, batch, stopped,   \* of KafkaWorker
  main,           \* its pc
  disturbances,   \* its faults
  table, version, runs, lostMerges, lostRunWrites, pc, run, todo, sent, plan, attempt,
  tally, result, nextRun, batchOf, returned, oversized, faults        \* of TrinoIngest

stream == <<committed, members, owner, deadLetters, position, batch, stopped, main,
            disturbances>>
lake == <<table, version, runs, lostMerges, lostRunWrites, pc, run, todo, sent, plan,
          attempt, tally, result, nextRun, batchOf, returned, oversized, faults>>

\* parse_record
EventOf(r) == [id |-> r, ok |-> r \notin InvalidRecords]

\* What ingest_events has acknowledged: the ids of the batches that it returned results for.
Ids(events) == {events[i].id : i \in DOMAIN events}
Acknowledged == UNION {Ids(batchOf[res.run]) : res \in returned}

Worker == INSTANCE KafkaWorker
  WITH pc <- main, faults <- disturbances, MaxFaults <- MaxDisturbances,
       stored <- Acknowledged, RefusedRecords <- {}

Events == {EventOf(r) : r \in Worker!Records}
EveryEvent == [t \in {"raw_events", "application_logs", "quarantine_events"} |-> Events]

\* The inputs are the batches of the workers.
Lake == INSTANCE TrinoIngest
  WITH Writers <- Workers, Inputs <- {}, BlankId <- <<>>, Fits <- EveryEvent,
       Mergeable <- EveryEvent

\* [record for partition in polled.values() for record in partition]: the partitions in
\* any order, the records of each by offset.
Orders(S) ==
  {s \in [1..Cardinality(S) -> S] :
     /\ \A r \in S : \E i \in DOMAIN s : s[i] = r
     /\ \A i, j \in DOMAIN s : i < j /\ s[i][1] = s[j][1] => s[i][2] < s[j][2]}

Init == Lake!Init /\ Worker!Init

-------------------------------------------------------------------------------
\* ingest_with_retry: an attempt is one call of ingest_events.
Attempt(w) ==
  /\ main[w] = "ingesting" /\ ~ stopped[w]
  /\ \E s \in Orders(batch[w]) : Lake!IngestEvents(w, [i \in DOMAIN s |-> EventOf(s[i])])
  /\ UNCHANGED stream

\* (variant) An exception of ingest_events leaves the retry loop like a result.
CallAcceptsFailure(w) ==
  /\ Lake!CallStep(w)
  /\ UNCHANGED returned
  /\ main' = [main EXCEPT ![w] = IF pc'[w] = "idle" THEN "publishing" ELSE @]
  /\ UNCHANGED <<committed, members, owner, deadLetters, position, batch, stopped, disturbances>>

\* Inside the call; what it raises is caught, and the loop begins the next attempt.
Call(w) ==
  /\ Lake!CallStep(w)
  /\ UNCHANGED <<stream, returned>>

LoseAnswer(w) == Lake!LoseAnswer(w) /\ UNCHANGED stream

\* The call returns a result.
Return(w) ==
  /\ Lake!FinishRun(w)
  /\ main' = [main EXCEPT ![w] = "publishing"]
  /\ UNCHANGED <<committed, members, owner, deadLetters, position, batch, stopped, disturbances>>

\* stopped is looked at between two attempts.
GiveUp(w) == pc[w] = "idle" /\ UNCHANGED lake /\ Worker!GiveUp(w)

\* (variant) the records to publish are those that the run counts as quarantined
PublishWhenCounted(w) ==
  /\ UNCHANGED lake
  /\ IF result[w] = "COMPLETED_WITH_QUARANTINE" THEN Worker!Publish(w)
     ELSE /\ main[w] = "publishing"
          /\ main' = [main EXCEPT ![w] = "committing"]
          /\ UNCHANGED <<committed, members, owner, deadLetters, position, batch, stopped,
                         disturbances>>
Publish(w) == UNCHANGED lake /\ Worker!Publish(w)

PublishFails(w) ==
  \E delivered \in SUBSET batch[w] : UNCHANGED lake /\ Worker!PublishFails(w, delivered)

\* Outside of ingestion the worker is that of KafkaWorker.
Poll(w) == \E upto \in Worker!Offsets : UNCHANGED lake /\ Worker!Poll(w, upto)
Initialize(w) == UNCHANGED lake /\ Worker!Initialize(w)
Commit(w) == UNCHANGED lake /\ (Worker!Commit(w) \/ Worker!CommitUnanswered(w))
CommitRefused(w) == UNCHANGED lake /\ Worker!CommitRefused(w)
Leave(w) == UNCHANGED lake /\ Worker!Leave(w)
Restart(w) == UNCHANGED lake /\ Worker!Restart(w)
Stop(w) == UNCHANGED lake /\ Worker!Stop(w)
Evict(w) == UNCHANGED lake /\ Worker!Evict(w)
Rebalance ==
  \E assignment \in [Partitions -> Workers] : UNCHANGED lake /\ Worker!Rebalance(assignment)

\* The process dies, inside a call or outside; its statement goes on in Trino.
Crash(w) ==
  /\ IF pc[w] = "idle" THEN UNCHANGED lake ELSE Lake!Crash(w)
  /\ Worker!Crash(w)

\* Statements left behind commit.
Land ==
  /\ \/ \E m \in lostMerges : Lake!LandMerge(m)
     \/ \E x \in lostRunWrites : Lake!LandRunWrite(x)
  /\ UNCHANGED stream

Step(w) ==
  \/ Initialize(w) \/ Poll(w)
  \/ Attempt(w) \/ Call(w) \/ LoseAnswer(w) \/ Return(w) \/ GiveUp(w)
  \/ Publish(w) \/ PublishFails(w) \/ Commit(w) \/ CommitRefused(w)
  \/ Leave(w) \/ Restart(w) \/ Stop(w) \/ Crash(w) \/ Evict(w)

Next == Land \/ Rebalance \/ \E w \in Workers : Step(w)

Spec == Init /\ [][Next]_<<stream, lake>>

-------------------------------------------------------------------------------
Verdict(r) == IF r \in InvalidRecords THEN "quarantine_events" ELSE "application_logs"
Rows(t, r) == {row \in table[t] : row.id = r}

\* From the topic to the tables: a record below a committed offset has one row of its
\* original and one in the table of its verdict, and is in the dead-letter topic when it
\* is invalid, however often it was ingested, by whom, and whatever committed late.
CommittedIsInTables ==
  \A r \in Worker!Records :
    r[2] < committed[r[1]] =>
      /\ Cardinality(Rows("raw_events", r)) = 1
      /\ Cardinality(Rows(Verdict(r), r)) = 1
      /\ r \in InvalidRecords => deadLetters[r] >= 1

\* The workers on Trino are the workers of KafkaWorker: what is shown there, that nothing
\* committed is lost and nothing finished is replayed, holds here, with "stored" for what
\* ingest_events has acknowledged.
ImplementsWorker == Worker!Spec
===============================================================================
