--------------------------- MODULE StreamIngestProofs ---------------------------
(***************************************************************************)
(* StreamIngest implements KafkaWorker, and what is committed is in the    *)
(* tables, for any number of workers, partitions, records, batches, runs   *)
(* and faults.  The second follows from the first: a committed record was  *)
(* acknowledged (KafkaWorkerProofs), an acknowledged run is completed and  *)
(* backed by the tables, and no table has two rows of one event            *)
(* (TrinoIngestProofs).                                                       *)
(***************************************************************************)
EXTENDS StreamIngest, FiniteSetTheorems, FunctionTheorems, WellFoundedInduction, TLAPS

\* The variables of the writers are functions on the workers, and runs are numbered.
Shapes ==
  /\ DOMAIN main = Workers /\ DOMAIN batch = Workers
  /\ DOMAIN pc = Workers /\ DOMAIN run = Workers /\ DOMAIN sent = Workers
  /\ DOMAIN batchOf = 1..MaxRuns
  /\ nextRun \in Nat \ {0}

\* A statement is under way only in the middle of a call.
SentInCall == \A w \in Workers : sent[w] # {} => pc[w] \in Lake!Tables

\* A call of ingest_events belongs to a worker that waits for it, and stores the batch
\* that the worker holds.
CallsServeBatches ==
  \A w \in Workers :
    pc[w] # "idle" => /\ main[w] = "ingesting"
                      /\ run[w] \in 1..(nextRun - 1)
                      /\ Ids(batchOf[run[w]]) = batch[w]

ReturnedRunsArePast == \A res \in returned : res.run \in 1..(nextRun - 1)

StreamInv == Shapes /\ SentInCall /\ CallsServeBatches /\ ReturnedRunsArePast

\* No call is under way at first.
LEMMA InitStream == Init => StreamInv
BY BoundsAssumption
DEF Init, Lake!Init, Worker!Init, StreamInv, Shapes, SentInCall, CallsServeBatches,
    ReturnedRunsArePast, Lake!Runs

\* The ids of the events made of a batch are the records of the batch.
LEMMA OrderKeepsRecords ==
  ASSUME NEW S, NEW s \in Orders(S)
  PROVE  Ids([i \in DOMAIN s |-> EventOf(s[i])]) = S
BY DEF Orders, Ids, EventOf

\* Results of past runs are not touched by a call that begins.
LEMMA AcknowledgedStays ==
  ASSUME StreamInv, UNCHANGED returned,
         \A r \in 1..(nextRun - 1) : batchOf'[r] = batchOf[r]
  PROVE  Acknowledged' = Acknowledged
<1>1. \A res \in returned : Ids(batchOf'[res.run]) = Ids(batchOf[res.run])
  BY DEF StreamInv, ReturnedRunsArePast
<1>2. {Ids(batchOf'[res.run]) : res \in returned} = {Ids(batchOf[res.run]) : res \in returned}
  BY <1>1
<1>3. Acknowledged' = UNION {Ids(batchOf'[res.run]) : res \in returned}
  BY DEF Acknowledged
<1>4. QED
  BY <1>2, <1>3 DEF Acknowledged

----------------------------------------------------------------------------
\* What a step of the call of w leaves alone.
CallFrame(w) ==
  /\ pc[w] # "idle"
  /\ UNCHANGED <<run, batchOf, nextRun>>
  /\ DOMAIN pc' = Workers /\ DOMAIN sent' = Workers
  /\ \A v \in Workers \ {w} : pc'[v] = pc[v] /\ sent'[v] = sent[v]
  /\ sent'[w] # {} => pc'[w] \in Lake!Tables

\* Each step of a call keeps to CallFrame.
LEMMA CallStepFrame ==
  ASSUME StreamInv, NEW w \in Workers, Lake!CallStep(w)
  PROVE  CallFrame(w)
<1> USE DEF StreamInv, Shapes, SentInCall, CallFrame, Lake!Goto, Lake!Tables,
           Lake!RunWriteSteps, Lake!history
<1>1. CASE Lake!InsertRun(w)
  BY <1>1 DEF Lake!InsertRun
<1>2. CASE Lake!AssertEventsFit(w)
  BY <1>2 DEF Lake!AssertEventsFit, Lake!RaiseTooLarge
<1>3. ASSUME NEW S \in SUBSET todo[w], Lake!SendBatch(w, S)
      PROVE  CallFrame(w)
  BY <1>3 DEF Lake!SendBatch
<1>4. CASE Lake!RejectBatch(w)
  BY <1>4 DEF Lake!RejectBatch, Lake!RaiseTooLarge
<1>5. CASE Lake!NextTable(w)
  BY <1>5 DEF Lake!NextTable
<1>6. CASE Lake!PlanMerge(w)
  BY <1>6 DEF Lake!PlanMerge
<1>7. CASE Lake!CommitMerge(w)
  BY <1>7 DEF Lake!CommitMerge
<1>8. CASE Lake!ConflictMerge(w)
  BY <1>8 DEF Lake!ConflictMerge
<1>9. CASE Lake!CountCommitted(w) \/ Lake!CountQuarantined(w) \/ Lake!ReadSnapshot(w)
  BY <1>9 DEF Lake!CountCommitted, Lake!CountQuarantined, Lake!ReadSnapshot
<1>10. CASE Lake!FinishRun(w)
  BY <1>10 DEF Lake!FinishRun, Lake!Return
<1>11. CASE Lake!RecordFailure(w)
  BY <1>11 DEF Lake!RecordFailure, Lake!Return
<1>12. CASE Lake!ConflictRunWrite(w)
  BY <1>12 DEF Lake!ConflictRunWrite, Lake!RaiseFrom, Lake!Return
<1>13. QED
  BY <1>1, <1>2, <1>3, <1>4, <1>5, <1>6, <1>7, <1>8, <1>9, <1>10, <1>11, <1>12 DEF Lake!CallStep

\* So does a lost answer.
LEMMA LoseAnswerFrame ==
  ASSUME StreamInv, NEW w \in Workers, Lake!LoseAnswer(w)
  PROVE  CallFrame(w) /\ UNCHANGED returned
BY DEF StreamInv, Shapes, SentInCall, CallFrame, Lake!Goto, Lake!Tables, Lake!RunWriteSteps,
       Lake!LoseAnswer, Lake!RaiseFrom, Lake!Return, Lake!history

\* A step of a call keeps the invariant while its worker waits, or when the call ends.
LEMMA FrameKeepsInv ==
  ASSUME StreamInv, NEW w \in Workers, CallFrame(w), ReturnedRunsArePast',
         DOMAIN main' = Workers, UNCHANGED batch,
         \A v \in Workers : pc'[v] # "idle" => main'[v] = main[v]
  PROVE  StreamInv'
<1>1. Shapes' /\ SentInCall'
  BY DEF StreamInv, Shapes, SentInCall, CallFrame
<1>2. CallsServeBatches'
  BY DEF StreamInv, CallsServeBatches, CallFrame, Ids
<1>3. QED
  BY <1>1, <1>2 DEF StreamInv

----------------------------------------------------------------------------
\* A step outside of ingestion keeps the invariant when it leaves the workers alone that
\* are inside a call.
LEMMA OutsideKeepsInv ==
  ASSUME StreamInv, UNCHANGED lake, DOMAIN main' = Workers, DOMAIN batch' = Workers,
         \A v \in Workers : pc[v] # "idle" => main'[v] = main[v] /\ batch'[v] = batch[v]
  PROVE  StreamInv'
BY DEF StreamInv, Shapes, SentInCall, CallsServeBatches, ReturnedRunsArePast, lake, Ids

Outside(w) ==
  \/ Initialize(w) \/ Poll(w) \/ GiveUp(w) \/ Publish(w) \/ PublishFails(w)
  \/ Commit(w) \/ CommitRefused(w) \/ Leave(w) \/ Restart(w) \/ Stop(w) \/ Evict(w)

\* Outside of ingestion a step is that of KafkaWorker.
LEMMA OutsideStep ==
  ASSUME StreamInv, NEW w \in Workers, Outside(w)
  PROVE  StreamInv' /\ Worker!Next
<1>1. pc[w] # "idle" => main[w] = "ingesting"
  BY DEF StreamInv, CallsServeBatches
<1>2. UNCHANGED lake
  BY DEF Outside, Initialize, Poll, GiveUp, Publish, PublishFails, Commit, CommitRefused,
         Leave, Restart, Stop, Evict
<1>3. /\ DOMAIN main' = Workers /\ DOMAIN batch' = Workers
      /\ \A v \in Workers : pc[v] # "idle" => main'[v] = main[v] /\ batch'[v] = batch[v]
  <2> USE <1>1 DEF StreamInv, Shapes, Worker!Goto, Worker!Exit
  <2>1. CASE Initialize(w)
    BY <2>1 DEF Initialize, Worker!Initialize
  <2>2. CASE Poll(w)
    BY <2>2 DEF Poll, Worker!Poll
  <2>3. CASE GiveUp(w)
    BY <2>3 DEF GiveUp, Worker!GiveUp
  <2>4. CASE Publish(w) \/ PublishFails(w)
    BY <2>4 DEF Publish, PublishFails, Worker!Publish, Worker!PublishFails
  <2>5. CASE Commit(w) \/ CommitRefused(w)
    BY <2>5 DEF Commit, CommitRefused, Worker!Commit, Worker!CommitUnanswered, Worker!CommitRefused
  <2>6. CASE Leave(w) \/ Restart(w)
    BY <2>6 DEF Leave, Restart, Worker!Leave, Worker!Restart
  <2>7. CASE Stop(w) \/ Evict(w)
    BY <2>7 DEF Stop, Evict, Worker!Stop, Worker!Evict
  <2>8. QED
    BY <2>1, <2>2, <2>3, <2>4, <2>5, <2>6, <2>7 DEF Outside
<1>4. Worker!Step(w) \/ Worker!Disturbance(w)
  BY DEF Outside, Initialize, Poll, GiveUp, Publish, PublishFails, Commit, CommitRefused,
         Leave, Restart, Stop, Evict, Worker!Step, Worker!Disturbance
<1>5. QED
  BY <1>2, <1>3, <1>4, OutsideKeepsInv DEF Worker!Next

\* A rebalance is that of KafkaWorker.
LEMMA RebalanceStep ==
  ASSUME StreamInv, Rebalance
  PROVE  StreamInv' /\ Worker!Next
<1>1. UNCHANGED lake /\ UNCHANGED <<main, batch>>
  BY DEF Rebalance, Worker!Rebalance
<1>2. Worker!Next
  BY DEF Rebalance, Worker!Next
<1>3. QED
  BY <1>1, <1>2, OutsideKeepsInv DEF StreamInv, Shapes

\* A crash takes the call of the worker with it.
LEMMA CrashStep ==
  ASSUME StreamInv, NEW w \in Workers, Crash(w)
  PROVE  StreamInv' /\ Worker!Next
<1>1. Worker!Next
  BY DEF Crash, Worker!Next, Worker!Disturbance
<1>2. /\ main' = [main EXCEPT ![w] = "down"]
      /\ batch' = [batch EXCEPT ![w] = {}]
  BY DEF Crash, Worker!Crash, Worker!Exit, Worker!Goto
<1>3. CASE pc[w] = "idle"
  <2>1. UNCHANGED lake
    BY <1>3 DEF Crash
  <2>2. QED
    BY <1>1, <1>2, <1>3, <2>1, OutsideKeepsInv DEF StreamInv, Shapes
<1>4. CASE pc[w] # "idle"
  <2>1. /\ pc' = [pc EXCEPT ![w] = "idle"] /\ sent' = [sent EXCEPT ![w] = {}]
        /\ UNCHANGED <<run, nextRun, batchOf, returned>>
    BY <1>4 DEF Crash, Lake!Crash, Lake!Goto, Lake!history
  <2>2. Shapes' /\ SentInCall' /\ ReturnedRunsArePast'
    BY <1>2, <2>1 DEF StreamInv, Shapes, SentInCall, ReturnedRunsArePast
  <2>3. CallsServeBatches'
    BY <1>2, <2>1 DEF StreamInv, Shapes, CallsServeBatches, Ids
  <2>4. QED
    BY <1>1, <2>2, <2>3 DEF StreamInv
<1>5. QED
  BY <1>3, <1>4

----------------------------------------------------------------------------
\* What happens inside ingestion is no step of the worker, but for the result.
LEMMA InsideStutters ==
  ASSUME UNCHANGED stream, Acknowledged' = Acknowledged
  PROVE  UNCHANGED Worker!vars
BY DEF stream, Worker!vars, Worker!group, Worker!topics

\* A call begins with the batch that its worker holds, and acknowledges nothing yet.
LEMMA AttemptStep ==
  ASSUME StreamInv, NEW w \in Workers, Attempt(w)
  PROVE  StreamInv' /\ UNCHANGED Worker!vars
<1>1. PICK s \in Orders(batch[w]) : Lake!IngestEvents(w, [i \in DOMAIN s |-> EventOf(s[i])])
  BY DEF Attempt
<1> DEFINE input == [i \in DOMAIN s |-> EventOf(s[i])]
<1>2. Ids(input) = batch[w]
  BY OrderKeepsRecords
<1>3. /\ UNCHANGED stream /\ main[w] = "ingesting"
      /\ nextRun \in 1..MaxRuns /\ nextRun' = nextRun + 1
      /\ batchOf' = [batchOf EXCEPT ![nextRun] = input]
      /\ run' = [run EXCEPT ![w] = nextRun]
      /\ pc' = [pc EXCEPT ![w] = "insert_run"] /\ pc[w] = "idle"
      /\ UNCHANGED <<sent, returned>>
  <2>1. nextRun \in 1..MaxRuns
    BY <1>1, BoundsAssumption DEF Lake!IngestEvents, StreamInv, Shapes
  <2>2. QED
    BY <1>1, <2>1 DEF Attempt, Lake!IngestEvents, Lake!Goto, Lake!history
<1> HIDE DEF input
<1>4. \A r \in 1..(nextRun - 1) : batchOf'[r] = batchOf[r]
  BY <1>3, BoundsAssumption DEF StreamInv, Shapes
<1>5. Acknowledged' = Acknowledged
  BY <1>3, <1>4, AcknowledgedStays
<1>6. Shapes' /\ ReturnedRunsArePast'
  BY <1>3 DEF StreamInv, Shapes, ReturnedRunsArePast, stream
<1>7. SentInCall'
  BY <1>3 DEF StreamInv, Shapes, SentInCall, Lake!Tables
<1>8. CallsServeBatches'
  <2> SUFFICES ASSUME NEW v \in Workers, pc'[v] # "idle"
               PROVE  /\ main'[v] = "ingesting" /\ run'[v] \in 1..(nextRun' - 1)
                      /\ Ids(batchOf'[run'[v]]) = batch'[v]
    BY DEF CallsServeBatches
  <2>1. CASE v = w
    <3>1. run'[w] = nextRun /\ batchOf'[nextRun] = input
      BY <1>3, BoundsAssumption DEF StreamInv, Shapes
    <3>2. QED
      BY <1>2, <1>3, <2>1, <3>1 DEF stream
  <2>2. CASE v # w
    <3>1. /\ main[v] = "ingesting" /\ run[v] \in 1..(nextRun - 1)
          /\ Ids(batchOf[run[v]]) = batch[v]
      BY <1>3, <2>2 DEF StreamInv, Shapes, CallsServeBatches
    <3>2. run'[v] = run[v] /\ batchOf'[run[v]] = batchOf[run[v]]
      BY <1>3, <1>4, <2>2, <3>1 DEF StreamInv, Shapes
    <3>3. QED
      BY <1>3, <3>1, <3>2 DEF stream
  <2>3. QED
    BY <2>1, <2>2
<1>9. QED
  BY <1>3, <1>5, <1>6, <1>7, <1>8, InsideStutters DEF StreamInv

\* Inside the call nothing is acknowledged.
LEMMA CallStepStutters ==
  ASSUME StreamInv, NEW w \in Workers, Call(w) \/ LoseAnswer(w)
  PROVE  StreamInv' /\ UNCHANGED Worker!vars
<1>1. CallFrame(w) /\ UNCHANGED <<stream, returned>>
  BY CallStepFrame, LoseAnswerFrame DEF Call, LoseAnswer
<1>2. ReturnedRunsArePast'
  BY <1>1 DEF StreamInv, ReturnedRunsArePast, CallFrame
<1>3. StreamInv'
  BY <1>1, <1>2, FrameKeepsInv DEF stream, StreamInv, Shapes
<1>4. Acknowledged' = Acknowledged
  BY <1>1, AcknowledgedStays DEF CallFrame
<1>5. QED
  BY <1>1, <1>3, <1>4, InsideStutters

\* The result of a call is the success of the attempt: just the batch is acknowledged.
LEMMA ReturnStep ==
  ASSUME StreamInv, NEW w \in Workers, Return(w)
  PROVE  StreamInv' /\ Worker!Next
<1>1. Lake!CallStep(w) /\ pc[w] # "idle" /\ pc'[w] = "idle"
  BY DEF Return, Lake!CallStep, Lake!FinishRun, Lake!Return, Lake!Goto, StreamInv, Shapes
<1>2. CallFrame(w)
  BY <1>1, CallStepFrame
<1>3. /\ main[w] = "ingesting" /\ run[w] \in 1..(nextRun - 1)
      /\ Ids(batchOf[run[w]]) = batch[w]
  BY <1>1 DEF StreamInv, CallsServeBatches
<1>4. PICK row : returned' = returned \cup {[run |-> run[w], row |-> row]}
  BY DEF Return, Lake!FinishRun
<1>5. ReturnedRunsArePast'
  BY <1>2, <1>3, <1>4 DEF StreamInv, ReturnedRunsArePast, CallFrame
<1>6. /\ main' = [main EXCEPT ![w] = "publishing"]
      /\ UNCHANGED <<committed, members, owner, deadLetters, position, batch, stopped, disturbances>>
  BY DEF Return
<1>7. StreamInv'
  BY <1>1, <1>2, <1>5, <1>6, FrameKeepsInv DEF StreamInv, Shapes
<1>8. Acknowledged' = Acknowledged \cup batch[w]
  <2>1. Acknowledged' = UNION {Ids(batchOf[res.run]) : res \in returned'}
    BY <1>2 DEF Acknowledged, CallFrame
  <2> DEFINE new == [run |-> run[w], row |-> row]
  <2>2. returned' = returned \cup {new} /\ new.run = run[w]
    BY <1>4
  <2> HIDE DEF new
  <2> DEFINE Ack(S) == UNION {Ids(batchOf[res.run]) : res \in S}
  <2>3. Ack(returned \cup {new}) = Ack(returned) \cup Ids(batchOf[new.run])
    <3>1. \A S : \A x : x \in Ack(S) <=> \E res \in S : x \in Ids(batchOf[res.run])
      OBVIOUS
    <3> HIDE DEF Ack
    <3>2. \A x : x \in Ack(returned \cup {new})
                  <=> x \in Ack(returned) \/ x \in Ids(batchOf[new.run])
      BY <3>1
    <3>3. QED
      BY <3>2
  <2>4. QED
    BY <1>3, <2>1, <2>2, <2>3 DEF Acknowledged
<1>9. Worker!IngestSucceeds(w)
  BY <1>3, <1>6, <1>8 DEF Worker!IngestSucceeds, Worker!Goto, Worker!group
<1>10. QED
  BY <1>7, <1>9 DEF Worker!Next, Worker!Step

\* A statement that lands late is of no concern to the workers.
LEMMA LandStep ==
  ASSUME StreamInv, Land
  PROVE  StreamInv' /\ UNCHANGED Worker!vars
<1>1. UNCHANGED <<stream, pc, run, sent, nextRun, batchOf, returned>>
  BY DEF Land, Lake!LandMerge, Lake!LandRunWrite, Lake!client, Lake!history
<1>2. StreamInv'
  BY <1>1 DEF StreamInv, Shapes, SentInCall, CallsServeBatches, ReturnedRunsArePast, stream, Ids
<1>3. Acknowledged' = Acknowledged
  BY <1>1, AcknowledgedStays
<1>4. QED
  BY <1>1, <1>2, <1>3, InsideStutters

\* Every step keeps the invariant and is a step of KafkaWorker or stutters.
LEMMA NextStep ==
  ASSUME StreamInv, [Next]_<<stream, lake>>
  PROVE  StreamInv' /\ [Worker!Next]_(Worker!vars)
<1>1. CASE Land
  BY <1>1, LandStep
<1>2. CASE Rebalance
  BY <1>2, RebalanceStep
<1>3. ASSUME NEW w \in Workers, Step(w)
      PROVE  StreamInv' /\ [Worker!Next]_(Worker!vars)
  BY <1>3, OutsideStep, AttemptStep, CallStepStutters, ReturnStep, CrashStep DEF Step, Outside
<1>4. CASE UNCHANGED <<stream, lake>>
  <2>1. UNCHANGED <<batchOf, returned>>
    BY <1>4 DEF lake
  <2>2. StreamInv'
    BY <1>4 DEF StreamInv, Shapes, SentInCall, CallsServeBatches, ReturnedRunsArePast,
                stream, lake, Ids
  <2>3. QED
    BY <1>4, <2>1, <2>2, AcknowledgedStays, InsideStutters
<1>5. QED
  BY <1>1, <1>2, <1>3, <1>4 DEF Next

\* The workers on Trino are the workers of KafkaWorker (ImplementsWorker), whatever calls
\* fail, race, lose their answers or commit late.
THEOREM WorkersOnTrino == Spec => ImplementsWorker
<1>1. Init => Worker!Init
  BY DEF Init
<1>2. Init => StreamInv
  BY InitStream
<1>3. StreamInv /\ [Next]_<<stream, lake>> => StreamInv' /\ [Worker!Next]_(Worker!vars)
  BY NextStep
<1>4. QED
  BY <1>1, <1>2, <1>3, PTL DEF Spec, ImplementsWorker, Worker!Spec

-------------------------------------------------------------------------------
(***************************************************************************)
(* What TrinoIngestProofs and KafkaWorkerProofs show, for the two parts of the *)
(* composition.  Lake and Trino, and Worker and Group, are the same        *)
(* specifications, each instantiated once in StreamIngest and once here.   *)
(***************************************************************************)
Group == INSTANCE KafkaWorkerProofs
  WITH pc <- main, faults <- disturbances, MaxFaults <- MaxDisturbances,
       stored <- Acknowledged, RefusedRecords <- {}

\* A batch is any sequence of events.
Trino == INSTANCE TrinoIngestProofs
  WITH Writers <- Workers, Inputs <- Seq(Events), BlankId <- <<>>, Fits <- EveryEvent,
       Mergeable <- EveryEvent

\* Every step of a call is the one that TrinoIngestProofs speaks of.
LEMMA SameCallStep ==
  ASSUME NEW w, Lake!CallStep(w)
  PROVE  Trino!CallStep(w)
<1> USE DEF Lake!history, Trino!history, Lake!server, Trino!server, Lake!client,
               Trino!client, Lake!Goto, Trino!Goto, Lake!Return, Trino!Return, Lake!RaiseFrom,
               Trino!RaiseFrom, Lake!RaiseTooLarge, Trino!RaiseTooLarge, Lake!Tables,
               Trino!Tables, Lake!RunWriteSteps, Trino!RunWriteSteps, Lake!Items, Trino!Items,
               Lake!InputDuplicates, Trino!InputDuplicates, Lake!RunWrite, Trino!RunWrite,
               Lake!RunningRow, Trino!RunningRow, Lake!CompletedRow, Trino!CompletedRow,
               Lake!FailedRow, Trino!FailedRow, Lake!ApplyRunWrite, Trino!ApplyRunWrite,
               Lake!NoRow, Trino!NoRow, Lake!NoPlan, Trino!NoPlan, Lake!NoTally, Trino!NoTally,
               Lake!Queued, Trino!Queued, Lake!Destined, Trino!Destined, Lake!After,
               Trino!After, Lake!Unmatched, Trino!Unmatched, Lake!NewRows, Trino!NewRows,
               Lake!CommitRows, Trino!CommitRows, Lake!CountForRun, Trino!CountForRun,
               Lake!Tally, Trino!Tally, Lake!LeaveStatementBehind, Trino!LeaveStatementBehind,
               Lake!Cardinality, Trino!Cardinality
<1>1. Lake!InsertRun(w) => Trino!InsertRun(w)
  BY DEF Lake!InsertRun, Trino!InsertRun
<1>2. Lake!AssertEventsFit(w) => Trino!AssertEventsFit(w)
  BY DEF Lake!AssertEventsFit, Trino!AssertEventsFit
<1>3. Lake!RejectBatch(w) => Trino!RejectBatch(w)
  BY DEF Lake!RejectBatch, Trino!RejectBatch
<1>4. Lake!NextTable(w) => Trino!NextTable(w)
  BY DEF Lake!NextTable, Trino!NextTable
<1>5. Lake!PlanMerge(w) => Trino!PlanMerge(w)
  BY DEF Lake!PlanMerge, Trino!PlanMerge
<1>6. Lake!CommitMerge(w) => Trino!CommitMerge(w)
  BY DEF Lake!CommitMerge, Trino!CommitMerge
<1>7. Lake!ConflictMerge(w) => Trino!ConflictMerge(w)
  BY DEF Lake!ConflictMerge, Trino!ConflictMerge
<1>8. Lake!CountCommitted(w) => Trino!CountCommitted(w)
  BY DEF Lake!CountCommitted, Trino!CountCommitted
<1>9. Lake!CountQuarantined(w) => Trino!CountQuarantined(w)
  BY DEF Lake!CountQuarantined, Trino!CountQuarantined
<1>10. Lake!ReadSnapshot(w) => Trino!ReadSnapshot(w)
  BY DEF Lake!ReadSnapshot, Trino!ReadSnapshot
<1>11. Lake!FinishRun(w) => Trino!FinishRun(w)
  BY DEF Lake!FinishRun, Trino!FinishRun
<1>12. Lake!RecordFailure(w) => Trino!RecordFailure(w)
  BY DEF Lake!RecordFailure, Trino!RecordFailure
<1>13. Lake!ConflictRunWrite(w) => Trino!ConflictRunWrite(w)
  BY DEF Lake!ConflictRunWrite, Trino!ConflictRunWrite
<1>14. \A S : Lake!SendBatch(w, S) => Trino!SendBatch(w, S)
  BY DEF Lake!SendBatch, Trino!SendBatch
<1>15. QED
  BY <1>1, <1>2, <1>3, <1>4, <1>5, <1>6, <1>7, <1>8, <1>9, <1>10, <1>11, <1>12, <1>13, <1>14
     DEF Lake!CallStep, Trino!CallStep

\* So are the calls that begin, the faults and the statements left behind.
LEMMA SameOtherSteps ==
  /\ \A w, input : Lake!IngestEvents(w, input) => Trino!IngestEvents(w, input)
  /\ \A w : Lake!LoseAnswer(w) => Trino!LoseAnswer(w)
  /\ \A w : Lake!Crash(w) => Trino!Crash(w)
  /\ \A m : Lake!LandMerge(m) => Trino!LandMerge(m)
  /\ \A x : Lake!LandRunWrite(x) => Trino!LandRunWrite(x)
<1> USE DEF Lake!history, Trino!history, Lake!server, Trino!server, Lake!client,
               Trino!client, Lake!Goto, Trino!Goto, Lake!Return, Trino!Return, Lake!RaiseFrom,
               Trino!RaiseFrom, Lake!RaiseTooLarge, Trino!RaiseTooLarge, Lake!Tables,
               Trino!Tables, Lake!RunWriteSteps, Trino!RunWriteSteps, Lake!Items, Trino!Items,
               Lake!InputDuplicates, Trino!InputDuplicates, Lake!RunWrite, Trino!RunWrite,
               Lake!RunningRow, Trino!RunningRow, Lake!CompletedRow, Trino!CompletedRow,
               Lake!FailedRow, Trino!FailedRow, Lake!ApplyRunWrite, Trino!ApplyRunWrite,
               Lake!NoRow, Trino!NoRow, Lake!NoPlan, Trino!NoPlan, Lake!NoTally, Trino!NoTally,
               Lake!Queued, Trino!Queued, Lake!Destined, Trino!Destined, Lake!After,
               Trino!After, Lake!Unmatched, Trino!Unmatched, Lake!NewRows, Trino!NewRows,
               Lake!CommitRows, Trino!CommitRows, Lake!CountForRun, Trino!CountForRun,
               Lake!Tally, Trino!Tally, Lake!LeaveStatementBehind, Trino!LeaveStatementBehind,
               Lake!Cardinality, Trino!Cardinality
<1>1. \A w, input : Lake!IngestEvents(w, input) => Trino!IngestEvents(w, input)
  BY DEF Lake!IngestEvents, Trino!IngestEvents
<1>2. \A w : Lake!LoseAnswer(w) => Trino!LoseAnswer(w)
  BY DEF Lake!LoseAnswer, Trino!LoseAnswer
<1>3. \A w : Lake!Crash(w) => Trino!Crash(w)
  BY DEF Lake!Crash, Trino!Crash
<1>4. \A m : Lake!LandMerge(m) => Trino!LandMerge(m)
  BY DEF Lake!LandMerge, Trino!LandMerge
<1>5. \A x : Lake!LandRunWrite(x) => Trino!LandRunWrite(x)
  BY DEF Lake!LandRunWrite, Trino!LandRunWrite
<1>6. QED
  BY <1>1, <1>2, <1>3, <1>4, <1>5

\* Every step of the workers is the one that KafkaWorkerProofs speaks of.
LEMMA SameWorkerStep ==
  Worker!Next => Group!Next
BY DEF Worker!Next, Group!Next, Worker!Rebalance, Group!Rebalance, Worker!topics, Group!topics,
       Worker!Busy, Group!Busy, Worker!Disturbance, Group!Disturbance, Worker!Evict,
       Group!Evict, Worker!Fault, Group!Fault, Worker!Crash, Group!Crash, Worker!Exit,
       Group!Exit, Worker!Goto, Group!Goto, Worker!Stop, Group!Stop, Worker!group, Group!group,
       Worker!CommitUnanswered, Group!CommitUnanswered, Worker!CommitPositions,
       Group!CommitPositions, Worker!Owned, Group!Owned, Worker!PublishFails,
       Group!PublishFails, Worker!Deliver, Group!Deliver, Worker!Records, Group!Records,
       Worker!Invalid, Group!Invalid, Worker!IngestFails, Group!IngestFails, Worker!Step,
       Group!Step, Worker!Restart, Group!Restart, Worker!Leave, Group!Leave,
       Worker!CommitRefused, Group!CommitRefused, Worker!Commit, Group!Commit, Worker!Publish,
       Group!Publish, Worker!GiveUp, Group!GiveUp, Worker!IngestSucceeds, Group!IngestSucceeds,
       Worker!Poll, Group!Poll, Worker!Offsets, Group!Offsets, Worker!Initialize,
       Group!Initialize, Worker!Cardinality, Group!Cardinality

-------------------------------------------------------------------------------
\* The assumptions of the two parts hold of the composition.
LEMMA GroupAssumptions ==
  /\ LogEnd \in [Partitions -> Nat]
  /\ InvalidRecords \subseteq Group!Records
  /\ {} \subseteq Group!Records
  /\ MaxPollRecords \in Nat \ {0} /\ MaxDisturbances \in Nat
BY LogAssumption, BoundsAssumption DEF Group!Records

\* The log is finite.
LEMMA RecordsFinite == IsFiniteSet(Worker!Records)
<1> DEFINE Log(p) == {p} \X (0..(LogEnd[p] - 1))
           Logs == {Log(p) : p \in Partitions}
<1>1. \A p \in Partitions : IsFiniteSet(Log(p))
  <2> TAKE p \in Partitions
  <2>1. IsFiniteSet({p})
    BY FS_Singleton
  <2>2. LogEnd[p] - 1 \in Int
    BY LogAssumption
  <2>3. IsFiniteSet(0..(LogEnd[p] - 1))
    BY <2>2, FS_Interval
  <2>4. QED
    BY <2>1, <2>3, FS_Product
<1>2. IsFiniteSet(Logs)
  <2> DEFINE f == [p \in Partitions |-> Log(p)]
  <2>1. f \in Surjection(Partitions, Logs)
    BY DEF Surjection
  <2>2. QED
    BY <2>1, LogAssumption, FS_Surjection
<1>3. IsFiniteSet(UNION Logs)
  <2>1. \A L \in Logs : IsFiniteSet(L)
    BY <1>1
  <2> HIDE DEF Logs
  <2>2. QED
    BY <1>2, <2>1, FS_UNION
<1>4. QED
  BY <1>3 DEF Worker!Records

\* The events are finitely many.
LEMMA StreamEventsFinite == IsFiniteSet(Events)
<1> DEFINE f == [r \in Worker!Records |-> EventOf(r)]
<1>1. f \in Surjection(Worker!Records, Events)
  BY DEF Surjection, Events
<1>2. QED
  BY <1>1, RecordsFinite, FS_Surjection

\* The event of a record has its id and its verdict.
LEMMA EventParts ==
  ASSUME NEW r
  PROVE  /\ EventOf(r).id = r /\ EventOf(r).ok = (r \notin InvalidRecords)
         /\ EventOf(r).ok \in BOOLEAN
         /\ EventOf(r) = [id |-> EventOf(r).id, ok |-> EventOf(r).ok]
<1> DEFINE ok == r \notin InvalidRecords
<1>1. ok \in BOOLEAN
  OBVIOUS
<1>2. EventOf(r) = [id |-> r, ok |-> ok]
  BY Zenon DEF EventOf
<1> HIDE DEF ok
<1>3. EventOf(r).id = r /\ EventOf(r).ok = ok
  BY <1>2
<1>4. EventOf(r) = [id |-> EventOf(r).id, ok |-> EventOf(r).ok]
  BY <1>2, <1>3
<1>5. QED
  BY <1>1, <1>3, <1>4, Zenon DEF ok

\* So do those of Trino.
LEMMA TrinoAssumptions ==
  /\ Trino!IsFiniteSet(Workers)
  /\ Trino!IsFiniteSet(Events)
  /\ \A e \in Events : e = [id |-> e.id, ok |-> e.ok] /\ e.ok \in BOOLEAN
  /\ EveryEvent \in [Trino!Tables -> SUBSET Events]
  /\ InsertBatchSize \in Nat \ {0} /\ CommitRetries \in Nat
  /\ MaxRuns \in Nat /\ MaxFaults \in Nat
<1>1. Trino!IsFiniteSet(Workers) /\ Trino!IsFiniteSet(Events)
  BY StreamEventsFinite, WorkersAssumption DEF Trino!IsFiniteSet, IsFiniteSet
<1>2. \A e \in Events : e = [id |-> e.id, ok |-> e.ok] /\ e.ok \in BOOLEAN
  BY EventParts DEF Events
<1>3. EveryEvent \in [Trino!Tables -> SUBSET Events]
  BY DEF EveryEvent, Trino!Tables
<1>4. QED
  BY <1>1, <1>2, <1>3, BoundsAssumption

-------------------------------------------------------------------------------
\* What is shown of the two parts, in the composition.
LEMMA GroupInitially == Worker!Init => Group!HandledInv
<1>1. Worker!Init => Group!Init
  BY DEF Worker!Init, Group!Init, Worker!Records, Group!Records
<1>2. QED
  BY <1>1, GroupAssumptions, Group!InitHandled

\* The invariant of KafkaWorkerProofs is kept by the composition.
LEMMA GroupStep ==
  Group!HandledInv /\ [Worker!Next]_(Worker!vars) => Group!HandledInv'
<1>1. [Worker!Next]_(Worker!vars) => [Group!Next]_(Group!vars)
  BY SameWorkerStep DEF Worker!vars, Group!vars, Worker!group, Group!group,
                        Worker!topics, Group!topics
<1>2. QED
  BY <1>1, GroupAssumptions, Group!HandledStep

\* The invariant of TrinoIngestProofs holds at first,
LEMMA TrinoInitially == Lake!Init => Trino!RunInv
<1>1. Lake!Init => Trino!Init
  BY DEF Lake!Init, Trino!Init, Lake!NoRow, Trino!NoRow, Lake!NoPlan, Trino!NoPlan,
         Lake!NoTally, Trino!NoTally, Lake!Tables, Trino!Tables, Lake!Runs, Trino!Runs,
         Lake!Queued, Trino!Queued
<1>2. QED
  BY <1>1, TrinoAssumptions, Trino!RunInvInit

\* Every step is one of TrinoIngest or leaves Trino and its clients alone: what an attempt
\* hands to ingest_events is a batch of events.
LEMMA TrinoStep ==
  ASSUME Group!HandledInv, [Next]_<<stream, lake>>
  PROVE  [Trino!Next]_(Trino!vars)
<1>1. UNCHANGED lake => UNCHANGED Trino!vars
  BY DEF lake, Trino!vars, Trino!server, Trino!client, Trino!history
<1>2. CASE Land
  BY <1>2, SameOtherSteps DEF Land, Trino!Next
<1>3. ASSUME NEW w \in Workers, Attempt(w)
      PROVE  Trino!Next
  <2>1. PICK s \in Orders(batch[w]) : Lake!IngestEvents(w, [i \in DOMAIN s |-> EventOf(s[i])])
    BY <1>3 DEF Attempt
  <2> DEFINE input == [i \in DOMAIN s |-> EventOf(s[i])]
  <2>2. batch[w] \subseteq Worker!Records
    BY DEF Group!HandledInv, Group!Types, Group!Records, Worker!Records
  <2>3. Cardinality(batch[w]) \in Nat
    BY <2>2, RecordsFinite, FS_Subset, FS_CardinalityType
  <2>4. input \in Seq(Events)
    <3>1. s \in [1..Cardinality(batch[w]) -> batch[w]]
      BY DEF Orders
    <3>2. input \in [1..Cardinality(batch[w]) -> Events]
      BY <2>2, <3>1 DEF Events
    <3>3. QED
      BY <2>3, <3>2
  <2> HIDE DEF input
  <2>5. Trino!IngestEvents(w, input)
    BY <2>1, SameOtherSteps DEF input
  <2>6. QED
    BY <2>4, <2>5 DEF Trino!Next
<1>4. ASSUME NEW w \in Workers, Call(w) \/ LoseAnswer(w) \/ Return(w)
      PROVE  Trino!Next
  <2>1. Lake!CallStep(w) \/ Lake!LoseAnswer(w)
    BY <1>4 DEF Call, LoseAnswer, Return, Lake!CallStep
  <2>2. QED
    BY <2>1, SameCallStep, SameOtherSteps DEF Trino!Next
<1>5. ASSUME NEW w \in Workers, Crash(w)
      PROVE  Trino!Next \/ UNCHANGED lake
  BY <1>5, SameOtherSteps DEF Crash, Trino!Next
<1>6. ASSUME NEW w \in Workers, Outside(w)
      PROVE  UNCHANGED lake
  BY <1>6 DEF Outside, Initialize, Poll, GiveUp, Publish, PublishFails, Commit, CommitRefused,
         Leave, Restart, Stop, Evict
<1>7. CASE Rebalance
  BY <1>1, <1>7 DEF Rebalance
<1>8. CASE UNCHANGED <<stream, lake>>
  BY <1>1, <1>8
<1>9. ASSUME NEW w \in Workers, Step(w)
      PROVE  Trino!Next \/ UNCHANGED lake
  BY <1>3, <1>4, <1>5, <1>6, <1>9 DEF Step, Outside
<1>10. QED
  BY <1>1, <1>2, <1>7, <1>8, <1>9 DEF Next

\* and is kept by the composition.
LEMMA TrinoInvStep ==
  ASSUME Group!HandledInv, Trino!RunInv, [Next]_<<stream, lake>>
  PROVE  Trino!RunInv'
BY TrinoStep, TrinoAssumptions, Trino!RunInvStep

\* What holds of the composition, of the workers and of Trino.
WholeInv == StreamInv /\ Group!HandledInv /\ Trino!RunInv

LEMMA WholeInitially == Init => WholeInv
BY InitStream, GroupInitially, TrinoInitially DEF Init, WholeInv

LEMMA WholeStep == WholeInv /\ [Next]_<<stream, lake>> => WholeInv'
BY NextStep, GroupStep, TrinoInvStep DEF WholeInv

-------------------------------------------------------------------------------
\* The last occurrence of an id is an item of the batch: what a result acknowledges is
\* among the events that were written.
LEMMA EveryIdIsItem ==
  ASSUME NEW S, NEW input \in Seq(S), NEW i \in DOMAIN input
  PROVE  \E e \in Trino!Items(input) : e.id = input[i].id
<1> DEFINE K == {k \in DOMAIN input : input[k].id = input[i].id}
           After(k) == {j \in DOMAIN input : j > k}
           Tails == {After(k) : k \in K}
<1>1. DOMAIN input = 1..Len(input) /\ Len(input) \in Nat
  OBVIOUS
<1>2. IsFiniteSet(DOMAIN input)
  BY <1>1, FS_Interval
<1>3. \A k \in K : After(k) \subseteq DOMAIN input /\ IsFiniteSet(After(k))
  BY <1>2, FS_Subset
<1>4. Tails \subseteq FiniteSubsetsOf(DOMAIN input) /\ Tails # {}
  BY <1>3 DEF FiniteSubsetsOf
<1>5. IsWellFoundedOn(StrictSubsetOrdering(DOMAIN input), FiniteSubsetsOf(DOMAIN input))
  BY FS_StrictSubsetOrderingWellFounded
<1>6. PICK X \in Tails : \A Y \in Tails : ~ (<<Y, X>> \in StrictSubsetOrdering(DOMAIN input))
  <2> HIDE DEF Tails
  <2>1. QED
    BY <1>4, <1>5, WFMin
<1>7. PICK k \in K : X = After(k)
  OBVIOUS
<1>8. ASSUME NEW j \in DOMAIN input, j > k, input[j].id = input[k].id
      PROVE  FALSE
  <2>1. j \in K /\ k \in Int /\ j \in Int
    BY <1>1, <1>8
  <2>2. After(j) \subseteq After(k) /\ j \in After(k) /\ j \notin After(j)
    BY <1>1, <1>8
  <2>3. <<After(j), X>> \in StrictSubsetOrdering(DOMAIN input)
    BY <1>7, <2>2 DEF StrictSubsetOrdering
  <2>4. QED
    BY <1>6, <2>1, <2>3
<1>9. input[k] \in Trino!Items(input) /\ input[k].id = input[i].id
  BY <1>8 DEF Trino!Items
<1>10. QED
  BY <1>9

\* The event of an acknowledged record has a row in every table it is destined to.
LEMMA AcknowledgedIsPresent ==
  ASSUME Trino!RunInv, NEW r \in Acknowledged, NEW t \in Trino!Tables,
         \/ t = "raw_events"
         \/ t = "application_logs" /\ r \notin InvalidRecords
         \/ t = "quarantine_events" /\ r \in InvalidRecords
  PROVE  \E row \in table[t] : row.id = r
<1>1. PICK res \in returned : r \in Ids(batchOf[res.run])
  BY DEF Acknowledged
<1>2. res.run \in Trino!Runs /\ batchOf[res.run] \in Seq(Events)
  BY DEF Trino!RunInv, Trino!MergeInv, Trino!TypeInv, Trino!TypeOK
<1>3. PICK i \in DOMAIN batchOf[res.run] : batchOf[res.run][i].id = r
  BY <1>1 DEF Ids
<1>4. PICK e \in Trino!Items(batchOf[res.run]) : e.id = r
  BY <1>2, <1>3, EveryIdIsItem
<1>5. e \in Events
  BY <1>2 DEF Trino!Items
<1>6. e.ok = (r \notin InvalidRecords)
  BY <1>4, <1>5, EventParts DEF Events
<1>7. e \in Trino!Destined(t, Trino!BatchItems(res.run))
  BY <1>4, <1>6 DEF Trino!Destined, Trino!BatchItems
<1>8. Trino!Backed(res.run)
  BY <1>2 DEF Trino!RunInv, Trino!ReturnsInv, Trino!ClaimsInv, Trino!Claim
<1>9. QED
  BY <1>4, <1>7, <1>8 DEF Trino!Backed, Trino!AllPresent, Trino!Present

\* A record with a row has just one.
LEMMA OneRow ==
  ASSUME Trino!RunInv, NEW t \in Trino!Tables, NEW r, \E row \in table[t] : row.id = r
  PROVE  Cardinality(Rows(t, r)) = 1
<1>1. PICK row \in table[t] : row.id = r
  OBVIOUS
<1>2. Rows(t, r) = {row}
  BY <1>1 DEF Rows, Trino!RunInv, Trino!MergeInv, Trino!OneRowPerEvent
<1>3. QED
  BY <1>2, FS_Singleton

\* A committed record was acknowledged, so it is present, once.
LEMMA WholeInTables == WholeInv => CommittedIsInTables
<1> SUFFICES ASSUME WholeInv, NEW r \in Worker!Records, r[2] < committed[r[1]]
             PROVE  /\ Cardinality(Rows("raw_events", r)) = 1
                    /\ Cardinality(Rows(Verdict(r), r)) = 1
                    /\ r \in InvalidRecords => deadLetters[r] >= 1
  BY DEF CommittedIsInTables
<1>1. r \in Acknowledged /\ (r \in InvalidRecords => deadLetters[r] >= 1)
  BY DEF WholeInv, Group!HandledInv, Group!CommittedIsHandled, Group!Records, Worker!Records
<1>2. Cardinality(Rows("raw_events", r)) = 1
  BY <1>1, AcknowledgedIsPresent, OneRow DEF WholeInv, Trino!Tables
<1>3. Cardinality(Rows(Verdict(r), r)) = 1
  BY <1>1, AcknowledgedIsPresent, OneRow DEF WholeInv, Trino!Tables, Verdict
<1>4. QED
  BY <1>1, <1>2, <1>3

\* From the topic to the tables (CommittedIsInTables): whatever fails, is retried, commits
\* late or is ingested twice, a record below a committed offset has one row of its original
\* and one of its verdict, and is in the dead-letter topic when it is invalid.
THEOREM FromTopicToTables == Spec => []CommittedIsInTables
BY WholeInitially, WholeStep, WholeInTables, PTL DEF Spec
===============================================================================
