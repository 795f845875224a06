--------------------------- MODULE KafkaWorkerProofs ---------------------------
(***************************************************************************)
(* Proofs about KafkaWorker, for any number of workers, partitions,        *)
(* records, batch sizes and faults.                                        *)
(***************************************************************************)
EXTENDS KafkaWorker, FiniteSetTheorems, TLAPS

\* What holds of a member of the group between two of its steps: the records from the
\* committed offset to its position are in its batch, the batch is stored before it is
\* published, and published before it is committed.
MemberInv ==
  \A w \in members :
    /\ pc[w] = "polling" \/ Busy(w)
    /\ \A p \in Partitions :
         owner[p] = w =>
           /\ committed[p] <= position[w][p]
           /\ pc[w] = "polling" => position[w][p] = committed[p]
           /\ \A r \in Records : r[1] = p /\ committed[p] <= r[2] /\ r[2] < position[w][p]
                                   => r \in batch[w]

BatchInv ==
  \A w \in Workers :
    /\ pc[w] \in {"publishing", "committing"} => batch[w] \subseteq stored
    /\ pc[w] = "committing" => \A r \in Invalid(batch[w]) : deadLetters[r] >= 1

Types ==
  /\ committed \in [Partitions -> Nat]
  /\ members \subseteq Workers
  /\ owner \in [Partitions -> Workers]
  /\ stored \subseteq Records
  /\ deadLetters \in [Records -> Nat]
  /\ pc \in [Workers -> {"starting", "polling", "ingesting", "publishing",
                         "committing", "down"}]
  /\ position \in [Workers -> [Partitions -> Nat]]
  /\ batch \in [Workers -> SUBSET Records]
  /\ stopped \in [Workers -> BOOLEAN]
  /\ faults \in 0..MaxFaults

BatchesBounded == \A w \in Workers : Cardinality(batch[w]) <= MaxPollRecords

HandledInv == Types /\ BatchesBounded /\ MemberInv /\ BatchInv /\ CommittedIsHandled

\* A record is a partition and an offset.
LEMMA RecordParts ==
  ASSUME NEW r \in Records
  PROVE  r[1] \in Partitions /\ r[2] \in Nat /\ r[2] < LogEnd[r[1]]
<1>1. PICK p \in Partitions : r \in {p} \X (0..(LogEnd[p] - 1))
  BY DEF Records
<1>2. r[1] = p /\ r[2] \in 0..(LogEnd[p] - 1)
  BY <1>1
<1>3. LogEnd[p] \in Nat
  BY LogAssumption
<1>4. QED
  BY <1>2, <1>3

LEMMA InitHandled == Init => HandledInv
<1> SUFFICES ASSUME Init PROVE HandledInv
  OBVIOUS
<1>1. Types
  BY BoundsAssumption DEF Init, Types
<1>2. CommittedIsHandled
  BY RecordParts DEF Init, CommittedIsHandled
<1>3. BatchesBounded
  BY FS_EmptySet, BoundsAssumption DEF Init, BatchesBounded
<1>4. QED
  BY <1>1, <1>2, <1>3 DEF Init, HandledInv, MemberInv, BatchInv

\* What a step that ends main() leaves of the invariant.
LEMMA ExitHandled ==
  ASSUME Types, MemberInv, BatchInv, NEW w \in Workers, Exit(w),
         UNCHANGED <<committed, owner, stored, position>>,
         \A r \in Records : deadLetters'[r] >= deadLetters[r] /\ deadLetters'[r] \in Nat
  PROVE  MemberInv' /\ BatchInv'
<1>1. /\ pc' = [pc EXCEPT ![w] = "down"]
      /\ members' = members \ {w}
      /\ batch' = [batch EXCEPT ![w] = {}]
  BY DEF Exit, Goto
<1>2. MemberInv'
  BY <1>1 DEF MemberInv, Types, Busy
<1>3. ASSUME NEW v \in Workers
      PROVE  /\ pc'[v] \in {"publishing", "committing"} => batch'[v] \subseteq stored'
             /\ pc'[v] = "committing" => \A r \in Invalid(batch'[v]) : deadLetters'[r] >= 1
  <2>1. CASE v = w
    BY <1>1, <2>1 DEF Types
  <2>2. CASE v # w
    <3>1. pc'[v] = pc[v] /\ batch'[v] = batch[v] /\ batch[v] \subseteq Records
      BY <1>1, <2>2 DEF Types
    <3>2. \A r \in Invalid(batch[v]) : deadLetters[r] \in Nat
      BY <3>1 DEF Types, Invalid
    <3>3. QED
      BY <3>1, <3>2 DEF BatchInv, Invalid
  <2>3. QED
    BY <2>1, <2>2
<1>4. QED
  BY <1>2, <1>3 DEF BatchInv

\* More copies in the topics and the same offsets: what was handled stays handled.
LEMMA HandledGrows ==
  ASSUME Types, CommittedIsHandled, committed' = committed, stored \subseteq stored',
         \A r \in Records : deadLetters'[r] >= deadLetters[r] /\ deadLetters'[r] \in Nat
  PROVE  CommittedIsHandled'
<1>1. \A r \in Records : deadLetters[r] \in Nat
  BY DEF Types
<1>2. QED
  BY <1>1 DEF CommittedIsHandled

LEMMA DeliverGrows ==
  ASSUME Types, NEW S, Deliver(S)
  PROVE  /\ deadLetters' \in [Records -> Nat]
         /\ \A r \in Records : deadLetters'[r] >= deadLetters[r]
         /\ \A r \in Records \cap S : deadLetters'[r] >= 1
BY DEF Deliver, Types

\* The variables keep their types.
LEMMA TypesStep ==
  ASSUME Types, Next
  PROVE  Types'
<1> USE DEF Types, group, topics, Goto, Exit, Fault
<1>1. ASSUME NEW w \in Workers,
             \/ Initialize(w)
             \/ IngestSucceeds(w)
             \/ \E part \in SUBSET batch[w] : IngestFails(w, part)
             \/ GiveUp(w)
             \/ CommitRefused(w)
             \/ Leave(w)
             \/ Restart(w)
      PROVE  Types'
  BY <1>1 DEF Initialize, IngestSucceeds, IngestFails, GiveUp, CommitRefused, Leave, Restart
<1>2. ASSUME NEW w \in Workers, NEW upto \in Offsets, Poll(w, upto)
      PROVE  Types'
  <2>1. upto \in [Partitions -> Nat]
    <3>1. \A p \in Partitions : upto[p] \in position[w][p]..LogEnd[p]
      BY <1>2 DEF Poll
    <3>2. \A p \in Partitions : position[w][p] \in Nat /\ LogEnd[p] \in Nat
      BY LogAssumption
    <3>3. \A p \in Partitions : upto[p] \in Nat
      BY <3>1, <3>2
    <3>4. QED
      BY <3>3 DEF Offsets
  <2>2. position' \in [Workers -> [Partitions -> Nat]] /\ batch' \in [Workers -> SUBSET Records]
    BY <1>2, <2>1 DEF Poll
  <2>3. QED
    BY <1>2, <2>2 DEF Poll
<1>3. ASSUME NEW w \in Workers, Publish(w)
      PROVE  Types'
  <2>1. deadLetters' \in [Records -> Nat]
    BY <1>3, DeliverGrows DEF Publish
  <2>2. QED
    BY <1>3, <2>1 DEF Publish
<1>4. ASSUME NEW w \in Workers, NEW delivered \in SUBSET batch[w], PublishFails(w, delivered)
      PROVE  Types'
  <2>1. deadLetters' \in [Records -> Nat] /\ faults' \in 0..MaxFaults
    BY <1>4, DeliverGrows, BoundsAssumption DEF PublishFails
  <2>2. QED
    BY <1>4, <2>1 DEF PublishFails
<1>5. ASSUME NEW w \in Workers, Commit(w) \/ CommitUnanswered(w)
      PROVE  Types'
  <2>1. committed' \in [Partitions -> Nat]
    BY <1>5 DEF Commit, CommitUnanswered, CommitPositions
  <2>2. faults' \in 0..MaxFaults
    BY <1>5, BoundsAssumption DEF Commit, CommitUnanswered
  <2>3. QED
    BY <1>5, <2>1, <2>2 DEF Commit, CommitUnanswered
<1>6. ASSUME NEW w \in Workers, Stop(w) \/ Crash(w) \/ Evict(w)
      PROVE  Types'
  <2>1. faults' \in 0..MaxFaults
    BY <1>6, BoundsAssumption DEF Stop, Crash, Evict
  <2>2. QED
    BY <1>6, <2>1 DEF Stop, Crash, Evict
<1>7. ASSUME NEW assignment \in [Partitions -> Workers], Rebalance(assignment)
      PROVE  Types'
  BY <1>7 DEF Rebalance
<1>8. QED
  BY <1>1, <1>2, <1>3, <1>4, <1>5, <1>6, <1>7 DEF Next, Step, Disturbance

\* No worker holds more records than one poll returns (KAFKA_BATCH_SIZE).
LEMMA BatchesStep ==
  ASSUME Types, BatchesBounded, Next
  PROVE  BatchesBounded'
<1>1. Cardinality({}) <= MaxPollRecords
  BY FS_EmptySet, BoundsAssumption
<1>2. \/ batch' = batch
      \/ \E w \in Workers : batch' = [batch EXCEPT ![w] = {}]
      \/ \E w \in Workers : \E S : /\ batch' = [batch EXCEPT ![w] = S]
                                   /\ Cardinality(S) <= MaxPollRecords
  <2> USE DEF topics
  <2>1. ASSUME NEW w \in Workers, Step(w)
        PROVE  \/ batch' = batch
               \/ \E S : batch' = [batch EXCEPT ![w] = S] /\ Cardinality(S) <= MaxPollRecords
    BY <1>1, <2>1 DEF Step, Initialize, Poll, IngestSucceeds, GiveUp, Publish, Commit,
                      CommitRefused, Leave, Restart, Exit
  <2>2. ASSUME NEW w \in Workers, Disturbance(w)
        PROVE  batch' = batch \/ batch' = [batch EXCEPT ![w] = {}]
    BY <2>2 DEF Disturbance, IngestFails, PublishFails, CommitUnanswered, Stop, Crash, Evict, Exit
  <2>3. QED
    BY <2>1, <2>2 DEF Next, Rebalance
<1>3. QED
  BY <1>1, <1>2 DEF BatchesBounded, Types

\* A commit by a member publishes only offsets below which everything is handled.
LEMMA CommitHandled ==
  ASSUME Types, MemberInv, BatchInv, CommittedIsHandled,
         NEW w \in members, pc[w] = "committing", CommitPositions(w),
         UNCHANGED <<stored, deadLetters>>
  PROVE  /\ CommittedIsHandled'
         /\ \A p \in Partitions : committed'[p] >= committed[p]
<1>1. w \in Workers /\ Owned(w) = {p \in Partitions : owner[p] = w}
  BY DEF Types, Owned
<1>2. \A p \in Partitions :
        committed'[p] = IF owner[p] = w THEN position[w][p] ELSE committed[p]
  BY <1>1 DEF CommitPositions
<1>3. batch[w] \subseteq stored /\ \A r \in Invalid(batch[w]) : deadLetters[r] >= 1
  BY <1>1 DEF BatchInv
<1>4. ASSUME NEW r \in Records, r[2] < committed'[r[1]]
      PROVE  r \in stored' /\ (r \in InvalidRecords => deadLetters'[r] >= 1)
  <2>1. r[1] \in Partitions /\ r[2] \in Nat /\ committed[r[1]] \in Nat
    BY RecordParts DEF Types
  <2>2. CASE r[2] < committed[r[1]]
    BY <2>2 DEF CommittedIsHandled
  <2>3. CASE committed[r[1]] <= r[2] /\ owner[r[1]] = w
    <3>1. r[2] < position[w][r[1]]
      BY <1>2, <1>4, <2>1, <2>3
    <3>2. r \in batch[w]
      BY <2>1, <2>3, <3>1 DEF MemberInv
    <3>3. QED
      BY <1>3, <3>2 DEF Invalid
  <2>4. QED
    BY <1>2, <1>4, <2>1, <2>2, <2>3
<1>5. \A p \in Partitions : committed'[p] >= committed[p]
  BY <1>1, <1>2 DEF MemberInv, Types
<1>6. QED
  BY <1>4, <1>5 DEF CommittedIsHandled

\* The steps of a worker that commit nothing.
LEMMA WorkSteps ==
  ASSUME Types, MemberInv, BatchInv, NEW w \in Workers
  PROVE  (\/ Initialize(w)
          \/ \E upto \in Offsets : Poll(w, upto)
          \/ IngestSucceeds(w)
          \/ \E part \in SUBSET batch[w] : IngestFails(w, part)
          \/ Publish(w)
          \/ Stop(w)
          \/ Restart(w)
          \/ Evict(w))
         => MemberInv' /\ BatchInv'
<1> USE DEF Types, group, topics, Goto, Fault
<1>1. ASSUME Initialize(w) \/ Restart(w)
      PROVE  MemberInv' /\ BatchInv'
  <2>1. w \notin members
    BY <1>1 DEF Initialize, Restart, MemberInv, Busy
  <2>2. /\ UNCHANGED <<committed, members, owner, stored, deadLetters, position, batch>>
        /\ \A v \in Workers \ {w} : pc'[v] = pc[v]
        /\ pc'[w] \notin {"publishing", "committing"}
    BY <1>1 DEF Initialize, Restart
  <2>3. MemberInv'
    BY <2>1, <2>2 DEF MemberInv, Busy
  <2>4. ASSUME NEW v \in Workers
        PROVE  /\ pc'[v] \in {"publishing", "committing"} => batch'[v] \subseteq stored'
               /\ pc'[v] = "committing" => \A r \in Invalid(batch'[v]) : deadLetters'[r] >= 1
    <3>1. CASE v = w
      BY <2>2, <3>1
    <3>2. CASE v # w
      BY <2>2, <3>2 DEF BatchInv
    <3>3. QED
      BY <3>1, <3>2
  <2>5. QED
    BY <2>3, <2>4 DEF BatchInv
<1>2. ASSUME NEW upto \in Offsets, Poll(w, upto)
      PROVE  MemberInv' /\ BatchInv'
  <2> DEFINE polled == {r \in Records : position[w][r[1]] <= r[2] /\ r[2] < upto[r[1]]}
  <2>1. /\ UNCHANGED <<committed, members, owner, stored, deadLetters>>
        /\ pc[w] = "polling"
        /\ pc' = [pc EXCEPT ![w] = "ingesting"]
        /\ position' = [position EXCEPT ![w] = upto]
        /\ batch' = [batch EXCEPT ![w] = polled]
    BY <1>2 DEF Poll
  <2>2. BatchInv'
    BY <2>1 DEF BatchInv
  <2>3. ASSUME NEW v \in members', NEW p \in Partitions, owner'[p] = v
        PROVE  /\ pc'[v] = "polling" \/ Busy(v)'
               /\ committed'[p] <= position'[v][p]
               /\ pc'[v] = "polling" => position'[v][p] = committed'[p]
               /\ \A r \in Records : r[1] = p /\ committed'[p] <= r[2] /\ r[2] < position'[v][p]
                                       => r \in batch'[v]
    <3>1. CASE v = w
      <4>1. position[w][p] = committed[p]
        BY <2>1, <2>3, <3>1 DEF MemberInv
      <4>2. p \in Owned(w) /\ upto[p] \in position[w][p]..LogEnd[p]
        BY <1>2, <2>1, <2>3, <3>1 DEF Poll, Owned
      <4>3. position[w][p] \in Nat /\ LogEnd[p] \in Nat
        BY LogAssumption
      <4>4. pc'[v] = "ingesting" /\ position'[v] = upto /\ batch'[v] = polled
        BY <2>1, <3>1
      <4>5. committed'[p] <= position'[v][p]
        BY <2>1, <4>1, <4>2, <4>3, <4>4
      <4>6. \A r \in Records : r[1] = p /\ committed'[p] <= r[2] /\ r[2] < position'[v][p]
                                 => r \in batch'[v]
        BY <2>1, <4>1, <4>4
      <4>7. QED
        BY <4>4, <4>5, <4>6 DEF Busy
    <3>2. CASE v # w
      BY <2>1, <2>3, <3>2 DEF MemberInv, Busy
    <3>3. QED
      BY <3>1, <3>2
  <2>4. \A v \in members' : pc'[v] = "polling" \/ Busy(v)'
    BY <2>1 DEF MemberInv, Busy
  <2>5. QED
    BY <2>2, <2>3, <2>4 DEF MemberInv
<1>3. ASSUME IngestSucceeds(w)
      PROVE  MemberInv' /\ BatchInv'
  <2>1. MemberInv'
    BY <1>3 DEF IngestSucceeds, MemberInv, Busy
  <2>2. BatchInv'
    BY <1>3 DEF IngestSucceeds, BatchInv
  <2>3. QED
    BY <2>1, <2>2
<1>4. ASSUME NEW part \in SUBSET batch[w], IngestFails(w, part)
      PROVE  MemberInv' /\ BatchInv'
  <2>1. MemberInv'
    BY <1>4 DEF IngestFails, MemberInv, Busy
  <2>2. BatchInv'
    BY <1>4 DEF IngestFails, BatchInv
  <2>3. QED
    BY <2>1, <2>2
<1>5. ASSUME Publish(w)
      PROVE  MemberInv' /\ BatchInv'
  <2>1. MemberInv'
    BY <1>5 DEF Publish, MemberInv, Busy
  <2>2. /\ \A r \in Records : deadLetters'[r] >= deadLetters[r]
        /\ \A r \in Records \cap Invalid(batch[w]) : deadLetters'[r] >= 1
        /\ deadLetters' \in [Records -> Nat]
    BY <1>5, DeliverGrows DEF Publish
  <2>3. ASSUME NEW v \in Workers
        PROVE  /\ pc'[v] \in {"publishing", "committing"} => batch'[v] \subseteq stored'
               /\ pc'[v] = "committing" => \A r \in Invalid(batch'[v]) : deadLetters'[r] >= 1
    <3>1. batch' = batch /\ stored' = stored /\ batch[v] \subseteq Records
      BY <1>5 DEF Publish
    <3>2. CASE v = w
      BY <1>5, <2>2, <3>1, <3>2 DEF Publish, BatchInv, Invalid
    <3>3. CASE v # w
      <4>1. pc'[v] = pc[v]
        BY <1>5, <3>3 DEF Publish
      <4>2. \A r \in Invalid(batch[v]) : deadLetters[r] >= 1 => deadLetters'[r] >= 1
        <5>1. \A r \in Invalid(batch[v]) : r \in Records
          BY <3>1 DEF Invalid
        <5>2. QED
          BY <2>2, <5>1
      <4>3. QED
        BY <3>1, <4>1, <4>2 DEF BatchInv
    <3>4. QED
      BY <3>2, <3>3
  <2>4. QED
    BY <2>1, <2>3 DEF BatchInv
<1>6. ASSUME Stop(w) \/ Evict(w)
      PROVE  MemberInv' /\ BatchInv'
  <2>1. MemberInv'
    BY <1>6 DEF Stop, Evict, MemberInv, Busy
  <2>2. BatchInv'
    BY <1>6 DEF Stop, Evict, BatchInv
  <2>3. QED
    BY <2>1, <2>2
<1>7. QED
  BY <1>1, <1>2, <1>3, <1>4, <1>5, <1>6

\* The steps of a worker that commit, or that end its main().
LEMMA LastSteps ==
  ASSUME Types, MemberInv, BatchInv, CommittedIsHandled, NEW w \in Workers
  PROVE  (\/ Commit(w)
          \/ CommitUnanswered(w)
          \/ CommitRefused(w)
          \/ \E delivered \in SUBSET batch[w] : PublishFails(w, delivered)
          \/ GiveUp(w)
          \/ Leave(w)
          \/ Crash(w))
         => MemberInv' /\ BatchInv' /\ CommittedIsHandled'
<1>1. \A r \in Records : deadLetters[r] \in Nat
  BY DEF Types
<1>2. ASSUME Commit(w)
      PROVE  MemberInv' /\ BatchInv' /\ CommittedIsHandled'
  <2>1. /\ w \in members /\ pc[w] = "committing"
        /\ CommitPositions(w)
        /\ UNCHANGED <<members, owner, stored, deadLetters, position>>
        /\ pc' = [pc EXCEPT ![w] = "polling"]
        /\ batch' = [batch EXCEPT ![w] = {}]
    BY <1>2 DEF Commit, topics, Goto
  <2>2. CommittedIsHandled'
    BY <2>1, CommitHandled
  <2>3. \A p \in Partitions :
          committed'[p] = IF owner[p] = w THEN position[w][p] ELSE committed[p]
    BY <2>1 DEF CommitPositions, Owned
  <2>4. ASSUME NEW v \in members', NEW p \in Partitions, owner'[p] = v
        PROVE  /\ committed'[p] <= position'[v][p]
               /\ pc'[v] = "polling" => position'[v][p] = committed'[p]
               /\ \A r \in Records : r[1] = p /\ committed'[p] <= r[2] /\ r[2] < position'[v][p]
                                       => r \in batch'[v]
    <3>1. CASE v = w
      <4>1. committed'[p] = position[w][p] /\ position[w][p] \in Nat /\ position'[v][p] = position[w][p]
        BY <2>1, <2>3, <2>4, <3>1 DEF Types
      <4>2. ASSUME NEW r \in Records, committed'[p] <= r[2], r[2] < position'[v][p]
            PROVE  FALSE
        BY <4>1, <4>2, RecordParts
      <4>3. QED
        BY <4>1, <4>2
    <3>2. CASE v # w
      BY <2>1, <2>3, <2>4, <3>2 DEF MemberInv, Types
    <3>3. QED
      BY <3>1, <3>2
  <2>5. \A v \in members' : pc'[v] = "polling" \/ Busy(v)'
    BY <2>1 DEF MemberInv, Busy, Types
  <2>6. MemberInv'
    BY <2>4, <2>5 DEF MemberInv
  <2>7. BatchInv'
    BY <2>1 DEF BatchInv, Types
  <2>8. QED
    BY <2>2, <2>6, <2>7
<1>3. ASSUME CommitUnanswered(w)
      PROVE  MemberInv' /\ BatchInv' /\ CommittedIsHandled'
  <2>1. /\ w \in members /\ pc[w] = "committing"
        /\ CommitPositions(w)
        /\ Exit(w)
        /\ UNCHANGED <<owner, stored, deadLetters, position>>
    BY <1>3 DEF CommitUnanswered, topics
  <2>2. CommittedIsHandled'
    BY <2>1, CommitHandled
  <2>3. /\ pc' = [pc EXCEPT ![w] = "down"]
        /\ members' = members \ {w}
        /\ batch' = [batch EXCEPT ![w] = {}]
    BY <2>1 DEF Exit, Goto
  <2>4. \A p \in Partitions : owner[p] # w => committed'[p] = committed[p]
    BY <2>1 DEF CommitPositions, Owned
  <2>5. MemberInv'
    BY <2>1, <2>3, <2>4 DEF MemberInv, Busy, Types
  <2>6. BatchInv'
    BY <2>1, <2>3 DEF BatchInv, Types
  <2>7. QED
    BY <2>2, <2>5, <2>6
<1>4. ASSUME CommitRefused(w) \/ GiveUp(w) \/ Leave(w) \/ Crash(w)
      PROVE  MemberInv' /\ BatchInv' /\ CommittedIsHandled'
  <2>1. Exit(w) /\ UNCHANGED <<committed, owner, stored, deadLetters, position>>
    BY <1>4 DEF CommitRefused, GiveUp, Leave, Crash, topics
  <2>2. \A r \in Records : deadLetters'[r] >= deadLetters[r] /\ deadLetters'[r] \in Nat
    BY <1>1, <2>1
  <2>3. QED
    BY <2>1, <2>2, ExitHandled, HandledGrows
<1>5. ASSUME NEW delivered \in SUBSET batch[w], PublishFails(w, delivered)
      PROVE  MemberInv' /\ BatchInv' /\ CommittedIsHandled'
  <2>1. /\ Exit(w)
        /\ UNCHANGED <<committed, owner, stored, position>>
        /\ Deliver(delivered)
    BY <1>5 DEF PublishFails
  <2>2. \A r \in Records : deadLetters'[r] >= deadLetters[r] /\ deadLetters'[r] \in Nat
    BY <2>1, DeliverGrows
  <2>3. QED
    BY <2>1, <2>2, ExitHandled, HandledGrows
<1>6. QED
  BY <1>2, <1>3, <1>4, <1>5

\* A rebalance lets every member start at the committed offsets.
LEMMA RebalanceStep ==
  ASSUME Types, MemberInv, BatchInv, CommittedIsHandled,
         NEW assignment \in [Partitions -> Workers], Rebalance(assignment)
  PROVE  MemberInv' /\ BatchInv' /\ CommittedIsHandled'
<1>1. /\ UNCHANGED <<committed, stored, deadLetters, pc, batch>>
      /\ members' = {w \in Workers : pc[w] = "polling"}
      /\ \A w \in members' : position'[w] = committed
  BY DEF Rebalance, topics
<1>2. BatchInv' /\ CommittedIsHandled'
  BY <1>1 DEF BatchInv, CommittedIsHandled
<1>3. ASSUME NEW r \in Records, NEW p \in Partitions, r[1] = p,
             committed[p] <= r[2], r[2] < committed[p]
      PROVE  FALSE
  BY <1>3, RecordParts DEF Types
<1>4. MemberInv'
  <2>1. \A w \in members' : pc'[w] = "polling"
    BY <1>1
  <2>2. \A w \in members' : \A p \in Partitions :
          committed'[p] = committed[p] /\ position'[w][p] = committed[p] /\ committed[p] \in Nat
    BY <1>1 DEF Types
  <2>3. QED
    BY <1>3, <2>1, <2>2 DEF MemberInv
<1>5. QED
  BY <1>2, <1>4

LEMMA HandledStep == HandledInv /\ [Next]_vars => HandledInv'
<1> SUFFICES ASSUME HandledInv, [Next]_vars PROVE HandledInv'
  OBVIOUS
<1> USE DEF HandledInv
<1>1. CASE Next
  <2>1. Types' /\ BatchesBounded'
    BY <1>1, TypesStep, BatchesStep
  <2>2. ASSUME NEW w \in Workers,
               \/ Initialize(w)
               \/ \E upto \in Offsets : Poll(w, upto)
               \/ IngestSucceeds(w)
               \/ \E part \in SUBSET batch[w] : IngestFails(w, part)
               \/ Publish(w)
               \/ Stop(w)
               \/ Restart(w)
               \/ Evict(w)
        PROVE  MemberInv' /\ BatchInv' /\ CommittedIsHandled'
    <3>1. MemberInv' /\ BatchInv'
      BY <2>2, WorkSteps
    <3>2. committed' = committed /\ stored \subseteq stored'
      BY <2>2 DEF Initialize, Poll, IngestSucceeds, IngestFails, Publish, Stop, Restart, Evict,
                  group, topics
    <3>3. deadLetters' = deadLetters \/ \E S : Deliver(S)
      BY <2>2 DEF Initialize, Poll, IngestSucceeds, IngestFails, Publish, Stop, Restart, Evict,
                  topics
    <3>4. \A r \in Records : deadLetters'[r] >= deadLetters[r] /\ deadLetters'[r] \in Nat
      BY <3>3, DeliverGrows DEF Types
    <3>5. QED
      BY <3>1, <3>2, <3>4, HandledGrows
  <2>3. ASSUME NEW w \in Workers,
               \/ Commit(w)
               \/ CommitUnanswered(w)
               \/ CommitRefused(w)
               \/ \E delivered \in SUBSET batch[w] : PublishFails(w, delivered)
               \/ GiveUp(w)
               \/ Leave(w)
               \/ Crash(w)
        PROVE  MemberInv' /\ BatchInv' /\ CommittedIsHandled'
    BY <2>3, LastSteps
  <2>4. ASSUME NEW assignment \in [Partitions -> Workers], Rebalance(assignment)
        PROVE  MemberInv' /\ BatchInv' /\ CommittedIsHandled'
    BY <2>4, RebalanceStep
  <2>5. MemberInv' /\ BatchInv' /\ CommittedIsHandled'
    BY <1>1, <2>2, <2>3, <2>4 DEF Next, Step, Disturbance
  <2>6. QED
    BY <2>1, <2>5
<1>2. CASE UNCHANGED vars
  BY <1>2 DEF vars, group, topics, Types, BatchesBounded, MemberInv, BatchInv,
              CommittedIsHandled, Busy
<1>3. QED
  BY <1>1, <1>2

\* The variables keep their types, and no worker holds more than KAFKA_BATCH_SIZE records.
THEOREM TypeCorrect == Spec => []TypeOK
<1>1. HandledInv => TypeOK
  BY DEF HandledInv, Types, BatchesBounded, TypeOK
<1>2. QED
  BY <1>1, InitHandled, HandledStep, PTL DEF Spec

\* However workers crash, are stopped, evicted and replaced, a committed offset never
\* covers a record that is not stored or, when invalid, not dead-lettered (worker.py main).
THEOREM NothingLost == Spec => []CommittedIsHandled
<1>1. HandledInv => CommittedIsHandled
  BY DEF HandledInv
<1>2. QED
  BY <1>1, InitHandled, HandledStep, PTL DEF Spec

\* No commit, of an evicted worker or of its replacement, moves a committed offset back.
THEOREM NoReplayOfCommitted == Spec => OffsetsNeverRegress
<1>1. HandledInv /\ [Next]_vars => [\A p \in Partitions : committed'[p] >= committed[p]]_committed
  <2> SUFFICES ASSUME HandledInv, [Next]_vars, committed' # committed
               PROVE  \A p \in Partitions : committed'[p] >= committed[p]
    OBVIOUS
  <2>1. Next
    BY DEF vars, group
  <2>2. PICK w \in Workers : Commit(w) \/ CommitUnanswered(w)
    BY <2>1 DEF Next, Step, Disturbance, Rebalance, Initialize, Poll, IngestSucceeds, GiveUp,
                Publish, CommitRefused, Leave, Restart, IngestFails, PublishFails, Stop, Crash,
                Evict, group
  <2>3. /\ w \in members /\ pc[w] = "committing"
        /\ CommitPositions(w)
        /\ UNCHANGED <<stored, deadLetters>>
    BY <2>2 DEF Commit, CommitUnanswered, topics
  <2>4. QED
    BY <2>3, CommitHandled DEF HandledInv
<1>2. QED
  BY <1>1, InitHandled, HandledStep, PTL DEF Spec, OffsetsNeverRegress

===============================================================================
