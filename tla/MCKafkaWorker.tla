----------------------------- MODULE MCKafkaWorker -----------------------------
(***************************************************************************)
(* Instances of KafkaWorker for TLC.                                       *)
(***************************************************************************)
EXTENDS KafkaWorker

CONSTANTS w1, w2, p1, p2

MCWorkers == {w1, w2}
MCPartitions == {p1, p2}
MCLogEnd == [p \in Partitions |-> 2]
MCInvalid == {<<p1, 1>>}
NoneRefused == {}

\* One partition of three records: the first is too large to store, the second invalid.
OnePartition == {p1}
OneWorker == {w1}
OneLogEnd == [p \in OnePartition |-> 3]
FirstRefused == {<<p1, 0>>}
===============================================================================
