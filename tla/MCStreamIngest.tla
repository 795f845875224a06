----------------------------- MODULE MCStreamIngest -----------------------------
(***************************************************************************)
(* StreamIngest for TLC: one partition, its second record invalid.          *)
(***************************************************************************)
EXTENDS StreamIngest, TLC

CONSTANTS w1, w2, p1

MCWorkers == {w1, w2}
MCPartitions == {p1}
MCLogEnd == [p \in MCPartitions |-> 2]
MCInvalid == {<<p1, 1>>}
WorkerSymmetry == Permutations(MCWorkers)
===============================================================================
