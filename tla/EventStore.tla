------------------------------ MODULE EventStore ------------------------------
(***************************************************************************)
(* What an ingestion backend promises its callers, whatever the backend:   *)
(* an event is stored at most once in each event table, a normalized or    *)
(* quarantined event always has its raw original beside it, nothing that   *)
(* was stored is taken away, and a caller is told that a batch is stored   *)
(* only when every event of it is.                                         *)
(*                                                                         *)
(* TrinoIngest (a commit per table) and DuckIngest (one for all tables)    *)
(* implement this specification.  The contract is the one that             *)
(* services/backend.py declares for ingest_events; docs/operations.md      *)
(* states it ("every event ID is deterministic", "without duplicating      *)
(* completed rows").                                                       *)
(***************************************************************************)
EXTENDS Naturals

CONSTANTS
  EventIds,   \* the deterministic event identifiers
  Tables,     \* the event tables
  RawTable    \* the table of originals

VARIABLES
  copies,        \* copies[t][id]: rows of table t that carry this event id
  acknowledged   \* the event ids some caller was told are stored

storeVars == <<copies, acknowledged>>

StoreInit ==
  /\ copies = [t \in Tables |-> [id \in EventIds |-> 0]]
  /\ acknowledged = {}

\* A commit: rows are added, never a second of an id, never one without its original.
Store ==
  /\ copies' \in [Tables -> [EventIds -> {0, 1}]]
  /\ \A t \in Tables, id \in EventIds :
       /\ copies'[t][id] >= copies[t][id]
       /\ copies'[t][id] = 1 => copies'[RawTable][id] = 1
  /\ UNCHANGED acknowledged

\* A caller learns that a batch is stored: raw, and in a table of its class.
Acknowledge ==
  /\ acknowledged \subseteq acknowledged'
  /\ \A id \in acknowledged' : \E t \in Tables \ {RawTable} :
       copies[t][id] = 1 /\ copies[RawTable][id] = 1
  /\ UNCHANGED copies

StoreSpec == StoreInit /\ [][Store \/ Acknowledge]_storeVars
===============================================================================
