---------------------------- MODULE MCDetectionScan ----------------------------
(***************************************************************************)
(* Instances of DetectionScan for TLC.                                     *)
(***************************************************************************)
EXTENDS DetectionScan

Logon(id, t, user, status) ==
  [id |-> id, time |-> t, scope |-> "h", user |-> user, status |-> status]

\* Failures of u and of v in one bucket: where a scan begins decides which of them is the
\* trigger, and what it counts.  A later and an older logon make the scan of instant 1 too
\* large; that of instant 2 no longer reads the older one.
Failures ==
  {{Logon(1, -2, "u", 2), Logon(2, -2, "v", 2), Logon(3, -1, "u", 2)},
   {Logon(4, -3, "w", 1), Logon(5, 0, "u", 2)}}

PastRanges == {[since |-> -1, until |-> 1]}
===============================================================================
