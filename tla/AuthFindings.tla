----------------------------- MODULE AuthFindings -----------------------------
(***************************************************************************)
(* What the three authentication rules (src/ulpf/detection/rules.py) find  *)
(* in a set of logons, without the queues and counters by which evaluate   *)
(* finds it: AuthRules is that loop and is compared with these             *)
(* definitions; DetectionScan uses them for a call of evaluate.            *)
(*                                                                         *)
(* A logon is a record [id, time, scope, user, status]: scope stands for   *)
(* hostname, service and source address, status is 1 (success) or 2        *)
(* (failure), and ids are ordered as the event_id strings are.             *)
(***************************************************************************)
EXTENDS Integers, FiniteSets

CONSTANTS
  Window,            \* config.window_seconds
  FailureThreshold,  \* config.failure_threshold
  SprayThreshold     \* config.spray_threshold

ASSUME SettingsAssumption ==
  /\ Window \in Nat \ {0}
  /\ FailureThreshold \in Nat \ {0, 1}
  /\ SprayThreshold \in Nat \ {0, 1}

Rules == {"repeated_failures", "password_spray", "success_after_failures"}

\* The order of ordered: by timestamp, then by event_id.
Before(e, f) == e.time < f.time \/ (e.time = f.time /\ e.id < f.id)

\* The failed logons of e's scope that are in the window when e is looked at.
WindowFailures(S, e) ==
  {f \in S : /\ f.status = 2
             /\ f.scope = e.scope
             /\ f.time >= e.time - Window
             /\ f = e \/ Before(f, e)}

\* The failures by which a rule judges e: those of its user, for a success only the
\* strictly earlier ones, or those of the whole scope.
Counted(rule, S, e) ==
  {f \in WindowFailures(S, e) :
     /\ rule # "password_spray" => f.user = e.user
     /\ rule = "success_after_failures" => f.time < e.time}

Fires(rule, S, e) ==
  \/ /\ rule = "repeated_failures"
     /\ e.status = 2
     /\ Cardinality(Counted(rule, S, e)) >= FailureThreshold
  \/ /\ rule = "password_spray"
     /\ e.status = 2
     /\ Cardinality({f.user : f \in Counted(rule, S, e)}) >= SprayThreshold
  \/ /\ rule = "success_after_failures"
     /\ e.status = 1
     /\ Cardinality(Counted(rule, S, e)) >= FailureThreshold

\* The hashed identity: rule, scope, subject and bucket (version, window and threshold
\* are constants here).
NoSubject == "none"
Identity(rule, e) ==
  [rule |-> rule,
   scope |-> e.scope,
   subject |-> IF rule = "password_spray" THEN NoSubject ELSE e.user,
   bucket |-> e.time \div Window]

\* The first logon in [start, end) that fires the rule in its bucket makes the finding.
FirstTrigger(rule, S, e, start) ==
  /\ Fires(rule, S, e)
  /\ \A f \in S :
       f.time >= start /\ Before(f, e) /\ Identity(rule, f) = Identity(rule, e)
         => ~ Fires(rule, S, f)

FirstSeen(rule, S, e) ==
  LET times == {f.time : f \in Counted(rule, S, e)}
  IN  CHOOSE t \in times : \A u \in times : t <= u

Finding(rule, S, e) ==
  [identity |-> Identity(rule, e),
   count |-> Cardinality(Counted(rule, S, e)) + (IF e.status = 1 THEN 1 ELSE 0),
   first |-> FirstSeen(rule, S, e),
   last |-> e.time]

Findings(S, start, end) ==
  LET triggers(rule) == {e \in S : /\ e.time >= start
                                   /\ e.time < end
                                   /\ FirstTrigger(rule, S, e, start)}
  IN  UNION {{Finding(rule, S, e) : e \in triggers(rule)} : rule \in Rules}
===============================================================================
