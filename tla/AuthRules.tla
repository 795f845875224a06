------------------------------- MODULE AuthRules -------------------------------
(***************************************************************************)
(* evaluate (src/ulpf/detection/rules.py): one pass over the logons in     *)
(* time order that keeps, for each scope and user, the queue of recent     *)
(* failures with a counter of their timestamps, and for each scope the     *)
(* queue of recent failures with a counter of their users.                 *)
(***************************************************************************)
EXTENDS AuthFindings, Sequences

CONSTANTS
  Inputs,         \* the sets of logons evaluate may be given
  Times,          \* the timestamps that occur
  Scopes, Users,  \* hosts, services and addresses; user names
  NoUser,         \* a user name that is empty: the event is not eligible
  Start, End,     \* the range that is scanned
  MaxEvents,      \* config.max_events
  EvidenceLimit   \* config.evidence_limit

ASSUME RangeAssumption == Start \in Int /\ End \in Int /\ Start < End
ASSUME LimitsAssumption == MaxEvents \in Nat \ {0} /\ EvidenceLimit \in Nat \ {0, 1}

\* A logon has the id of one row of application_logs, and no other logon has it.
ASSUME LogonsAssumption ==
  /\ Times \subseteq Int
  /\ \A S \in Inputs :
       /\ IsFiniteSet(S)
       /\ \A e \in S : /\ e.id \in Int /\ e.time \in Times
                       /\ e.scope \in Scopes /\ e.user \in Users \cup {NoUser}
       /\ \A e, f \in S : e.id = f.id => e = f

Pairs == Scopes \X Users

VARIABLES
  input,     \* the argument events
  ordered,   \* the eligible ones, sorted
  next,      \* index of the event the loop looks at
  previous,  \* pairs: scope and user -> queue of failures
  times,     \* pair_times: scope and user -> timestamp -> failures in the queue
  source,    \* sources: scope -> queue of failures
  distinct,  \* users: scope -> user -> failures in the queue
  findings,  \* findings, with the sampled evidence
  ended      \* "no", "returned" or "raised"

queues == <<previous, times, source, distinct>>
vars == <<input, ordered, next, queues, findings, ended>>

Eligible(e) == e.status \in {1, 2} /\ e.user # NoUser

Sorted(S) ==
  [i \in 1..Cardinality(S) |->
     CHOOSE e \in S : Cardinality({f \in S : Before(f, e)}) = i - 1]

Pair(e) == <<e.scope, e.user>>

\* (variant) The window is open at its older end.
ExpiredEarly(queue, cutoff) ==
  CHOOSE k \in 0..Len(queue) :
    /\ \A i \in 1..k : queue[i].time <= cutoff
    /\ k < Len(queue) => queue[k + 1].time > cutoff

\* popleft while the head is older than cutoff.
Expired(queue, cutoff) ==
  CHOOSE k \in 0..Len(queue) :
    /\ \A i \in 1..k : queue[i].time < cutoff
    /\ k < Len(queue) => queue[k + 1].time >= cutoff

Pop(queue, cutoff) == SubSeq(queue, Expired(queue, cutoff) + 1, Len(queue))
Popped(queue, cutoff) == {queue[i] : i \in 1..Expired(queue, cutoff)}

Take(queue, n) == SubSeq(queue, 1, IF n < Len(queue) THEN n ELSE Len(queue))

\* The first event of each user, in the order of the queue.
Representatives(queue) ==
  LET isFirst == {i \in DOMAIN queue : \A j \in 1..(i - 1) : queue[j].user # queue[i].user}
  IN  [n \in 1..Cardinality(isFirst) |->
         queue[CHOOSE i \in isFirst : Cardinality({j \in isFirst : j < i}) = n - 1]]

\* (variant) The trigger is added to a sample that is full already.
FullSample(rule, trigger, evidence, count) == Append(Take(evidence, EvidenceLimit), trigger)

\* The events kept as evidence: the oldest ones, and the trigger.
Sample(rule, trigger, evidence, count) ==
  LET matching == count - (IF trigger.status = 1 THEN 1 ELSE 0)
      sample == IF rule = "password_spray"
                THEN Take(Representatives(evidence), EvidenceLimit - 1)
                ELSE Take(evidence, IF matching < EvidenceLimit THEN matching ELSE EvidenceLimit - 1)
  IN  IF \E i \in DOMAIN sample : sample[i] = trigger
      THEN sample
      ELSE Append(sample, trigger)

\* emit: nothing when the identity is taken.
Emit(found, rule, trigger, evidence, count) ==
  IF \E f \in found : f.identity = Identity(rule, trigger)
  THEN found
  ELSE found \cup
         {[identity |-> Identity(rule, trigger),
           count |-> count,
           first |-> evidence[1].time,
           last |-> trigger.time,
           trigger |-> trigger,
           evidence |-> Sample(rule, trigger, evidence, count)]}

-------------------------------------------------------------------------------
Init ==
  /\ input \in Inputs
  /\ ordered = Sorted({e \in input : Eligible(e)})
  /\ next = 1
  /\ previous = [p \in Pairs |-> <<>>]
  /\ times = [p \in Pairs |-> [t \in Times |-> 0]]
  /\ source = [s \in Scopes |-> <<>>]
  /\ distinct = [s \in Scopes |-> [u \in Users |-> 0]]
  /\ findings = {}
  /\ ended = "no"

\* "Detection input exceeds max_events": raised before anything is looked at.
RefuseInput ==
  /\ ended = "no"
  /\ Cardinality(input) > MaxEvents
  /\ ended' = "raised"
  /\ UNCHANGED <<input, ordered, next, queues, findings>>

Looking(e) ==
  /\ ended = "no"
  /\ Cardinality(input) <= MaxEvents
  /\ next <= Len(ordered)
  /\ e = ordered[next]
  /\ next' = next + 1
  /\ UNCHANGED <<input, ordered, ended>>

\* An event outside of the range and of the window before it.
Skip(e) ==
  /\ Looking(e)
  /\ e.time < Start - Window \/ e.time >= End
  /\ UNCHANGED <<queues, findings>>

\* The queues and counters e looks at, after what is older than the window has left.
Purge(e) ==
  LET cutoff == e.time - Window
      old == Popped(previous[Pair(e)], cutoff)
      gone == Popped(source[e.scope], cutoff)
  IN  [queue |-> Pop(previous[Pair(e)], cutoff),
       byTime |-> [t \in Times |->
                     times[Pair(e)][t] - Cardinality({f \in old : f.time = t})],
       all |-> Pop(source[e.scope], cutoff),
       byUser |-> [u \in Users |->
                     distinct[e.scope][u] - Cardinality({f \in gone : f.user = u})]]

Keep(e, recent) ==
  /\ previous' = [previous EXCEPT ![Pair(e)] = recent.queue]
  /\ times' = [times EXCEPT ![Pair(e)] = recent.byTime]
  /\ source' = [source EXCEPT ![e.scope] = recent.all]
  /\ distinct' = [distinct EXCEPT ![e.scope] = recent.byUser]

Failure(e) ==
  /\ Looking(e)
  /\ e.status = 2
  /\ Start - Window <= e.time
  /\ e.time < End
  /\ LET purged == Purge(e)
         recent == [queue |-> Append(purged.queue, e),
                    byTime |-> [purged.byTime EXCEPT ![e.time] = @ + 1],
                    all |-> Append(purged.all, e),
                    byUser |-> [purged.byUser EXCEPT ![e.user] = @ + 1]]
         repeated == IF Len(recent.queue) >= FailureThreshold
                     THEN Emit(findings, "repeated_failures", e, recent.queue, Len(recent.queue))
                     ELSE findings
         spray == IF Cardinality({u \in Users : recent.byUser[u] > 0}) >= SprayThreshold
                  THEN Emit(repeated, "password_spray", e, recent.all, Len(recent.all))
                  ELSE repeated
     IN  /\ Keep(e, recent)
         /\ findings' = IF e.time < Start THEN findings ELSE spray

Success(e) ==
  /\ Looking(e)
  /\ e.status = 1
  /\ Start - Window <= e.time
  /\ e.time < End
  /\ LET recent == Purge(e)
         earlier == Len(recent.queue) - recent.byTime[e.time]
     IN  /\ Keep(e, recent)
         /\ findings' = IF e.time >= Start /\ earlier >= FailureThreshold
                        THEN Emit(findings, "success_after_failures", e, recent.queue, earlier + 1)
                        ELSE findings

Finish ==
  /\ ended = "no"
  /\ Cardinality(input) <= MaxEvents
  /\ next > Len(ordered)
  /\ ended' = "returned"
  /\ UNCHANGED <<input, ordered, next, queues, findings>>

Next ==
  \/ RefuseInput
  \/ \E e \in input : Skip(e) \/ Failure(e) \/ Success(e)
  \/ Finish

Spec == Init /\ [][Next]_vars

-------------------------------------------------------------------------------
(***************************************************************************)
(* Properties.                                                             *)
(***************************************************************************)

\* What evaluate returns is what the rules find in all the logons ever recorded, with
\* their count and times: no logon outside of the range and the window before it makes a
\* difference, and equal timestamps establish no order (docs/detection.md).
FindsWhatTheRulesSay ==
  ended = "returned" =>
    {[identity |-> f.identity, count |-> f.count, first |-> f.first, last |-> f.last] : f \in findings}
      = Findings({e \in input : Eligible(e)}, Start, End)

\* The evidence of a finding are failures the rule counted and its trigger, none twice,
\* within the limit; unless it is marked as truncated, it is all of them; and a spray
\* shows as many users as the limit leaves room for.
EvidenceSupportsFinding ==
  \A f \in findings :
    LET counted == Counted(f.identity.rule, {e \in input : Eligible(e)}, f.trigger)
        shown == {f.evidence[i] : i \in DOMAIN f.evidence}
        userCount(S) == Cardinality({e.user : e \in S})
    IN  /\ f.trigger \in shown
        /\ shown \subseteq counted \cup {f.trigger}
        /\ Cardinality(shown) = Len(f.evidence)
        /\ Len(f.evidence) <= EvidenceLimit
        /\ f.count <= Len(f.evidence) => shown = counted \cup {f.trigger}
        /\ f.identity.rule = "password_spray" =>
             userCount(shown) >= (IF userCount(counted) < EvidenceLimit
                                  THEN userCount(counted) ELSE EvidenceLimit - 1)
===============================================================================
