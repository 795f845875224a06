------------------------- MODULE DetectionScanProofs -------------------------
(***************************************************************************)
(* Proofs about DetectionScan, for any logons, uploads, scanners, ranges,   *)
(* intervals, conflicts, faults and left statements.                        *)
(***************************************************************************)
EXTENDS DetectionScan, FiniteSetTheorems, FunctionTheorems, WellFoundedInduction, TLAPS

-------------------------------------------------------------------------------
(***************************************************************************)
(* Logons.                                                                 *)
(***************************************************************************)

\* Sets of logons are finite, and so are the users in them.
LEMMA LogonsFinite ==
  ASSUME NEW S \in SUBSET Logons
  PROVE  IsFiniteSet(S) /\ Cardinality(S) \in Nat
BY LogonsAssumption, FS_Subset, FS_CardinalityType

LEMMA UsersFinite ==
  ASSUME NEW S \in SUBSET Logons
  PROVE  IsFiniteSet({f.user : f \in S}) /\ Cardinality({f.user : f \in S}) \in Nat
<1> DEFINE users == {f.user : f \in S}
           user == [f \in S |-> f.user]
<1>1. user \in Surjection(S, users)
  BY DEF Surjection
<1>2. IsFiniteSet(users)
  BY <1>1, LogonsFinite, FS_Surjection
<1>3. QED
  BY <1>2, FS_CardinalityType

\* The order of the logons is strict and total.
LEMMA BeforeIsStrict ==
  /\ \A e \in Logons : ~ Before(e, e)
  /\ \A e, f, g \in Logons : Before(e, f) /\ Before(f, g) => Before(e, g)
  /\ \A e, f \in Logons : e = f \/ Before(e, f) \/ Before(f, e)
BY LogonsAssumption DEF Before

\* Among any logons there is a first one.
LEMMA FirstLogon ==
  ASSUME NEW T \in SUBSET Logons, T # {}
  PROVE  \E h \in T : \A f \in T : f = h \/ Before(h, f)
<1> DEFINE P(e) == {f \in T : Before(f, e)}
           Ps == {P(e) : e \in T}
<1>1. \A e \in T : P(e) \subseteq T /\ IsFiniteSet(P(e))
  BY LogonsFinite, FS_Subset
<1>2. Ps \subseteq FiniteSubsetsOf(T) /\ Ps # {}
  BY <1>1 DEF FiniteSubsetsOf
<1>3. IsWellFoundedOn(StrictSubsetOrdering(T), FiniteSubsetsOf(T))
  BY FS_StrictSubsetOrderingWellFounded
<1>4. PICK X \in Ps : \A Y \in Ps : ~ (<<Y, X>> \in StrictSubsetOrdering(T))
  <2> HIDE DEF Ps
  <2>1. QED
    BY <1>2, <1>3, WFMin
<1>5. PICK h \in T : X = P(h)
  OBVIOUS
<1>6. ASSUME NEW f \in T, Before(f, h)
      PROVE  FALSE
  <2>1. P(f) \subseteq P(h) /\ f \in P(h) /\ f \notin P(f)
    BY <1>6, BeforeIsStrict
  <2>2. <<P(f), X>> \in StrictSubsetOrdering(T)
    BY <1>5, <2>1 DEF StrictSubsetOrdering
  <2>3. QED
    BY <1>4, <2>2
<1>7. QED
  BY <1>6, BeforeIsStrict

-------------------------------------------------------------------------------
(***************************************************************************)
(* Findings.                                                               *)
(***************************************************************************)

\* A rule counts logons of the set it is given.
LEMMA CountedSubset ==
  ASSUME NEW S, NEW rule, NEW e
  PROVE  Counted(rule, S, e) \subseteq S
BY DEF Counted, WindowFailures

\* A rule that fires keeps firing when logons are added, and when those outside of the
\* window of its trigger are left out.
LEMMA FiresWithMore ==
  ASSUME NEW S \in SUBSET Logons, NEW T \in SUBSET Logons, NEW e \in Logons, NEW rule,
         \A f \in S : f.time >= e.time - Window /\ (f = e \/ Before(f, e)) => f \in T,
         Fires(rule, S, e)
  PROVE  Fires(rule, T, e)
<1> DEFINE C == Counted(rule, S, e)
           D == Counted(rule, T, e)
<1>1. C \subseteq D
  BY DEF Counted, WindowFailures
<1>2. C \in SUBSET Logons /\ D \in SUBSET Logons
  BY CountedSubset
<1>3. Cardinality(C) <= Cardinality(D) /\ Cardinality(C) \in Nat /\ Cardinality(D) \in Nat
  BY <1>1, <1>2, LogonsFinite, FS_Subset
<1>4. /\ Cardinality({f.user : f \in C}) <= Cardinality({f.user : f \in D})
      /\ Cardinality({f.user : f \in C}) \in Nat
      /\ Cardinality({f.user : f \in D}) \in Nat
  <2>1. {f.user : f \in C} \subseteq {f.user : f \in D}
    BY <1>1
  <2>2. QED
    BY <1>2, <2>1, UsersFinite, FS_Subset
<1> HIDE DEF C, D
<1>5. QED
  BY <1>3, <1>4, SettingsAssumption DEF Fires, C, D

\* An identity names its rule, and a finding has the identity of its trigger.
LEMMA IdentityParts ==
  ASSUME NEW rule, NEW e, NEW S
  PROVE  /\ Identity(rule, e).rule = rule
         /\ Finding(rule, S, e).identity = Identity(rule, e)
BY DEF Identity, Finding

\* What a finding is: the first trigger of its bucket in the range.
LEMMA FindingTrigger ==
  ASSUME NEW S, NEW start, NEW end, NEW f
  PROVE  f \in Findings(S, start, end) <=>
           \E rule \in Rules, e \in S :
             /\ e.time >= start /\ e.time < end /\ FirstTrigger(rule, S, e, start)
             /\ f = Finding(rule, S, e)
BY DEF Findings

\* A call of evaluate finds an identity once.
LEMMA FindingsDistinct ==
  ASSUME NEW S \in SUBSET Logons, NEW start, NEW end,
         NEW f \in Findings(S, start, end), NEW g \in Findings(S, start, end),
         f.identity = g.identity
  PROVE  f = g
<1>1. PICK r1 \in Rules, e1 \in S :
        e1.time >= start /\ FirstTrigger(r1, S, e1, start) /\ f = Finding(r1, S, e1)
  BY FindingTrigger
<1>2. PICK r2 \in Rules, e2 \in S :
        e2.time >= start /\ FirstTrigger(r2, S, e2, start) /\ g = Finding(r2, S, e2)
  BY FindingTrigger
<1>3. r1 = r2 /\ Identity(r1, e1) = Identity(r1, e2)
  BY <1>1, <1>2, IdentityParts
<1>4. e1 = e2
  BY <1>1, <1>2, <1>3, BeforeIsStrict DEF FirstTrigger
<1>5. QED
  BY <1>1, <1>2, <1>3, <1>4

\* A call of evaluate finds every identity that fires in its range.
LEMMA FindingsComplete ==
  ASSUME NEW S \in SUBSET Logons, NEW start \in Int, NEW end \in Int, NEW rule \in Rules,
         NEW e \in S, start <= e.time, e.time < end, Fires(rule, S, e)
  PROVE  \E g \in Findings(S, start, end) : g.identity = Identity(rule, e)
<1> DEFINE T == {h \in S : /\ start <= h.time /\ Identity(rule, h) = Identity(rule, e)
                           /\ Fires(rule, S, h)}
<1>1. T \in SUBSET Logons /\ T # {}
  OBVIOUS
<1>2. PICK h \in T : \A f \in T : f = h \/ Before(h, f)
  BY <1>1, FirstLogon
<1>3. h.time <= e.time /\ h.time \in Int /\ e.time \in Int
  BY <1>2, LogonsAssumption DEF Before
<1>4. FirstTrigger(rule, S, h, start)
  <2> SUFFICES ASSUME NEW f \in S, f.time >= start, Before(f, h),
                      Identity(rule, f) = Identity(rule, h), Fires(rule, S, f)
               PROVE  FALSE
    BY DEF FirstTrigger
  <2>1. f \in T /\ f \in Logons /\ h \in Logons
    BY LogonsAssumption
  <2>2. f = h \/ Before(h, f)
    BY <1>2, <2>1
  <2>3. QED
    BY <2>1, <2>2, BeforeIsStrict
<1>5. Finding(rule, S, h) \in Findings(S, start, end)
  BY <1>3, <1>4, FindingTrigger
<1>6. QED
  BY <1>5, IdentityParts

\* The findings of a call are rows of the table.
LEMMA FindingsType ==
  ASSUME NEW S \in SUBSET Logons, NEW start, NEW end
  PROVE  Findings(S, start, end) \subseteq Row
<1> SUFFICES ASSUME NEW f \in Findings(S, start, end)
             PROVE  f \in Row
  OBVIOUS
<1>1. PICK rule \in Rules, e \in S : FirstTrigger(rule, S, e, start) /\ f = Finding(rule, S, e)
  BY FindingTrigger
<1> DEFINE C == Counted(rule, S, e)
<1>2. C \in SUBSET Logons /\ e \in Logons /\ e.time \in Int
  BY CountedSubset, LogonsAssumption
<1>3. IsFiniteSet(C) /\ Cardinality(C) \in Nat
  BY <1>2, LogonsFinite
<1>4. C # {}
  <2> SUFFICES ASSUME C = {} PROVE FALSE
    OBVIOUS
  <2>1. Cardinality(C) = 0 /\ Cardinality({g.user : g \in C}) = 0
    BY FS_EmptySet
  <2>2. Fires(rule, S, e)
    BY <1>1 DEF FirstTrigger
  <2> HIDE DEF C
  <2>3. QED
    BY <2>1, <2>2, SettingsAssumption DEF Fires, C
<1>5. FirstSeen(rule, S, e) \in Int
  <2> DEFINE times == {g.time : g \in C}
  <2>1. PICK h \in C : \A g \in C : g = h \/ Before(h, g)
    BY <1>2, <1>4, FirstLogon
  <2>2. \A g \in C : g.time \in Int
    BY <1>2, LogonsAssumption
  <2>3. h.time \in times /\ \A u \in times : h.time <= u
    BY <2>1, <2>2 DEF Before
  <2>4. FirstSeen(rule, S, e) \in times
    BY <2>3 DEF FirstSeen
  <2>5. QED
    BY <2>2, <2>4
<1>6. Identity(rule, e) \in [rule : Rules, scope : {x.scope : x \in Logons},
                             subject : {x.user : x \in Logons} \cup {NoSubject}, bucket : Int]
  <2>1. e.time \div Window \in Int
    BY <1>2, SettingsAssumption
  <2>2. QED
    BY <1>2, <2>1 DEF Identity
<1> HIDE DEF C
<1>7. Cardinality(C) + (IF e.status = 1 THEN 1 ELSE 0) \in Nat
  BY <1>3
<1>8. QED
  BY <1>1, <1>2, <1>5, <1>6, <1>7 DEF Finding, Row, C

-------------------------------------------------------------------------------
(***************************************************************************)
(* Types.                                                                  *)
(***************************************************************************)

\* The types hold at first.
LEMMA TypeInit == Init => TypeOK
<1> SUFFICES ASSUME Init PROVE TypeOK
  OBVIOUS
<1>1. NoMerge \in Statement /\ NoScan \in [since : Int, until : Int]
  BY ScanAssumption DEF NoMerge, NoScan, Statement
<1>2. QED
  BY <1>1, ScanAssumption DEF Init, TypeOK, NotYet

\* What the exception handler leaves.
LEMMA AbandonType ==
  ASSUME TypeOK, NEW s \in Scanners, Abandon(s)
  PROVE  /\ pc' \in [Scanners -> {"waiting", "reading", "writing", "merging", "ended"}]
         /\ due' \in 0..(MaxNow + Interval)
         /\ range' \in [Scanners -> [since : Int, until : Int]]
         /\ unwritten' \in [Scanners -> SUBSET Row]
         /\ merge' \in [Scanners -> Statement]
<1>1. NoMerge \in Statement /\ NoScan \in [since : Int, until : Int]
  BY ScanAssumption DEF NoMerge, NoScan, Statement
<1>2. now + RetryDelay \in 0..(MaxNow + Interval)
  BY ScanAssumption DEF TypeOK
<1>3. QED
  BY <1>1, <1>2 DEF Abandon, TypeOK

\* What a scan finds are rows of the table.
LEMMA RowsType ==
  ASSUME TypeOK, NEW s \in Scanners
  PROVE  Findings(Rows(s), range[s].since, range[s].until) \subseteq Row
<1>1. Rows(s) \in SUBSET Logons
  BY DEF Rows, Present
<1>2. QED
  BY <1>1, FindingsType

\* What a statement adds are rows of its own.
LEMMA NewRowsType ==
  ASSUME NEW m \in Statement
  PROVE  NewRows(m) \subseteq Row /\ NewRows(m) \subseteq m.rows
BY DEF NewRows, Statement

\* The steps of a scan keep the types.
LEMMA TypeScanSteps ==
  ASSUME TypeOK, NEW s \in Scanners,
         RunOnce(s) \/ Evaluate(s) \/ RefuseScan(s) \/ Succeed(s)
  PROVE  TypeOK'
<1>1. CASE RunOnce(s)
  <2>1. PICK r \in IF s = Poller THEN {[since |-> now - Lookback, until |-> now]} ELSE Ranges :
          range' = [range EXCEPT ![s] = r]
    BY <1>1 DEF RunOnce
  <2>2. r \in [since : Int, until : Int]
    BY <2>1, ScanAssumption DEF TypeOK
  <2>3. range' \in [Scanners -> [since : Int, until : Int]]
    BY <2>1, <2>2 DEF TypeOK
  <2>4. due' \in 0..(MaxNow + Interval)
    BY <1>1, ScanAssumption DEF RunOnce, TypeOK
  <2>5. QED
    BY <1>1, <2>3, <2>4 DEF RunOnce, TypeOK
<1>2. CASE Evaluate(s)
  BY <1>2, RowsType DEF Evaluate, TypeOK
<1>3. CASE RefuseScan(s)
  BY <1>3, AbandonType DEF RefuseScan, TypeOK
<1>4. CASE Succeed(s)
  <2>1. NoScan \in [since : Int, until : Int]
    BY DEF NoScan
  <2>2. now + Interval \in 0..(MaxNow + Interval)
    BY ScanAssumption DEF TypeOK
  <2>3. scans' \in [any : BOOLEAN, first : Int, last : Int, longest : Nat]
    <3>1. range[s].since \in Int /\ range[s].until \in Int
      BY DEF TypeOK
    <3>2. scans.first \in Int /\ scans.last \in Int /\ scans.longest \in Nat
      BY DEF TypeOK
    <3>3. Longer(scans.longest, range[s].until - scans.last) \in Nat
      BY <3>1, <3>2 DEF Longer
    <3>4. CASE s # Poller
      BY <1>4, <3>4 DEF Succeed, TypeOK
    <3>5. CASE s = Poller
      BY <1>4, <3>1, <3>2, <3>3, <3>5 DEF Succeed
    <3>6. QED
      BY <3>4, <3>5
  <2>4. pc' \in [Scanners -> {"waiting", "reading", "writing", "merging", "ended"}]
    BY <1>4 DEF Succeed, TypeOK
  <2>5. due' \in 0..(MaxNow + Interval)
    BY <1>4, <2>2 DEF Succeed, TypeOK
  <2>6. range' \in [Scanners -> [since : Int, until : Int]]
    BY <1>4, <2>1 DEF Succeed, TypeOK
  <2>7. heartbeat' \in 0..MaxNow \cup {-1}
    BY <1>4 DEF Succeed, TypeOK
  <2>8. QED
    BY <1>4, <2>3, <2>4, <2>5, <2>6, <2>7 DEF Succeed, TypeOK
<1>5. QED
  BY <1>1, <1>2, <1>3, <1>4

\* The steps of a statement keep the types; only RetryMerge counts an attempt.
LEMMA TypeMergeSteps ==
  ASSUME TypeOK, NEW s \in Scanners,
         SendMerge(s) \/ CommitMerge(s) \/ RetryMerge(s) \/ ConflictMerge(s)
  PROVE  TypeOK'
<1>1. merge[s] \in Statement /\ NoMerge \in Statement
  BY ScanAssumption DEF TypeOK, NoMerge, Statement
<1>2. CASE SendMerge(s)
  <2>1. PICK part \in SUBSET unwritten[s] :
          merge' = [merge EXCEPT ![s] = [rows |-> part, seen |-> detections, attempt |-> 1]]
    BY <1>2 DEF SendMerge
  <2>2. [rows |-> part, seen |-> detections, attempt |-> 1] \in Statement
    BY <2>1, ScanAssumption DEF TypeOK, Statement
  <2>3. QED
    BY <1>2, <2>1, <2>2 DEF SendMerge, TypeOK
<1>3. CASE CommitMerge(s)
  <2>1. detections' \subseteq Row
    BY <1>1, <1>3, NewRowsType DEF CommitMerge, TypeOK
  <2>2. unwritten' \in [Scanners -> SUBSET Row]
    BY <1>3 DEF CommitMerge, TypeOK
  <2>3. QED
    BY <1>1, <1>3, <2>1, <2>2 DEF CommitMerge, TypeOK
<1>4. CASE RetryMerge(s)
  <2> DEFINE again == [rows |-> merge[s].rows, seen |-> detections, attempt |-> merge[s].attempt + 1]
  <2>1. merge' = [merge EXCEPT ![s] = again]
    BY <1>1, <1>4 DEF RetryMerge, TypeOK, Statement
  <2>2. again \in Statement
    BY <1>1, <1>4, ScanAssumption DEF RetryMerge, TypeOK, Statement
  <2> HIDE DEF again
  <2>3. merge' \in [Scanners -> Statement]
    BY <2>1, <2>2 DEF TypeOK
  <2>4. QED
    BY <1>4, <2>3 DEF RetryMerge, TypeOK
<1>5. CASE ConflictMerge(s)
  BY <1>5, AbandonType DEF ConflictMerge, TypeOK
<1>6. QED
  BY <1>2, <1>3, <1>4, <1>5

\* Failures, lost answers and crashes keep the types.
LEMMA TypeFaultSteps ==
  ASSUME TypeOK, NEW s \in Scanners, Fail(s) \/ LoseAnswer(s) \/ Crash(s)
  PROVE  TypeOK'
<1>1. faults' \in 0..MaxFaults
  BY ScanAssumption DEF Fail, LoseAnswer, Crash, Fault, TypeOK
<1>2. merge[s] \in Statement
  BY DEF TypeOK
<1>3. CASE Fail(s)
  BY <1>1, <1>3, AbandonType DEF Fail, TypeOK
<1>4. CASE LoseAnswer(s)
  BY <1>1, <1>2, <1>4, AbandonType DEF LoseAnswer, TypeOK
<1>5. CASE Crash(s)
  <2>1. NoMerge \in Statement /\ NoScan \in [since : Int, until : Int]
    BY ScanAssumption DEF NoMerge, NoScan, Statement
  <2>2. now \in 0..(MaxNow + Interval)
    BY ScanAssumption DEF TypeOK
  <2>3. QED
    BY <1>1, <1>2, <1>5, <2>1, <2>2 DEF Crash, TypeOK
<1>6. QED
  BY <1>3, <1>4, <1>5

\* TypeOK is inductive.
LEMMA TypeStep == TypeOK /\ [Next]_vars => TypeOK'
<1> SUFFICES ASSUME TypeOK, [Next]_vars PROVE TypeOK'
  OBVIOUS
<1>1. CASE Tick
  BY <1>1, ScanAssumption DEF Tick, TypeOK, worker
<1>2. ASSUME NEW batch \in Uploads, Arrive(batch) PROVE TypeOK'
  BY <1>2, ScanAssumption DEF Arrive, TypeOK, NotYet, worker
<1>3. ASSUME NEW s \in Scanners, ScannerStep(s) PROVE TypeOK'
  BY <1>3, TypeScanSteps, TypeMergeSteps, TypeFaultSteps DEF ScannerStep
<1>4. CASE Stop
  BY <1>4 DEF Stop, TypeOK
<1>5. ASSUME NEW m \in behind, LandMerge(m) PROVE TypeOK'
  BY <1>5, NewRowsType DEF LandMerge, TypeOK, worker
<1>6. CASE UNCHANGED vars
  BY <1>6 DEF vars, worker, TypeOK
<1>7. QED
  BY <1>1, <1>2, <1>3, <1>4, <1>5, <1>6 DEF Next

\* Every variable has its type; no statement is tried more than CommitRetries + 1 times.
THEOREM TypeCorrect == Spec => []TypeOK
BY TypeInit, TypeStep, PTL DEF Spec

-------------------------------------------------------------------------------
(***************************************************************************)
(* The rows of a statement, and the table.                                 *)
(***************************************************************************)
Distinct(R) == \A f, g \in R : f.identity = g.identity => f = g

\* What a scanner holds are findings of one call, and its statement was planned on an
\* earlier state of the table.
WriteInv(s) ==
  Distinct(unwritten[s]) /\ Distinct(merge[s].rows) /\ merge[s].seen \subseteq detections

WritesInv ==
  /\ \A s \in Scanners : WriteInv(s)
  /\ \A m \in behind : Distinct(m.rows)
  /\ OneFindingPerBucket

\* A commit adds rows of other identities: none has committed since the plan, or there is
\* nothing to add.
LEMMA CommitKeepsOne ==
  ASSUME NEW m, MayCommit(m), Distinct(m.rows), OneFindingPerBucket,
         detections' = detections \cup NewRows(m)
  PROVE  OneFindingPerBucket'
<1>1. CASE NewRows(m) = {}
  BY <1>1 DEF OneFindingPerBucket
<1>2. CASE detections = m.seen
  BY <1>2 DEF OneFindingPerBucket, NewRows, Distinct
<1>3. QED
  BY <1>1, <1>2 DEF MayCommit

\* A scanner that writes nothing new leaves the others alone.
LEMMA WritesFrame ==
  ASSUME WritesInv, UNCHANGED <<unwritten, merge, behind, detections>>
  PROVE  WritesInv'
BY DEF WritesInv, WriteInv, OneFindingPerBucket

\* One scanner goes on, with what it held or with less.
LEMMA WritesOfOne ==
  ASSUME TypeOK, WritesInv, NEW s \in Scanners, UNCHANGED detections,
         \A v \in Scanners \ {s} : unwritten'[v] = unwritten[v] /\ merge'[v] = merge[v],
         behind' \subseteq behind \cup {merge[s]},
         WriteInv(s)'
  PROVE  WritesInv'
<1>1. \A v \in Scanners : WriteInv(v)'
  BY DEF WritesInv, WriteInv
<1>2. \A m \in behind' : Distinct(m.rows)
  BY DEF WritesInv, WriteInv
<1>3. OneFindingPerBucket'
  BY DEF WritesInv, OneFindingPerBucket
<1>4. QED
  BY <1>1, <1>2, <1>3 DEF WritesInv

\* A scanner without findings and statement has nothing to keep.
LEMMA NothingHeld ==
  ASSUME NEW s \in Scanners, unwritten'[s] = {}, merge'[s] = NoMerge
  PROVE  WriteInv(s)'
BY DEF WriteInv, Distinct, NoMerge

\* A scan that is given up leaves at most its statement behind.
LEMMA AbandonWrites ==
  ASSUME TypeOK, WritesInv, NEW s \in Scanners, UNCHANGED detections,
         unwritten' = [unwritten EXCEPT ![s] = {}], merge' = [merge EXCEPT ![s] = NoMerge],
         behind' \subseteq behind \cup {merge[s]}
  PROVE  WritesInv'
<1>1. WriteInv(s)'
  BY NothingHeld DEF TypeOK
<1>2. QED
  BY <1>1, WritesOfOne DEF TypeOK

\* Each step of a scanner keeps WritesInv.
LEMMA WritesScannerStep ==
  ASSUME TypeOK, WritesInv, NEW s \in Scanners, ScannerStep(s)
  PROVE  WritesInv'
<1>0. DOMAIN unwritten = Scanners /\ DOMAIN merge = Scanners /\ WriteInv(s)
  BY DEF TypeOK, WritesInv
<1>1. CASE RunOnce(s)
  BY <1>1, WritesFrame DEF RunOnce
<1>2. CASE Evaluate(s)
  <2>1. Rows(s) \in SUBSET Logons
    BY DEF Rows, Present
  <2>2. Distinct(Findings(Rows(s), range[s].since, range[s].until))
    BY <2>1, FindingsDistinct DEF Distinct
  <2>3. WriteInv(s)'
    BY <1>0, <1>2, <2>2 DEF Evaluate, WriteInv
  <2>4. QED
    BY <1>0, <1>2, <2>3, WritesOfOne DEF Evaluate
<1>3. CASE RefuseScan(s) \/ ConflictMerge(s) \/ Fail(s) \/ LoseAnswer(s)
  BY <1>3, AbandonWrites DEF RefuseScan, ConflictMerge, Fail, LoseAnswer, Abandon
<1>4. CASE Crash(s)
  BY <1>4, AbandonWrites DEF Crash
<1>5. CASE SendMerge(s)
  <2>1. PICK part \in SUBSET unwritten[s] :
          merge' = [merge EXCEPT ![s] = [rows |-> part, seen |-> detections, attempt |-> 1]]
    BY <1>5 DEF SendMerge
  <2>2. merge'[s].rows = part /\ merge'[s].seen = detections
    BY <1>0, <2>1
  <2>3. WriteInv(s)'
    BY <1>0, <1>5, <2>2 DEF SendMerge, WriteInv, Distinct
  <2>4. QED
    BY <1>0, <1>5, <2>1, <2>3, WritesOfOne DEF SendMerge
<1>6. CASE RetryMerge(s)
  <2>1. merge'[s].rows = merge[s].rows /\ merge'[s].seen = detections
    BY <1>0, <1>6 DEF RetryMerge, TypeOK, Statement
  <2>2. WriteInv(s)'
    BY <1>0, <1>6, <2>1 DEF RetryMerge, WriteInv
  <2>3. QED
    BY <1>0, <1>6, <2>2, WritesOfOne DEF RetryMerge
<1>7. CASE CommitMerge(s)
  <2>1. OneFindingPerBucket'
    BY <1>0, <1>7, CommitKeepsOne DEF CommitMerge, WriteInv, WritesInv
  <2>2. ASSUME NEW v \in Scanners PROVE WriteInv(v)'
    BY <1>0, <1>7 DEF CommitMerge, WritesInv, WriteInv, Distinct, NoMerge
  <2>3. QED
    BY <1>7, <2>1, <2>2 DEF CommitMerge, WritesInv
<1>8. CASE Succeed(s)
  BY <1>8, WritesFrame DEF Succeed
<1>9. QED
  BY <1>1, <1>2, <1>3, <1>4, <1>5, <1>6, <1>7, <1>8 DEF ScannerStep

\* WritesInv is inductive, given the types.
LEMMA WritesStep == TypeOK /\ WritesInv /\ [Next]_vars => WritesInv'
<1> SUFFICES ASSUME TypeOK, WritesInv, [Next]_vars PROVE WritesInv'
  OBVIOUS
<1>1. CASE Tick \/ (\E batch \in Uploads : Arrive(batch)) \/ Stop \/ UNCHANGED vars
  BY <1>1, WritesFrame DEF Tick, Arrive, Stop, vars, worker
<1>2. ASSUME NEW m \in behind, LandMerge(m) PROVE WritesInv'
  <2>1. OneFindingPerBucket'
    <3>1. CASE UNCHANGED detections
      BY <3>1 DEF WritesInv, OneFindingPerBucket
    <3>2. CASE MayCommit(m) /\ detections' = detections \cup NewRows(m)
      BY <3>2, CommitKeepsOne DEF WritesInv
    <3>3. QED
      BY <1>2, <3>1, <3>2 DEF LandMerge
  <2>2. detections \subseteq detections' /\ behind' \subseteq behind /\ UNCHANGED <<unwritten, merge>>
    BY <1>2 DEF LandMerge, worker
  <2>3. QED
    BY <2>1, <2>2 DEF WritesInv, WriteInv
<1>3. QED
  BY <1>1, <1>2, WritesScannerStep DEF Next

LEMMA WritesInit == Init => WritesInv
BY DEF Init, WritesInv, WriteInv, Distinct, NoMerge, OneFindingPerBucket

\* A rule finds a subject at most once in a bucket, whatever scans overlap, repeat, conflict
\* or leave statements behind (write_findings matches on the finding's identity).
THEOREM OneFinding == Spec => []OneFindingPerBucket
<1>1. TypeOK /\ WritesInv /\ [Next]_vars => TypeOK' /\ WritesInv'
  BY TypeStep, WritesStep
<1>2. WritesInv => OneFindingPerBucket
  BY DEF WritesInv
<1>3. QED
  BY <1>1, <1>2, TypeInit, WritesInit, PTL DEF Spec

\* A step only adds rows.
LEMMA DetectionsStep == [Next]_vars => detections \subseteq detections'
<1> SUFFICES ASSUME [Next]_vars PROVE detections \subseteq detections'
  OBVIOUS
<1>1. ASSUME NEW s \in Scanners, ScannerStep(s) PROVE detections \subseteq detections'
  BY <1>1 DEF ScannerStep, RunOnce, Evaluate, RefuseScan, SendMerge, CommitMerge, RetryMerge,
              ConflictMerge, Succeed, Fail, LoseAnswer, Crash
<1>2. QED
  BY <1>1 DEF Next, Tick, Arrive, Stop, LandMerge, vars

\* Stored findings stay as they were first written (WHEN NOT MATCHED THEN INSERT).
THEOREM FirstEvidence == Spec => FirstEvidenceStands
BY DetectionsStep, PTL DEF Spec, FirstEvidenceStands

-------------------------------------------------------------------------------
(***************************************************************************)
(* The scans of the poller.                                                *)
(***************************************************************************)
Scanning == {"reading", "writing", "merging"}
Found(id) == \E row \in detections : row.identity = id
Held(id) == \E g \in unwritten[Poller] : g.identity = id

\* Every rule that fires in [since, until) on the logons present before the scan began has
\* its finding in the table or in the hands of the poller.
Shows(since, until) ==
  \A rule \in Rules, e \in Present(until - 1) :
    since <= e.time /\ e.time < until /\ Fires(rule, Present(until - 1), e)
      => Found(Identity(rule, e)) \/ Held(Identity(rule, e))

PollInv ==
  /\ pc[Poller] \in Scanning =>
       /\ range[Poller].until <= now
       /\ range[Poller].since = range[Poller].until - Lookback
  /\ pc[Poller] \in {"writing", "merging"} => Shows(range[Poller].since, range[Poller].until)
  /\ scans.any => scans.last <= now

ScanInv == TypeOK /\ WritesInv /\ PollInv /\ MissedOnlyInOutage

\* What is present before the present instant stays as it is.
PastStays ==
  /\ now <= now'
  /\ \A t \in Int : t < now => Present(t)' = Present(t)

\* Logons arrive in the present only.
LEMMA ArrivalsStep == TypeOK /\ [Next]_vars => PastStays
<1> SUFFICES ASSUME TypeOK, [Next]_vars PROVE PastStays
  OBVIOUS
<1>1. /\ now' = now \/ now' = now + 1
      /\ \A e \in Logons : arrived'[e] = arrived[e] \/ (arrived[e] = NotYet /\ arrived'[e] = now)
  <2>1. ASSUME NEW s \in Scanners, ScannerStep(s) PROVE UNCHANGED <<now, arrived>>
    BY <2>1 DEF ScannerStep, RunOnce, Evaluate, RefuseScan, SendMerge, CommitMerge, RetryMerge,
                ConflictMerge, Succeed, Fail, LoseAnswer, Crash
  <2>2. CASE \E batch \in Uploads : Arrive(batch)
    BY <2>2 DEF Arrive
  <2>3. QED
    BY <2>1, <2>2 DEF Next, Tick, Stop, LandMerge, vars
<1>2. now \in 0..MaxNow /\ \A e \in Logons : arrived[e] \in Int
  BY DEF TypeOK, NotYet
<1>3. ASSUME NEW t \in Int, t < now
      PROVE  Present(t)' = Present(t)
  <2>1. \A e \in Logons : arrived'[e] <= t <=> arrived[e] <= t
    BY <1>1, <1>2, <1>3, ScanAssumption DEF NotYet
  <2>2. Present(t)' = {e \in Logons : arrived'[e] <= t}
    BY DEF Present
  <2>3. QED
    BY <2>1, <2>2 DEF Present
<1>4. QED
  BY <1>1, <1>2, <1>3 DEF PastStays

\* A step of the poller: it is or gets outside of a scan, a scan begins, its logons are
\* evaluated, or it goes on with its range and loses nothing that is not found.
Begins ==
  /\ pc'[Poller] = "reading" /\ now' = now
  /\ range'[Poller].since = now - Lookback /\ range'[Poller].until = now

Evaluates ==
  /\ pc[Poller] = "reading" /\ UNCHANGED <<now, arrived, range>>
  /\ unwritten'[Poller] = Findings(Rows(Poller), range[Poller].since, range[Poller].until)

GoesOn ==
  /\ range'[Poller] = range[Poller]
  /\ pc[Poller] \in Scanning
  /\ pc'[Poller] \in {"writing", "merging"} => pc[Poller] \in {"writing", "merging"}
  /\ \A g \in unwritten[Poller] : g \in unwritten'[Poller] \/ Found(g.identity)'

PollerStep == pc'[Poller] \notin Scanning \/ Begins \/ Evaluates \/ GoesOn

\* A committed statement has its rows found, those of others included.
LEMMA CommittedIsFound ==
  ASSUME NEW m, m.seen \subseteq detections, detections' = detections \cup NewRows(m),
         NEW g \in m.rows
  PROVE  Found(g.identity)'
<1>1. CASE g \in NewRows(m)
  BY <1>1 DEF Found
<1>2. CASE g \notin NewRows(m)
  <2>1. PICK row \in m.seen : row.identity = g.identity
    BY <1>2 DEF NewRows
  <2>2. QED
    BY <2>1 DEF Found
<1>3. QED
  BY <1>1, <1>2

\* The poller's own steps.
LEMMA PollerActs ==
  ASSUME TypeOK, WritesInv, ScannerStep(Poller)
  PROVE  PollerStep
<1>0. /\ Poller \in Scanners
      /\ DOMAIN pc = Scanners /\ DOMAIN range = Scanners /\ DOMAIN unwritten = Scanners
      /\ WriteInv(Poller)
  BY DEF TypeOK, WritesInv, Scanners
<1>1. CASE RunOnce(Poller)
  BY <1>0, <1>1 DEF RunOnce, PollerStep, Begins
<1>2. CASE Evaluate(Poller)
  BY <1>0, <1>2 DEF Evaluate, PollerStep, Evaluates
<1>3. CASE RefuseScan(Poller) \/ ConflictMerge(Poller) \/ Fail(Poller) \/ LoseAnswer(Poller)
  BY <1>0, <1>3 DEF RefuseScan, ConflictMerge, Fail, LoseAnswer, Abandon, PollerStep, Scanning
<1>4. CASE Crash(Poller) \/ Succeed(Poller)
  BY <1>0, <1>4 DEF Crash, Succeed, PollerStep, Scanning
<1>5. CASE SendMerge(Poller) \/ RetryMerge(Poller)
  BY <1>0, <1>5 DEF SendMerge, RetryMerge, PollerStep, GoesOn, Scanning
<1>6. CASE CommitMerge(Poller)
  <2>1. \A g \in merge[Poller].rows : Found(g.identity)'
    BY <1>0, <1>6, CommittedIsFound DEF CommitMerge, WriteInv
  <2>2. unwritten'[Poller] = unwritten[Poller] \ merge[Poller].rows
    BY <1>0, <1>6 DEF CommitMerge
  <2>3. QED
    BY <1>0, <1>6, <2>1, <2>2 DEF CommitMerge, PollerStep, GoesOn, Scanning
<1>7. QED
  BY <1>1, <1>2, <1>3, <1>4, <1>5, <1>6 DEF ScannerStep

\* Every action is such a step, those of the other scanners included.
LEMMA PollerSteps == TypeOK /\ WritesInv /\ [Next]_vars => PollerStep
<1> SUFFICES ASSUME TypeOK, WritesInv, [Next]_vars PROVE PollerStep
  OBVIOUS
<1>0. /\ Poller \in Scanners
      /\ DOMAIN pc = Scanners /\ DOMAIN range = Scanners /\ DOMAIN unwritten = Scanners
  BY DEF TypeOK, Scanners
<1>1. ASSUME pc'[Poller] = pc[Poller], range'[Poller] = range[Poller],
             unwritten'[Poller] = unwritten[Poller]
      PROVE  PollerStep
  BY <1>1 DEF PollerStep, GoesOn
<1>2. ASSUME NEW s \in Scanners, ScannerStep(s), s # Poller
      PROVE  PollerStep
  BY <1>0, <1>1, <1>2 DEF ScannerStep, RunOnce, Evaluate, RefuseScan, SendMerge, CommitMerge,
     RetryMerge, ConflictMerge, Succeed, Fail, LoseAnswer, Crash, Abandon
<1>3. CASE Tick \/ (\E batch \in Uploads : Arrive(batch)) \/ (\E m \in behind : LandMerge(m))
           \/ UNCHANGED vars
  BY <1>1, <1>3 DEF Tick, Arrive, LandMerge, vars, worker
<1>4. CASE Stop
  BY <1>0, <1>4 DEF Stop, PollerStep, Scanning
<1>5. QED
  BY <1>2, <1>3, <1>4, PollerActs DEF Next

\* The history of successful scans is written by a success of the poller.
LEMMA SuccessSteps ==
  TypeOK /\ [Next]_vars =>
    UNCHANGED <<scans, heartbeat>> \/ (Poller \in Scanners /\ Succeed(Poller))
<1> SUFFICES ASSUME TypeOK, [Next]_vars
             PROVE  UNCHANGED <<scans, heartbeat>> \/ (Poller \in Scanners /\ Succeed(Poller))
  OBVIOUS
<1>1. ASSUME NEW s \in Scanners, ScannerStep(s)
      PROVE  UNCHANGED <<scans, heartbeat>> \/ (s = Poller /\ Succeed(s))
  BY <1>1 DEF ScannerStep, RunOnce, Evaluate, RefuseScan, SendMerge, CommitMerge, RetryMerge,
              ConflictMerge, Succeed, Fail, LoseAnswer, Crash
<1>2. QED
  BY <1>1 DEF Next, Tick, Arrive, Stop, LandMerge, vars

\* The logons that the scan reads are enough for every rule that fires on those present
\* before it began.
LEMMA EvaluationShows ==
  ASSUME TypeOK, Evaluates, NEW since \in Int, NEW until \in Int, until <= now,
         range[Poller].since = since, range[Poller].until = until,
         NEW rule \in Rules, NEW e \in Present(until - 1), since <= e.time, e.time < until,
         Fires(rule, Present(until - 1), e)
  PROVE  Held(Identity(rule, e))'
<1> DEFINE S == Present(until - 1)
           T == Rows(Poller)
<1>1. S \in SUBSET Logons /\ T \in SUBSET Logons /\ e \in Logons
  BY DEF Present, Rows
<1>2. now \in Int /\ \A f \in Logons : arrived[f] \in Int /\ f.time \in Int
  BY LogonsAssumption DEF TypeOK, NotYet
<1>3. T = {f \in Present(now) : since - Window <= f.time /\ f.time < until}
  BY DEF Rows
<1>4. ASSUME NEW f \in S, f.time >= e.time - Window, f = e \/ Before(f, e)
      PROVE  f \in T
  <2>1. f \in Present(now)
    BY <1>2 DEF Present
  <2>2. f.time <= e.time /\ f.time \in Int /\ e.time \in Int
    BY <1>1, <1>2, <1>4 DEF Before
  <2>3. since - Window <= f.time /\ f.time < until
    BY <1>4, <2>2, SettingsAssumption
  <2>4. QED
    BY <1>3, <2>1, <2>3
<1>5. e \in T
  <2>1. e.time \in Int
    BY <1>1, <1>2
  <2>2. e.time >= e.time - Window
    BY <2>1, SettingsAssumption
  <2>3. QED
    BY <1>4, <2>2
<1> HIDE DEF S, T
<1>6. Fires(rule, T, e)
  BY <1>1, <1>4, FiresWithMore DEF S
<1>7. PICK g \in Findings(T, since, until) : g.identity = Identity(rule, e)
  BY <1>1, <1>5, <1>6, FindingsComplete
<1>8. unwritten'[Poller] = Findings(T, since, until)
  BY DEF Evaluates, T
<1>9. QED
  BY <1>7, <1>8 DEF Held

LEMMA PollInit == Init => PollInv
BY DEF Init, PollInv, Scanners, Scanning

\* PollInv is inductive: the evaluation shows all, and what is committed is found.
LEMMA PollStep == ScanInv /\ [Next]_vars => PollInv'
<1> SUFFICES ASSUME ScanInv, [Next]_vars PROVE PollInv'
  OBVIOUS
<1>0. /\ TypeOK /\ WritesInv /\ PollInv /\ PollerStep /\ PastStays
      /\ detections \subseteq detections' /\ now \in Int /\ now' \in Int
  BY PollerSteps, ArrivalsStep, DetectionsStep, TypeStep DEF ScanInv, TypeOK
<1>1. PICK since \in Int, until \in Int : range[Poller].since = since /\ range[Poller].until = until
  BY <1>0 DEF TypeOK, Scanners
<1>2. scans'.any => scans'.last <= now'
  <2>1. CASE UNCHANGED scans
    <3>1. scans.last \in Int
      BY <1>0 DEF TypeOK
    <3>2. QED
      BY <1>0, <2>1, <3>1 DEF PollInv, PastStays
  <2>2. CASE Succeed(Poller)
    <3>1. scans'.last = until /\ now' = now /\ pc[Poller] = "writing"
      BY <1>1, <2>2 DEF Succeed
    <3>2. QED
      BY <1>0, <1>1, <3>1 DEF PollInv, Scanning
  <2>3. QED
    BY <1>0, <2>1, <2>2, SuccessSteps
<1>3. pc'[Poller] \in Scanning =>
        range'[Poller].until <= now' /\ range'[Poller].since = range'[Poller].until - Lookback
  <2>1. CASE Begins
    BY <1>0, <2>1 DEF Begins
  <2>2. CASE Evaluates \/ GoesOn
    <3>1. pc[Poller] \in Scanning /\ range'[Poller] = range[Poller]
      BY <2>2 DEF Evaluates, GoesOn, Scanning
    <3>2. until <= now /\ since = until - Lookback /\ now <= now'
      BY <1>0, <1>1, <3>1 DEF PollInv, PastStays
    <3>3. range'[Poller].until = until /\ range'[Poller].since = since
      BY <1>1, <3>1
    <3>4. QED
      BY <1>0, <3>2, <3>3
  <2>3. QED
    BY <1>0, <2>1, <2>2 DEF PollerStep
<1>4. ASSUME pc'[Poller] \in {"writing", "merging"}
      PROVE  Shows(range[Poller].since, range[Poller].until)'
  <2>1. pc[Poller] \in Scanning /\ until <= now /\ range'[Poller] = range[Poller]
    BY <1>0, <1>1, <1>4 DEF PollInv, PollerStep, Begins, Evaluates, GoesOn, Scanning
  <2>2. Present(until - 1)' = Present(until - 1)
    BY <1>0, <2>1 DEF PastStays
  <2>3. ASSUME NEW rule \in Rules, NEW e \in Present(until - 1), since <= e.time,
               e.time < until, Fires(rule, Present(until - 1), e)
        PROVE  Found(Identity(rule, e))' \/ Held(Identity(rule, e))'
    <3>1. CASE Evaluates
      BY <1>0, <1>1, <2>1, <2>3, <3>1, EvaluationShows
    <3>2. CASE GoesOn
      <4>1. Found(Identity(rule, e)) \/ Held(Identity(rule, e))
        BY <1>0, <1>1, <1>4, <2>3, <3>2 DEF GoesOn, PollInv, Shows
      <4>2. CASE Found(Identity(rule, e))
        BY <1>0, <4>2 DEF Found
      <4>3. CASE Held(Identity(rule, e))
        BY <3>2, <4>3 DEF Held, GoesOn
      <4>4. QED
        BY <4>1, <4>2, <4>3
    <3>3. QED
      BY <1>0, <1>4, <3>1, <3>2 DEF PollerStep, Begins, Scanning
  <2>4. range'[Poller].since = since /\ range'[Poller].until = until
    BY <1>1, <2>1
  <2>5. Shows(since, until)'
    BY <2>2, <2>3 DEF Shows
  <2>6. QED
    BY <2>4, <2>5 DEF Shows, Present
<1>5. QED
  BY <1>2, <1>3, <1>4 DEF PollInv

-------------------------------------------------------------------------------
(***************************************************************************)
(* What the heartbeat and the delay of the polls promise.                  *)
(***************************************************************************)

\* At its success the poller holds nothing any more: what its scan shows is found.
LEMMA SuccessFinds ==
  ASSUME ScanInv, Succeed(Poller), NEW since \in Int, NEW until \in Int,
         range[Poller].since = since, range[Poller].until = until,
         NEW rule \in Rules, NEW e \in Present(until - 1), since <= e.time, e.time < until,
         Fires(rule, Present(until - 1), e)
  PROVE  Found(Identity(rule, e))
<1>1. pc[Poller] = "writing" /\ unwritten[Poller] = {}
  BY DEF Succeed
<1>2. Shows(since, until)
  BY <1>1 DEF ScanInv, PollInv
<1>3. QED
  BY <1>1, <1>2 DEF Shows, Held

\* The heartbeat is written by a success, which has found all.
LEMMA HealthStep ==
  ASSUME ScanInv, [Next]_vars, heartbeat' # heartbeat
  PROVE  \A f \in Findings(Present(range[Poller].until - 1), range[Poller].since, range[Poller].until) :
           \E row \in detections : row.identity = f.identity
<1>1. Succeed(Poller)
  BY SuccessSteps DEF ScanInv
<1>2. PICK since \in Int, until \in Int : range[Poller].since = since /\ range[Poller].until = until
  BY DEF ScanInv, TypeOK, Scanners
<1>3. ASSUME NEW f \in Findings(Present(until - 1), since, until)
      PROVE  Found(f.identity)
  <2>1. PICK rule \in Rules, e \in Present(until - 1) :
          /\ e.time >= since /\ e.time < until /\ FirstTrigger(rule, Present(until - 1), e, since)
          /\ f = Finding(rule, Present(until - 1), e)
    BY FindingTrigger
  <2>2. e.time \in Int /\ Fires(rule, Present(until - 1), e)
    BY <2>1, LogonsAssumption DEF Present, FirstTrigger
  <2>3. Found(Identity(rule, e))
    BY <1>1, <1>2, <2>1, <2>2, SuccessFinds
  <2>4. QED
    BY <2>1, <2>3, IdentityParts
<1>4. QED
  BY <1>2, <1>3 DEF Found

\* The trigger of MissedOnlyInOutage, for one rule, logon and instant.
Expected(rule, e, complete) ==
  /\ scans.longest <= Lookback
  /\ complete <= e.time + Lookback - scans.longest
  /\ scans.any /\ scans.first <= e.time
  /\ e.time < scans.last /\ complete < scans.last
  /\ Fires(rule, Present(complete), e) /\ e \in Present(complete)

\* MissedOnlyInOutage in these words.
LEMMA MissedMeans ==
  MissedOnlyInOutage <=>
    \A rule \in Rules, e \in Logons, complete \in 0..MaxNow :
      Expected(rule, e, complete) => Found(Identity(rule, e))
BY DEF MissedOnlyInOutage, Expected, Found

\* The first success that ends after a trigger and its evidence begins before it: the gap
\* since the success before it is no longer than the lookback leaves.
LEMMA FirstSuccessAfter ==
  ASSUME ScanInv, Succeed(Poller), NEW rule \in Rules, NEW e \in Logons,
         NEW complete \in 0..MaxNow, Expected(rule, e, complete)',
         ~ (scans.any /\ e.time < scans.last /\ complete < scans.last)
  PROVE  Found(Identity(rule, e))
<1>1. PICK since \in Int, until \in Int : range[Poller].since = since /\ range[Poller].until = until
  BY DEF ScanInv, TypeOK, Scanners
<1>2. pc[Poller] = "writing" /\ arrived' = arrived
  BY DEF Succeed
<1>3. until <= now /\ since = until - Lookback
  BY <1>1, <1>2 DEF ScanInv, PollInv, Scanning
<1>4. /\ e.time \in Int /\ complete \in Int /\ Lookback \in Int
      /\ scans.first \in Int /\ scans.last \in Int /\ scans.longest \in Nat
      /\ \A f \in Logons : arrived[f] \in Int
  BY LogonsAssumption, ScanAssumption DEF ScanInv, TypeOK, NotYet
<1>5. /\ scans'.last = until
      /\ scans'.first = IF scans.any THEN scans.first ELSE since
      /\ scans'.longest = IF scans.any THEN Longer(scans.longest, until - scans.last) ELSE 0
  BY <1>1 DEF Succeed
<1>6. e.time < until /\ complete <= until - 1
  BY <1>1, <1>4, <1>5 DEF Expected
<1>7. since <= e.time
  <2>1. CASE ~ scans.any
    BY <1>5, <2>1 DEF Expected
  <2>2. CASE scans.any
    <3>1. scans'.longest \in Int /\ until - scans.last <= scans'.longest
      BY <1>4, <1>5, <2>2 DEF Longer
    <3>2. scans'.longest <= Lookback /\ complete <= e.time + Lookback - scans'.longest
      BY DEF Expected
    <3>3. scans.last <= e.time \/ scans.last <= complete
      BY <1>4, <2>2
    <3>4. QED
      BY <1>3, <1>4, <3>1, <3>2, <3>3
  <2>3. QED
    BY <2>1, <2>2
<1>8. Fires(rule, Present(until - 1), e) /\ e \in Present(until - 1)
  <2>1. Present(complete)' = Present(complete)
    BY <1>2 DEF Present
  <2>2. Fires(rule, Present(complete), e) /\ e \in Present(complete)
    BY <2>1 DEF Expected
  <2>3. Present(complete) \subseteq Present(until - 1)
    BY <1>4, <1>6 DEF Present
  <2>4. Present(complete) \in SUBSET Logons /\ Present(until - 1) \in SUBSET Logons
    BY DEF Present
  <2>5. QED
    BY <2>2, <2>3, <2>4, FiresWithMore
<1>9. QED
  BY <1>1, <1>6, <1>7, <1>8, SuccessFinds

\* MissedOnlyInOutage is kept: by the table, or by the success that is first to end after both.
LEMMA MissedStep == ScanInv /\ [Next]_vars => MissedOnlyInOutage'
<1> SUFFICES ASSUME ScanInv, [Next]_vars,
                    NEW rule \in Rules, NEW e \in Logons, NEW complete \in 0..MaxNow,
                    Expected(rule, e, complete)'
             PROVE  Found(Identity(rule, e))'
  BY DEF MissedOnlyInOutage, Expected, Found
<1>0. /\ TypeOK /\ PollInv /\ PastStays /\ detections \subseteq detections'
      /\ now \in Int /\ complete \in Int /\ e.time \in Int
      /\ scans.last \in Int /\ scans.longest \in Nat
  BY ArrivalsStep, DetectionsStep, LogonsAssumption DEF ScanInv, TypeOK
<1>1. Found(Identity(rule, e)) => Found(Identity(rule, e))'
  BY <1>0 DEF Found
\* What was expected before.
<1>2. ASSUME Fires(rule, Present(complete), e), e \in Present(complete),
             scans.any, scans.first <= e.time, e.time < scans.last, complete < scans.last,
             scans.longest <= Lookback, complete <= e.time + Lookback - scans.longest
      PROVE  Found(Identity(rule, e))
  BY <1>2, MissedMeans DEF ScanInv, Expected
<1>3. CASE UNCHANGED scans
  <2>1. complete < now
    BY <1>0, <1>3 DEF Expected, PollInv
  <2>2. Present(complete)' = Present(complete)
    BY <1>0, <2>1 DEF PastStays
  <2>3. QED
    BY <1>1, <1>2, <1>3, <2>2 DEF Expected
<1>4. CASE Succeed(Poller)
  <2>1. CASE scans.any /\ e.time < scans.last /\ complete < scans.last
    <3>1. Present(complete)' = Present(complete)
      BY <1>4 DEF Present, Succeed
    <3>2. PICK until \in Int : range[Poller].until = until
      BY <1>0 DEF TypeOK, Scanners
    <3>3. /\ scans'.first = scans.first
          /\ scans'.longest = Longer(scans.longest, until - scans.last)
      BY <1>4, <2>1, <3>2 DEF Succeed
    <3>4. scans'.longest \in Int /\ scans.longest <= scans'.longest
      BY <1>0, <3>2, <3>3 DEF Longer
    <3>5. scans.longest <= Lookback /\ complete <= e.time + Lookback - scans.longest
      BY <1>0, <3>4, ScanAssumption DEF Expected
    <3>6. QED
      BY <1>1, <1>2, <2>1, <3>1, <3>3, <3>5 DEF Expected
  <2>2. CASE ~ (scans.any /\ e.time < scans.last /\ complete < scans.last)
    BY <1>1, <1>4, <2>2, FirstSuccessAfter
  <2>3. QED
    BY <2>1, <2>2
<1>5. QED
  BY <1>0, <1>3, <1>4, SuccessSteps

LEMMA ScanInvInit == Init => ScanInv
<1>1. Init => MissedOnlyInOutage
  BY DEF Init, MissedOnlyInOutage
<1>2. QED
  BY <1>1, TypeInit, WritesInit, PollInit DEF ScanInv

\* ScanInv is inductive.
LEMMA ScanInvStep == ScanInv /\ [Next]_vars => ScanInv'
BY TypeStep, WritesStep, PollStep, MissedStep DEF ScanInv

LEMMA ScanInvHolds == Spec => []ScanInv
BY ScanInvInit, ScanInvStep, PTL DEF Spec

\* When the poller leaves its heartbeat, all that the logons present at the start of its
\* scan show is in the table.
THEOREM Health == Spec => HealthFollowsFindings
<1>1. ScanInv /\ [Next]_vars =>
        (heartbeat' # heartbeat =>
           \A f \in Findings(Present(range[Poller].until - 1), range[Poller].since, range[Poller].until) :
             \E row \in detections : row.identity = f.identity)
  BY HealthStep
<1>2. QED
  BY <1>1, ScanInvHolds, PTL DEF Spec, HealthFollowsFindings

\* A trigger, late evidence included, is missed only when the scans that succeed lie too far
\* apart for the lookback.
THEOREM LateArrivals == Spec => []MissedOnlyInOutage
<1>1. ScanInv => MissedOnlyInOutage
  BY DEF ScanInv
<1>2. QED
  BY <1>1, ScanInvHolds, PTL

===============================================================================
