----------------------------- MODULE LoopProofs -----------------------------
(***************************************************************************)
(* Proofs about the loops: the maintenance process, for any intervals,     *)
(* tables, runs and limit of the report; the loop of _merge_batches over   *)
(* one batch, for any table, batch and statement limit; the splitter of    *)
(* CEF and LEEF headers, for any fields over any alphabet; and the scanner *)
(* of SQL statements with what query makes of its result, for any text.    *)
(***************************************************************************)
EXTENDS Maintenance, ScrubSql, EscapedFields, MergeBatches, FiniteSetTheorems, FunctionTheorems, SequenceTheorems, WellFoundedInduction, TLAPS

-------------------------------------------------------------------------------
(***************************************************************************)
(* The maintenance loop.                                                   *)
(***************************************************************************)

\* The time that the loop waited and the time until maintenance make up the delay, and
\* the wait does not go past the due time.
OnTime ==
  /\ idle <= Delay
  /\ pc \in Statements => idle = 0
  /\ pc \in {"watching", "deciding", "waiting"} => idle + due <= Delay
  /\ pc = "waiting" => left <= due

\* What is left of the wait does not take a run without a message past the watchdog's
\* interval; behind a look every run is covered.
Covered ==
  \A r \in Runs :
    /\ unseen[r] <= WatchdogInterval
    /\ pc = "waiting" => unseen[r] + left <= WatchdogInterval
    /\ pc \in {"deciding"} \cup Statements => unseen[r] = 0

LoopInv == TypeOK /\ OnTime /\ Covered

----------------------------------------------------------------------------
\* The order of the report is a strict linear order of the runs.
LEMMA BeforeIsLinear ==
  ASSUME TypeOK, NEW r \in Runs, NEW s \in Runs, NEW t \in Runs
  PROVE  /\ ~ Before(r, r)
         /\ Before(r, s) /\ Before(s, t) => Before(r, t)
<1>1. age[r] \in Int /\ age[s] \in Int /\ age[t] \in Int
  BY DEF TypeOK, NoRun, OldEnough
<1>2. r \in Int /\ s \in Int /\ t \in Int
  BY SizesAssumption
<1>3. QED
  BY <1>1, <1>2 DEF Before

\* When the first n + 1 of a set of runs are n at most, they are all of it, and so are the
\* first n: a report that is not truncated names every stale run.
LEMMA ShortReportIsComplete ==
  ASSUME TypeOK, NEW S \in SUBSET Runs, NEW n \in Nat,
         Cardinality(FirstOf(S, n + 1)) <= n
  PROVE  FirstOf(FirstOf(S, n + 1), n) = S
<1> DEFINE P(r) == {s \in S : Before(s, r)}
           F == FirstOf(S, n + 1)
<1>1. IsFiniteSet(S)
  BY SizesAssumption, FS_Subset
<1>2. \A r \in S : P(r) \in SUBSET S /\ IsFiniteSet(P(r)) /\ Cardinality(P(r)) \in Nat
  BY <1>1, FS_Subset, FS_CardinalityType
<1>3. F \subseteq S /\ IsFiniteSet(F)
  BY <1>1, FS_Subset DEF FirstOf
<1>4. F = S
  <2> SUFFICES ASSUME F # S PROVE FALSE
    OBVIOUS
  <2> DEFINE T == {P(r) : r \in S \ F}
  <2>1. T \subseteq FiniteSubsetsOf(S) /\ T # {}
    BY <1>2, <1>3 DEF FiniteSubsetsOf
  <2>2. IsWellFoundedOn(StrictSubsetOrdering(S), FiniteSubsetsOf(S))
    BY FS_StrictSubsetOrderingWellFounded
  <2> HIDE DEF T
  <2>3. PICK X \in T : \A Y \in T : ~ (<<Y, X>> \in StrictSubsetOrdering(S))
    BY <2>1, <2>2, WFMin
  <2>4. PICK r \in S \ F : X = P(r)
    BY DEF T
  <2>5. ASSUME NEW s \in P(r) PROVE s \in F
    <3> SUFFICES ASSUME s \notin F PROVE FALSE
      OBVIOUS
    <3>1. P(s) \in T
      BY DEF T
    <3>2. P(s) \subseteq P(r)
      BY BeforeIsLinear
    <3>3. s \notin P(s) /\ P(s) \in SUBSET S /\ P(r) \in SUBSET S
      BY BeforeIsLinear
    <3>4. <<P(s), X>> \in StrictSubsetOrdering(S)
      BY <2>4, <2>5, <3>2, <3>3 DEF StrictSubsetOrdering
    <3>5. QED
      BY <2>3, <3>1, <3>4
  <2>6. Cardinality(P(r)) <= Cardinality(F)
    BY <1>3, <2>5, FS_Subset
  <2>7. Cardinality(P(r)) < n + 1
    BY <1>2, <1>3, <2>6, FS_CardinalityType
  <2>8. r \in F
    BY <2>7 DEF FirstOf
  <2>9. QED
    BY <2>4, <2>8
<1>5. ASSUME NEW r \in S PROVE Cardinality(P(r)) < n
  <2>1. P(r) \subseteq S \ {r}
    BY BeforeIsLinear
  <2>2. IsFiniteSet(S \ {r}) /\ Cardinality(S \ {r}) = Cardinality(S) - 1
    BY <1>1, FS_RemoveElement
  <2>3. Cardinality(P(r)) <= Cardinality(S \ {r})
    BY <2>1, <2>2, FS_Subset
  <2>4. QED
    BY <1>1, <1>2, <1>4, <2>2, <2>3, FS_CardinalityType
<1>6. QED
  BY <1>4, <1>5 DEF FirstOf

----------------------------------------------------------------------------
LEMMA Constants ==
  /\ Interval \in Nat /\ RetryDelay \in Nat /\ WatchdogInterval \in Nat /\ StuckTimeout \in Nat
  /\ Tables \in Nat /\ Tables >= 1 /\ ReportLimit \in Nat
BY TimesAssumption, SizesAssumption

LEMMA InitLoop == Init => LoopInv
<1> SUFFICES ASSUME Init PROVE LoopInv
  OBVIOUS
<1>1. NoRun \in NoRun..OldEnough
  BY Constants DEF NoRun, OldEnough
<1>2. age \in [Runs -> NoRun..OldEnough] /\ unseen \in [Runs -> Nat]
  BY <1>1 DEF Init
<1>3. TypeOK
  <2>1. outcome \in [ok : BOOLEAN, table : 0..Tables] /\ table \in 1..Tables
    BY Constants DEF Init
  <2>2. pc \in Places /\ stopping \in BOOLEAN
    BY DEF Init, Places
  <2>3. due \in Nat /\ left \in Nat /\ idle \in Nat /\ report \in SUBSET Runs
    BY DEF Init
  <2>4. QED
    BY <1>2, <2>1, <2>2, <2>3 DEF TypeOK
<1>4. OnTime
  BY Constants DEF Init, OnTime, Delay, Statements
<1>5. Covered
  BY Constants DEF Init, Covered, Statements
<1>6. QED
  BY <1>3, <1>4, <1>5 DEF LoopInv

\* A wait is no longer than either bound.
LEMMA WaitIsShort ==
  ASSUME NEW time \in Nat
  PROVE  WaitTime(time) \in Nat /\ WaitTime(time) <= time /\ WaitTime(time) <= WatchdogInterval
BY Constants DEF WaitTime, Lesser

LEMMA LookStep == LoopInv /\ Look => LoopInv'
<1> SUFFICES ASSUME LoopInv, Look PROVE LoopInv'
  OBVIOUS
<1> DEFINE rows == FirstOf(StaleRuns, RowLimit)
           named == FirstOf(rows, ReportLimit)
<1>1. StaleRuns \in SUBSET Runs /\ rows \in SUBSET Runs /\ named \in SUBSET Runs
  BY DEF StaleRuns, FirstOf
<1>2. IsFiniteSet(rows) /\ Cardinality(rows) \in Nat
  BY <1>1, SizesAssumption, FS_Subset, FS_CardinalityType
<1>3. ~ (Cardinality(rows) > ReportLimit) => named = StaleRuns
  <2> SUFFICES ASSUME Cardinality(rows) <= ReportLimit PROVE named = StaleRuns
    BY <1>2, Constants
  <2>1. Cardinality(FirstOf(StaleRuns, ReportLimit + 1)) <= ReportLimit
    BY DEF RowLimit
  <2>2. QED
    BY <1>1, <2>1, Constants, ShortReportIsComplete DEF RowLimit, LoopInv
<1>4. unseen' = [r \in Runs |-> 0]
  <2>1. unseen' = [r \in Runs |-> IF r \in named \/ Cardinality(rows) > ReportLimit \/ ~ Stale(r)
                                  THEN 0 ELSE unseen[r]]
    BY DEF Look
  <2>2. \A r \in Runs : r \in named \/ Cardinality(rows) > ReportLimit \/ ~ Stale(r)
    BY <1>3 DEF StaleRuns
  <2>3. QED
    BY <2>1, <2>2
<1>5. /\ report' = named /\ pc' = "deciding"
      /\ UNCHANGED <<table, due, left, stopping, age, idle, outcome>>
  BY DEF Look
<1> HIDE DEF named, rows
<1>6. TypeOK'
  BY <1>1, <1>4, <1>5 DEF LoopInv, TypeOK, Places
<1>7. OnTime'
  BY <1>5 DEF LoopInv, OnTime, Delay, Statements, Look
<1>8. Covered'
  BY <1>4, <1>5, Constants DEF Covered, Statements
<1>9. QED
  BY <1>6, <1>7, <1>8 DEF LoopInv

LEMMA LookFailsStep == LoopInv /\ LookFails => LoopInv'
<1> SUFFICES ASSUME LoopInv, LookFails PROVE LoopInv'
  OBVIOUS
<1>1. TypeOK'
  BY DEF LoopInv, TypeOK, Places, LookFails
<1>2. OnTime'
  BY DEF LoopInv, OnTime, Delay, Statements, LookFails
<1>3. Covered'
  BY Constants DEF Covered, Statements, LookFails
<1>4. QED
  BY <1>1, <1>2, <1>3 DEF LoopInv

LEMMA DecideStep == LoopInv /\ Decide => LoopInv'
<1> SUFFICES ASSUME LoopInv, Decide PROVE LoopInv'
  OBVIOUS
<1>1. due \in Nat /\ WaitTime(due) \in Nat /\ WaitTime(due) <= due
      /\ WaitTime(due) <= WatchdogInterval
  BY WaitIsShort DEF LoopInv, TypeOK
<1>2. TypeOK'
  BY <1>1, Constants DEF LoopInv, TypeOK, Places, Statements, Decide
<1>3. OnTime'
  BY <1>1, Constants DEF LoopInv, TypeOK, OnTime, Delay, Statements, Decide
<1>4. Covered'
  BY <1>1, Constants DEF LoopInv, TypeOK, Covered, Statements, Decide
<1>5. QED
  BY <1>2, <1>3, <1>4 DEF LoopInv

\* Statements that leave times and outcome alone.
LEMMA ExecuteStep ==
  ASSUME LoopInv, NEW from \in Statements, NEW to \in Statements, Execute(from, to)
  PROVE  LoopInv'
<1>1. TypeOK'
  BY DEF LoopInv, TypeOK, Places, Execute
<1>2. OnTime'
  BY DEF LoopInv, OnTime, Delay, Statements, Execute
<1>3. Covered'
  BY DEF LoopInv, Covered, Statements, Execute
<1>4. QED
  BY <1>1, <1>2, <1>3 DEF LoopInv

\* An attempt that ends sets the delay and the due time together.
LEMMA AttemptedStep ==
  ASSUME LoopInv, pc \in Statements, NEW ok \in BOOLEAN, NEW delay \in Nat,
         delay = IF ok THEN Interval ELSE RetryDelay, Attempted(ok, delay)
  PROVE  LoopInv'
<1>1. WaitTime(delay) \in Nat /\ WaitTime(delay) <= delay /\ WaitTime(delay) <= WatchdogInterval
  BY WaitIsShort
<1>2. TypeOK'
  BY <1>1, Constants DEF LoopInv, TypeOK, Places, Attempted
<1>3. OnTime'
  <2>1. idle' = 0 /\ due' = delay /\ pc' = "waiting" /\ left' = WaitTime(delay)
    BY DEF LoopInv, OnTime, Attempted
  <2>2. Delay' = delay
    BY DEF Delay, Attempted
  <2>3. QED
    BY <1>1, <2>1, <2>2 DEF OnTime, Statements
<1>4. Covered'
  BY <1>1, Constants DEF LoopInv, Covered, Statements, Attempted
<1>5. QED
  BY <1>2, <1>3, <1>4 DEF LoopInv

LEMMA RemoveOrphansStep == LoopInv /\ RemoveOrphans => LoopInv'
<1> SUFFICES ASSUME LoopInv, RemoveOrphans PROVE LoopInv'
  OBVIOUS
<1>1. CASE table = Tables
  BY <1>1, Constants, AttemptedStep DEF RemoveOrphans, Statements
<1>2. CASE table # Tables
  <2>1. TypeOK'
    <3>1. table \in 1..Tables /\ table + 1 \in 1..Tables
      BY <1>2, Constants DEF LoopInv, TypeOK
    <3>2. outcome' \in [ok : BOOLEAN, table : 0..Tables] /\ table' \in 1..Tables
      <4>1. outcome' = [ok |-> TRUE, table |-> table] /\ table' = table + 1
        BY <1>2 DEF RemoveOrphans
      <4>2. table \in 0..Tables
        BY <3>1, Constants
      <4>3. QED
        BY <3>1, <4>1, <4>2
    <3>3. pc' \in Places
      BY <1>2 DEF RemoveOrphans, Places, Statements
    <3>4. UNCHANGED <<due, left, stopping, age, report, unseen, idle>>
      BY <1>2 DEF RemoveOrphans
    <3>5. QED
      BY <3>2, <3>3, <3>4 DEF LoopInv, TypeOK
  <2>2. OnTime'
    BY <1>2, Constants DEF LoopInv, OnTime, Delay, Statements, RemoveOrphans
  <2>3. Covered'
    BY <1>2 DEF LoopInv, Covered, Statements, RemoveOrphans
  <2>4. QED
    BY <2>1, <2>2, <2>3 DEF LoopInv
<1>3. QED
  BY <1>1, <1>2

LEMMA EndWaitStep == LoopInv /\ EndWait => LoopInv'
<1> SUFFICES ASSUME LoopInv, EndWait PROVE LoopInv'
  OBVIOUS
<1>1. TypeOK'
  BY DEF LoopInv, TypeOK, Places, EndWait
<1>2. OnTime'
  BY DEF LoopInv, OnTime, Delay, Statements, EndWait
<1>3. Covered'
  BY DEF LoopInv, Covered, Statements, EndWait
<1>4. QED
  BY <1>1, <1>2, <1>3 DEF LoopInv

LEMMA AroundStep ==
  ASSUME LoopInv, Stop \/ \E r \in Runs : BeginRun(r) \/ EndRun(r)
  PROVE  LoopInv'
<1>1. TypeOK'
  <2>1. 0 \in NoRun..OldEnough /\ NoRun \in NoRun..OldEnough
    BY Constants DEF NoRun, OldEnough
  <2>2. CASE Stop
    BY <2>2 DEF LoopInv, TypeOK, Stop
  <2>3. ASSUME NEW r \in Runs, BeginRun(r) PROVE TypeOK'
    BY <2>1, <2>3 DEF LoopInv, TypeOK, BeginRun
  <2>4. ASSUME NEW r \in Runs, EndRun(r) PROVE TypeOK'
    BY <2>1, <2>4 DEF LoopInv, TypeOK, EndRun
  <2>5. QED
    BY <2>2, <2>3, <2>4
<1>2. OnTime'
  BY DEF LoopInv, OnTime, Delay, Statements, Stop, BeginRun, EndRun
<1>3. Covered'
  <2>1. \A r \in Runs : unseen'[r] = unseen[r] \/ unseen'[r] = 0
    BY DEF LoopInv, TypeOK, Stop, BeginRun, EndRun
  <2>2. pc' = pc /\ left' = left /\ left \in Nat /\ \A r \in Runs : unseen[r] \in Nat
    BY DEF LoopInv, TypeOK, Stop, BeginRun, EndRun
  <2>3. \A r \in Runs : unseen'[r] <= unseen[r]
    BY <2>1, <2>2
  <2>4. QED
    BY <2>1, <2>2, <2>3, Constants DEF LoopInv, Covered, Statements
<1>4. QED
  BY <1>1, <1>2, <1>3 DEF LoopInv

LEMMA TickStep == LoopInv /\ Tick => LoopInv'
<1> SUFFICES ASSUME LoopInv, Tick PROVE LoopInv'
  OBVIOUS
<1>1. \A r \in Runs : Older(r) \in NoRun..OldEnough
  BY Constants DEF LoopInv, TypeOK, Older, Lesser, NoRun, OldEnough
<1>2. due' \in Nat /\ due' = IF due = 0 THEN 0 ELSE due - 1
  BY DEF LoopInv, TypeOK, Tick, Pred
<1>3. CASE pc = "waiting"
  <2>1. left > 0 /\ left' = left - 1 /\ idle' = idle + 1 /\ left' \in Nat /\ idle' \in Nat
    BY <1>3 DEF LoopInv, TypeOK, Tick
  <2>2. unseen' \in [Runs -> Nat] /\ \A r \in Runs : unseen'[r] <= unseen[r] + 1
    BY <1>3 DEF LoopInv, TypeOK, Tick
  <2>3. TypeOK'
    BY <1>1, <1>2, <2>1, <2>2 DEF LoopInv, TypeOK, Tick
  <2>4. OnTime'
    BY <1>2, <1>3, <2>1, Constants DEF LoopInv, TypeOK, OnTime, Delay, Statements, Tick
  <2>5. Covered'
    BY <1>3, <2>1, <2>2, Constants DEF LoopInv, TypeOK, Covered, Statements, Tick
  <2>6. QED
    BY <2>3, <2>4, <2>5 DEF LoopInv
<1>4. CASE pc # "waiting"
  <2>1. UNCHANGED <<left, idle, unseen, pc, table, stopping, report, outcome>>
    BY <1>4 DEF Tick
  <2>2. TypeOK'
    BY <1>1, <1>2, <2>1 DEF LoopInv, TypeOK, Tick
  <2>3. OnTime'
    BY <1>2, <1>4, <2>1, Constants DEF LoopInv, TypeOK, OnTime, Delay, Statements
  <2>4. Covered'
    BY <1>4, <2>1 DEF LoopInv, Covered, Statements
  <2>5. QED
    BY <2>2, <2>3, <2>4 DEF LoopInv
<1>5. QED
  BY <1>3, <1>4

LEMMA LoopStep == LoopInv /\ [Next]_vars => LoopInv'
<1> SUFFICES ASSUME LoopInv, [Next]_vars PROVE LoopInv'
  OBVIOUS
<1>1. CASE Look \/ LookFails \/ Decide
  BY <1>1, LookStep, LookFailsStep, DecideStep
<1>2. CASE CountFiles \/ Optimize \/ ExpireSnapshots
  BY <1>2, ExecuteStep DEF CountFiles, Optimize, ExpireSnapshots, Statements
<1>3. CASE RemoveOrphans \/ EndWait
  BY <1>3, RemoveOrphansStep, EndWaitStep
<1>4. CASE MaintenanceFails
  BY <1>4, Constants, AttemptedStep DEF MaintenanceFails
<1>5. CASE Stop \/ \E r \in Runs : BeginRun(r) \/ EndRun(r)
  BY <1>5, AroundStep
<1>6. CASE Tick
  BY <1>6, TickStep
<1>7. CASE UNCHANGED vars
  BY <1>7 DEF vars, LoopInv, TypeOK, OnTime, Covered, Delay, Statements, Places
<1>8. QED
  BY <1>1, <1>2, <1>3, <1>4, <1>5, <1>6, <1>7 DEF Next, Loop

----------------------------------------------------------------------------
\* The variables keep their types; in particular no time gets below zero.
THEOREM TypeCorrect == Spec => []TypeOK
<1>1. LoopInv => TypeOK
  BY DEF LoopInv
<1>2. QED
  BY <1>1, InitLoop, LoopStep, PTL DEF Spec

\* For any intervals, number of open runs and limit of the report, and however maintenance
\* goes, the loop of maintenance.py waits no longer than the watchdog's interval before a
\* message covers a stale run.
THEOREM WatchdogCovers == Spec => []StaleRunsCovered
<1>1. LoopInv => StaleRunsCovered
  BY DEF LoopInv, Covered, StaleRunsCovered
<1>2. QED
  BY <1>1, InitLoop, LoopStep, PTL DEF Spec

\* For any intervals, the watchdog's waits never put maintenance off: the time waited since
\* an attempt is at most the delay that its outcome asks for.
THEOREM MaintenanceIsAttempted == Spec => []AttemptsOnSchedule
<1>1. LoopInv => AttemptsOnSchedule
  BY DEF LoopInv, OnTime, AttemptsOnSchedule
<1>2. QED
  BY <1>1, InitLoop, LoopStep, PTL DEF Spec

-------------------------------------------------------------------------------
(***************************************************************************)
(* Induction over the naturals, for sets instead of predicates.            *)
(***************************************************************************)

\* A set of naturals that is not empty has a least element.
LEMMA LeastNatural ==
  ASSUME NEW T \in SUBSET Nat, T # {}
  PROVE  \E m \in T : \A k \in T : m <= k
<1>1. \E m \in T : \A k \in T : <<k, m>> \notin OpToRel(<, Nat)
  BY NatLessThanWellFounded, WFMin
<1>2. PICK m \in T : \A k \in T : <<k, m>> \notin OpToRel(<, Nat)
  BY <1>1
<1>3. \A k \in T : ~ (k < m)
  BY <1>2 DEF OpToRel
<1> QED BY <1>3

\* A set that has 0, and with a number the next, has all of them.
LEMMA EveryNatural ==
  ASSUME NEW T, 0 \in T, \A n \in Nat : n \in T => n + 1 \in T
  PROVE  Nat \subseteq T
<1> SUFFICES ASSUME Nat \ T # {} PROVE FALSE
  OBVIOUS
<1>1. PICK m \in Nat \ T : \A k \in Nat \ T : m <= k
  BY LeastNatural
<1>2. m # 0 /\ m - 1 \in Nat
  BY <1>1
<1>3. m - 1 \in T
  BY <1>1, <1>2
<1> QED BY <1>1, <1>2, <1>3

-------------------------------------------------------------------------------
(***************************************************************************)
(* Concatenation of many: what FlattenSeq computes.                        *)
(***************************************************************************)

\* The equation of the recursion.
Flattens(f, ss) ==
  f = [i \in 1..Len(ss) |-> IF i = 1 THEN ss[i] ELSE f[i - 1] \o ss[i]]

\* tt goes on where ss ends.
Begins(ss, tt) ==
  /\ Len(ss) \in Nat /\ Len(tt) \in Nat /\ Len(ss) <= Len(tt)
  /\ \A i \in 1..Len(ss) : ss[i] = tt[i]

\* It has one solution at most ...
LEMMA FlattensAlike ==
  ASSUME NEW f, NEW g, NEW ss, NEW tt, Begins(ss, tt), Flattens(f, ss), Flattens(g, tt)
  PROVE  \A i \in 1..Len(ss) : f[i] = g[i]
<1>0. PICK n \in Nat : n = Len(ss) /\ n <= Len(tt) /\ \A i \in 1..n : ss[i] = tt[i]
  BY DEF Begins
<1> DEFINE T == {i \in 1..n : f[i] # g[i]}
<1> SUFFICES ASSUME T # {} PROVE FALSE
  BY <1>0
<1>1. PICK m \in T : \A k \in T : m <= k
  <2>1. T \subseteq Nat
    OBVIOUS
  <2> HIDE DEF T
  <2> QED BY <2>1, LeastNatural
<1>2. m \in 1..n /\ m \in 1..Len(ss) /\ m \in 1..Len(tt)
  BY <1>0 DEF Begins
<1>3. f[m] = IF m = 1 THEN ss[m] ELSE f[m - 1] \o ss[m]
  BY <1>2 DEF Flattens
<1>4. g[m] = IF m = 1 THEN tt[m] ELSE g[m - 1] \o tt[m]
  BY <1>2 DEF Flattens
<1>5. m # 1 => m - 1 \in 1..n /\ m - 1 \notin T
  BY <1>1, <1>2
<1> QED BY <1>0, <1>1, <1>2, <1>3, <1>4, <1>5

\* ... and one at least.
LEMMA FlattensExists ==
  ASSUME NEW S, NEW ss \in Seq(Seq(S))
  PROVE  \E f : Flattens(f, ss)
<1> DEFINE P(n, f) == \A i \in 1..n : i <= Len(ss) =>
                         f[i] = IF i = 1 THEN ss[i] ELSE f[i - 1] \o ss[i]
           T == {n \in Nat : \E f : P(n, f)}
<1>1. 0 \in T
  OBVIOUS
<1>2. ASSUME NEW n \in Nat, n \in T PROVE n + 1 \in T
  <2>1. PICK f : P(n, f)
    BY <1>2
  <2> DEFINE g == [i \in 1..(n + 1) |-> IF i = 1 THEN ss[i] ELSE
                                      IF i = n + 1 THEN f[i - 1] \o ss[i] ELSE f[i]]
  <2>2. \A i \in 1..n : i <= Len(ss) => g[i] = f[i]
    BY <2>1
  <2>3. P(n + 1, g)
    <3> SUFFICES ASSUME NEW i \in 1..(n + 1), i <= Len(ss)
                 PROVE  g[i] = IF i = 1 THEN ss[i] ELSE g[i - 1] \o ss[i]
      OBVIOUS
    <3>1. CASE i = 1
      BY <3>1
    <3>2. CASE i # 1 /\ i = n + 1
      <4>1. i - 1 \in 1..n /\ i - 1 <= Len(ss)
        BY <3>2
      <4>2. g[i - 1] = f[i - 1]
        BY <4>1, <2>2
      <4> QED BY <3>2, <4>2
    <3>3. CASE i # 1 /\ i # n + 1
      <4>1. i \in 1..n /\ i - 1 \in 1..n /\ i - 1 <= Len(ss)
        BY <3>3
      <4>2. g[i] = f[i] /\ g[i - 1] = f[i - 1]
        BY <4>1, <2>2
      <4> QED BY <3>3, <4>1, <4>2, <2>1
    <3> QED BY <3>1, <3>2, <3>3
  <2> HIDE DEF P
  <2> QED BY <2>3
<1>3. Nat \subseteq T
  <2> HIDE DEF T
  <2> QED BY <1>1, <1>2, EveryNatural
<1>4. PICK f : P(Len(ss), f)
  BY <1>3, LenProperties
<1> DEFINE h == [i \in 1..Len(ss) |-> f[i]]
<1>5. Flattens(h, ss)
  <2>1. ASSUME NEW i \in 1..Len(ss)
        PROVE  h[i] = IF i = 1 THEN ss[i] ELSE h[i - 1] \o ss[i]
    <3>1. Len(ss) \in Nat
      OBVIOUS
    <3>2. i # 1 => h[i - 1] = f[i - 1]
      BY <3>1
    <3> QED BY <1>4, <3>1, <3>2
  <2> QED BY <2>1, Zenon DEF Flattens
<1> QED BY <1>5

\* What FlattenSeq chooses is that solution.
LEMMA FlattenedBy ==
  ASSUME NEW S, NEW ss \in Seq(Seq(S)), ss # <<>>
  PROVE  \E f : Flattens(f, ss) /\ FlattenSeq(ss) = f[Len(ss)]
<1> DEFINE c == CHOOSE f : Flattens(f, ss)
<1>1. Flattens(c, ss)
  BY FlattensExists
<1>2. Len(ss) # 0
  OBVIOUS
<1>3. FlattenSeq(ss) = c[Len(ss)]
  BY <1>2, Zenon DEF FlattenSeq, Flattens
<1> QED BY <1>1, <1>3

\* FlattenSeq of nothing.
LEMMA FlattenEmpty == FlattenSeq(<<>>) = <<>>
<1>1. Len(<<>>) = 0
  OBVIOUS
<1> QED BY <1>1, Zenon DEF FlattenSeq

\* It is a sequence of what the sequences have.
LEMMA FlattenIsSeq ==
  ASSUME NEW S, NEW ss \in Seq(Seq(S))
  PROVE  FlattenSeq(ss) \in Seq(S)
<1>1. CASE ss = <<>>
  <2>1. FlattenSeq(ss) = <<>>
    BY <1>1, FlattenEmpty
  <2> QED BY <2>1
<1>2. CASE ss # <<>>
  <2>1. PICK f : Flattens(f, ss) /\ FlattenSeq(ss) = f[Len(ss)]
    BY <1>2, FlattenedBy
  <2> DEFINE T == {i \in 1..Len(ss) : f[i] \notin Seq(S)}
  <2>2. ASSUME T # {} PROVE FALSE
    <3>1. PICK m \in T : \A k \in T : m <= k
      <4>1. T \subseteq Nat
        OBVIOUS
      <4> HIDE DEF T
      <4> QED BY <2>2, <4>1, LeastNatural
    <3>2. m \in 1..Len(ss) /\ Len(ss) \in Nat /\ ss[m] \in Seq(S)
      OBVIOUS
    <3>3. f[m] = IF m = 1 THEN ss[m] ELSE f[m - 1] \o ss[m]
      BY <2>1, <3>2 DEF Flattens
    <3>4. m # 1 => m - 1 \in 1..Len(ss) /\ m - 1 \notin T
      BY <3>1, <3>2
    <3>5. m # 1 => f[m - 1] \in Seq(S)
      BY <3>4
    <3>6. f[m] \in Seq(S)
      BY <3>2, <3>3, <3>5, ConcatProperties
    <3> QED BY <3>6
  <2>3. Len(ss) \in 1..Len(ss)
    BY <1>2
  <2> QED BY <2>1, <2>2, <2>3
<1> QED BY <1>1, <1>2

\* FlattenSeq of one sequence more.
LEMMA FlattenAppend ==
  ASSUME NEW S, NEW ss \in Seq(Seq(S)), NEW s \in Seq(S)
  PROVE  FlattenSeq(Append(ss, s)) = FlattenSeq(ss) \o s
<1>1. PICK tt : tt = Append(ss, s)
  OBVIOUS
<1>2. PICK n \in Nat : n = Len(ss)
  OBVIOUS
<1>3. /\ tt \in Seq(Seq(S)) /\ tt # <<>> /\ Len(tt) = n + 1
      /\ tt[n + 1] = s /\ Begins(ss, tt)
  BY <1>1, <1>2, AppendProperties DEF Begins
<1>4. PICK g : Flattens(g, tt) /\ FlattenSeq(tt) = g[Len(tt)]
  BY <1>3, FlattenedBy
<1>5. g[n + 1] = IF n + 1 = 1 THEN s ELSE g[n] \o s
  <2>1. PICK k : k = n + 1
    OBVIOUS
  <2>2. k \in 1..Len(tt) /\ k - 1 = n
    BY <1>3, <2>1
  <2>3. g[k] = IF k = 1 THEN tt[k] ELSE g[k - 1] \o tt[k]
    BY <1>4, <2>2 DEF Flattens
  <2> QED BY <1>3, <2>1, <2>2, <2>3
<1>6. CASE n = 0
  <2>1. FlattenSeq(ss) = <<>>
    <3>1. ss = <<>>
      BY <1>2, <1>6, EmptySeq
    <3> QED BY <3>1, FlattenEmpty
  <2>2. <<>> \o s = s
    BY ConcatEmptySeq
  <2>3. FlattenSeq(tt) = s
    BY <1>3, <1>4, <1>5, <1>6
  <2> QED BY <1>1, <2>1, <2>2, <2>3
<1>7. CASE n # 0
  <2>1. ss # <<>>
    BY <1>2, <1>7
  <2>2. PICK f : Flattens(f, ss) /\ FlattenSeq(ss) = f[Len(ss)]
    BY <2>1, FlattenedBy
  <2>3. \A i \in 1..Len(ss) : f[i] = g[i]
    BY <1>3, <1>4, <2>2, FlattensAlike
  <2>4. f[n] = g[n]
    BY <1>2, <1>7, <2>3
  <2> QED BY <1>1, <1>2, <1>3, <1>4, <1>5, <1>7, <2>2, <2>4
<1> QED BY <1>6, <1>7

\* Where the k-th sequence ends in the concatenation.
EndOf(ss, k) == Len(FlattenSeq(SubSeq(ss, 1, k)))

\* The first k sequences are the first k - 1 and one more.
LEMMA FlattenGrows ==
  ASSUME NEW S, NEW ss \in Seq(Seq(S)), NEW k \in 1..Len(ss)
  PROVE  /\ SubSeq(ss, 1, k - 1) \in Seq(Seq(S)) /\ SubSeq(ss, 1, k) \in Seq(Seq(S))
         /\ ss[k] \in Seq(S)
         /\ FlattenSeq(SubSeq(ss, 1, k)) = FlattenSeq(SubSeq(ss, 1, k - 1)) \o ss[k]
<1>1. PICK U : U = Seq(S)
  OBVIOUS
<1>2. ss \in Seq(U) /\ k \in 1..Len(ss) /\ 1 \in 1..Len(ss)
  BY <1>1
<1>3. ss[k] \in U
  BY <1>2
<1>4. SubSeq(ss, 1, k - 1) \in Seq(U) /\ SubSeq(ss, 1, k) \in Seq(U)
  BY <1>2, SubSeqProperties
<1>5. SubSeq(ss, 1, k) = SubSeq(ss, 1, k - 1) \o <<ss[k]>>
  BY <1>2, SubSeqRecursiveSecond
<1>6. SubSeq(ss, 1, k) = Append(SubSeq(ss, 1, k - 1), ss[k])
  BY <1>3, <1>4, <1>5, AppendIsConcat
<1> QED BY <1>1, <1>3, <1>4, <1>6, FlattenAppend

\* Where the sequences are in their concatenation.
LEMMA FlattenPlaces ==
  ASSUME NEW S, NEW ss \in Seq(Seq(S)), NEW size \in Nat, size = Len(ss)
  PROVE  /\ EndOf(ss, 0) = 0 /\ EndOf(ss, size) = Len(FlattenSeq(ss))
         /\ \A k \in 0..size : EndOf(ss, k) \in Nat /\ EndOf(ss, k) <= EndOf(ss, size)
         /\ \A k \in 1..size : EndOf(ss, k) = EndOf(ss, k - 1) + Len(ss[k])
         /\ \A k \in 1..size : \A j \in 1..Len(ss[k]) :
              FlattenSeq(ss)[EndOf(ss, k - 1) + j] = ss[k][j]
<1>1. SubSeq(ss, 1, 0) = <<>> /\ FlattenSeq(<<>>) = <<>> /\ EndOf(ss, 0) = 0
  <2>1. SubSeq(ss, 1, 0) = <<>>
    BY SubSeqEmpty
  <2>2. EndOf(ss, 0) = Len(<<>>)
    BY <2>1, FlattenEmpty, Zenon DEF EndOf
  <2> QED BY <2>1, <2>2, FlattenEmpty
<1>2. SubSeq(ss, 1, size) = ss
  <2>1. PICK U : U = Seq(S)
    OBVIOUS
  <2> QED BY <2>1, SubSeqFull
<1> DEFINE F(k) == FlattenSeq(SubSeq(ss, 1, k))
<1>3. \A k \in 1..size : F(k - 1) \in Seq(S) /\ F(k) \in Seq(S) /\ ss[k] \in Seq(S) /\ F(k) = F(k - 1) \o ss[k]
  BY FlattenGrows, FlattenIsSeq
<1>4. \A k \in 1..size :
        /\ EndOf(ss, k - 1) \in Nat /\ EndOf(ss, k) \in Nat
        /\ EndOf(ss, k) = EndOf(ss, k - 1) + Len(ss[k]) /\ Len(ss[k]) \in Nat
        /\ \A i \in 1..EndOf(ss, k) :
             F(k)[i] = IF i <= EndOf(ss, k - 1) THEN F(k - 1)[i] ELSE ss[k][i - EndOf(ss, k - 1)]
  <2> SUFFICES ASSUME NEW k \in 1..size
               PROVE  /\ EndOf(ss, k - 1) \in Nat /\ EndOf(ss, k) \in Nat
                      /\ EndOf(ss, k) = EndOf(ss, k - 1) + Len(ss[k]) /\ Len(ss[k]) \in Nat
                      /\ \A i \in 1..EndOf(ss, k) :
                           F(k)[i] = IF i <= EndOf(ss, k - 1) THEN F(k - 1)[i]
                                     ELSE ss[k][i - EndOf(ss, k - 1)]
    OBVIOUS
  <2>1. PICK a \in Seq(S) : a = F(k - 1)
    BY <1>3
  <2>2. PICK b \in Seq(S) : b = ss[k]
    BY <1>3
  <2>3. F(k) = a \o b
    BY <1>3, <2>1, <2>2
  <2>4. EndOf(ss, k - 1) = Len(a) /\ EndOf(ss, k) = Len(a \o b)
    BY <2>1, <2>3 DEF EndOf
  <2> HIDE DEF F
  <2>5. /\ Len(a \o b) = Len(a) + Len(b) /\ Len(a) \in Nat /\ Len(b) \in Nat
        /\ \A i \in 1..(Len(a) + Len(b)) : (a \o b)[i] = IF i <= Len(a) THEN a[i] ELSE b[i - Len(a)]
    BY ConcatProperties
  <2>6. PICK f : f = F(k)
    OBVIOUS
  <2>7. PICK m \in Nat : m = EndOf(ss, k - 1)
    BY <2>4, <2>5
  <2>8. m = Len(a) /\ f = a \o b /\ EndOf(ss, k) = Len(a) + Len(b)
    BY <2>3, <2>4, <2>5, <2>6, <2>7
  <2>9. \A i \in 1..EndOf(ss, k) : f[i] = IF i <= m THEN a[i] ELSE b[i - m]
    BY <2>5, <2>8
  <2>10. \A i \in 1..EndOf(ss, k) :
           F(k)[i] = IF i <= EndOf(ss, k - 1) THEN F(k - 1)[i] ELSE ss[k][i - EndOf(ss, k - 1)]
    BY <2>1, <2>2, <2>6, <2>7, <2>9, Zenon
  <2> QED BY <2>2, <2>5, <2>7, <2>8, <2>10
<1> DEFINE T == {n \in Nat : n <= size =>
                   /\ EndOf(ss, n) \in Nat
                   /\ \A k \in 0..n : EndOf(ss, k) \in Nat /\ EndOf(ss, k) <= EndOf(ss, n)
                   /\ \A k \in 1..n : \A j \in 1..Len(ss[k]) : F(n)[EndOf(ss, k - 1) + j] = ss[k][j]}
<1> HIDE DEF F
<1>5. 0 \in T
  BY <1>1
<1>6. ASSUME NEW n \in Nat, n \in T PROVE n + 1 \in T
  <2> SUFFICES ASSUME n + 1 <= size
               PROVE  /\ EndOf(ss, n + 1) \in Nat
                      /\ \A k \in 0..(n + 1) : EndOf(ss, k) \in Nat /\ EndOf(ss, k) <= EndOf(ss, n + 1)
                      /\ \A k \in 1..(n + 1) : \A j \in 1..Len(ss[k]) :
                           F(n + 1)[EndOf(ss, k - 1) + j] = ss[k][j]
    OBVIOUS
  <2>0. PICK m \in 1..size : m = n + 1 /\ m - 1 = n
    OBVIOUS
  <2>1. /\ EndOf(ss, n) \in Nat /\ EndOf(ss, m) \in Nat
        /\ EndOf(ss, m) = EndOf(ss, n) + Len(ss[m]) /\ Len(ss[m]) \in Nat
        /\ \A i \in 1..EndOf(ss, m) :
             F(m)[i] = IF i <= EndOf(ss, n) THEN F(n)[i] ELSE ss[m][i - EndOf(ss, n)]
    BY <1>4, <2>0
  <2>2. \A k \in 0..m : EndOf(ss, k) \in Nat /\ EndOf(ss, k) <= EndOf(ss, m)
    <3>1. \A k \in 0..n : EndOf(ss, k) \in Nat /\ EndOf(ss, k) <= EndOf(ss, n)
      BY <1>6
    <3> QED BY <2>0, <2>1, <3>1
  <2>3. ASSUME NEW k \in 1..m, NEW j \in 1..Len(ss[k]) PROVE F(m)[EndOf(ss, k - 1) + j] = ss[k][j]
    <3>1. CASE k = m
      <4>1. EndOf(ss, n) + j \in 1..EndOf(ss, m) /\ ~ (EndOf(ss, n) + j <= EndOf(ss, n))
            /\ EndOf(ss, n) + j - EndOf(ss, n) = j
        BY <2>1, <3>1
      <4> QED BY <2>0, <2>1, <3>1, <4>1
    <3>2. CASE k # m
      <4>1. k \in 1..n /\ k \in 1..size
        BY <2>0, <3>2
      <4>2. F(n)[EndOf(ss, k - 1) + j] = ss[k][j] /\ EndOf(ss, k) <= EndOf(ss, n)
        BY <1>6, <2>0, <4>1
      <4>3. EndOf(ss, k) = EndOf(ss, k - 1) + Len(ss[k]) /\ EndOf(ss, k - 1) \in Nat /\ Len(ss[k]) \in Nat
        BY <1>4, <4>1
      <4>4. EndOf(ss, k - 1) + j \in 1..EndOf(ss, m) /\ EndOf(ss, k - 1) + j <= EndOf(ss, n)
        <5>1. PICK a \in Nat : a = EndOf(ss, k - 1)
          BY <4>3
        <5>2. PICK s \in Nat : s = Len(ss[k])
          BY <4>3
        <5>3. PICK c \in Nat : c = EndOf(ss, n)
          BY <2>1
        <5>4. PICK d \in Nat : d = EndOf(ss, m) /\ c <= d
          BY <2>1, <5>3
        <5>5. EndOf(ss, k) = a + s
          BY <4>3, <5>1, <5>2
        <5>6. EndOf(ss, k) <= c
          BY <4>2, <5>3, Zenon
        <5>7. j \in 1..s
          BY <5>2
        <5>8. a + s <= c
          BY <5>5, <5>6, Zenon
        <5>9. a + j \in 1..d /\ a + j <= c
          BY <5>4, <5>7, <5>8
        <5> QED BY <5>1, <5>3, <5>4, <5>9, Zenon
      <4>5. F(m)[EndOf(ss, k - 1) + j] = F(n)[EndOf(ss, k - 1) + j]
        <5>1. PICK i \in 1..EndOf(ss, m) : i = EndOf(ss, k - 1) + j /\ i <= EndOf(ss, n)
          BY <4>4
        <5>2. F(m)[i] = F(n)[i]
          BY <2>1, <5>1
        <5> QED BY <5>1, <5>2
      <4> QED BY <4>2, <4>5
    <3> QED BY <3>1, <3>2
  <2> QED BY <2>0, <2>1, <2>2, <2>3
<1>7. size \in T
  <2> HIDE DEF T
  <2> QED BY <1>5, <1>6, EveryNatural
<1>8. F(size) = FlattenSeq(ss) /\ EndOf(ss, size) = Len(FlattenSeq(ss))
  BY <1>2 DEF F, EndOf
<1> QED BY <1>1, <1>4, <1>7, <1>8

-------------------------------------------------------------------------------
(***************************************************************************)
(* Sums: what SumFunctionOnSet computes.                                   *)
(***************************************************************************)

\* The element that the sum takes off a set.
Chosen(s) == CHOOSE x \in s : TRUE

\* It is one of its elements.
LEMMA ChosenIsIn == ASSUME NEW s, s # {} PROVE Chosen(s) \in s
BY Zenon DEF Chosen

\* The equation of the recursion, for one set and for all subsets of S.
SumStep(it, f, s) == IF s = {} THEN 0 ELSE f[Chosen(s)] + it[s \ {Chosen(s)}]
Sums(it, f, S) == it = [s \in SUBSET S |-> SumStep(it, f, s)]

\* The equation holds of every subset.
LEMMA SumsAt ==
  ASSUME NEW it, NEW f, NEW S, Sums(it, f, S), NEW s \in SUBSET S
  PROVE  it[s] = IF s = {} THEN 0 ELSE f[Chosen(s)] + it[s \ {Chosen(s)}]
<1>1. it[s] = SumStep(it, f, s)
  BY Zenon DEF Sums
<1> QED BY <1>1 DEF SumStep

\* A finite set has one element more than without its chosen one.
LEMMA OneLess ==
  ASSUME NEW s, IsFiniteSet(s), s # {}, NEW x \in s
  PROVE  /\ IsFiniteSet(s \ {x}) /\ Cardinality(s) \in Nat
         /\ Cardinality(s \ {x}) = Cardinality(s) - 1
         /\ Cardinality(s) # 0
BY FS_RemoveElement, FS_CardinalityType, FS_EmptySet

\* Two solutions agree on the sets that both have, if their functions do.
LEMMA SumsAlike ==
  ASSUME NEW it, NEW f, NEW S, NEW jt, NEW g, NEW T, Sums(it, f, S), Sums(jt, g, T),
         NEW U, U \subseteq S, U \subseteq T, IsFiniteSet(U), \A x \in U : f[x] = g[x]
  PROVE  it[U] = jt[U]
<1> DEFINE P(n) == \A s \in SUBSET U : Cardinality(s) <= n => it[s] = jt[s]
           N == {n \in Nat : P(n)}
<1>0. ASSUME NEW s \in SUBSET U PROVE IsFiniteSet(s) /\ Cardinality(s) \in Nat
  BY FS_Subset, FS_CardinalityType
<1>1. ASSUME NEW s \in SUBSET U
      PROVE  /\ it[s] = IF s = {} THEN 0 ELSE f[Chosen(s)] + it[s \ {Chosen(s)}]
             /\ jt[s] = IF s = {} THEN 0 ELSE g[Chosen(s)] + jt[s \ {Chosen(s)}]
             /\ s # {} => f[Chosen(s)] = g[Chosen(s)]
  <2>1. s \in SUBSET S /\ s \in SUBSET T
    OBVIOUS
  <2>3. s # {} => Chosen(s) \in U
    BY ChosenIsIn
  <2>4. it[s] = IF s = {} THEN 0 ELSE f[Chosen(s)] + it[s \ {Chosen(s)}]
    BY <2>1, SumsAt
  <2>5. jt[s] = IF s = {} THEN 0 ELSE g[Chosen(s)] + jt[s \ {Chosen(s)}]
    BY <2>1, SumsAt
  <2> QED BY <2>3, <2>4, <2>5
<1>2. 0 \in N
  <2>1. ASSUME NEW s \in SUBSET U, Cardinality(s) <= 0 PROVE it[s] = jt[s]
    <3>1. IsFiniteSet(s) /\ Cardinality(s) = 0
      BY <1>0, <2>1
    <3>2. s = {}
      BY <3>1, FS_EmptySet
    <3> QED BY <1>1, <3>2
  <2> QED BY <2>1
<1>3. ASSUME NEW n \in Nat, n \in N PROVE n + 1 \in N
  <2>1. ASSUME NEW s \in SUBSET U, Cardinality(s) <= n + 1, s # {} PROVE it[s] = jt[s]
    <3>1. Chosen(s) \in s
      BY <2>1, ChosenIsIn
    <3>2. Cardinality(s \ {Chosen(s)}) <= n
      <4>1. IsFiniteSet(s) /\ Cardinality(s) \in Nat
        BY <1>0
      <4>2. Cardinality(s \ {Chosen(s)}) = Cardinality(s) - 1
        BY <2>1, <3>1, <4>1, OneLess
      <4> QED BY <2>1, <4>1, <4>2
    <3>3. it[s \ {Chosen(s)}] = jt[s \ {Chosen(s)}]
      BY <1>3, <3>2
    <3> QED BY <1>1, <2>1, <3>3
  <2>2. P(n + 1)
    BY <1>1, <2>1
  <2> HIDE DEF P
  <2> QED BY <2>2
<1>4. Nat \subseteq N
  <2> HIDE DEF N
  <2> QED BY <1>2, <1>3, EveryNatural
<1>5. Cardinality(U) \in N /\ Cardinality(U) \in Nat
  BY <1>0, <1>4
<1>6. P(Cardinality(U))
  BY <1>5
<1> QED BY <1>5, <1>6

\* There is one.
LEMMA SumsExists ==
  ASSUME NEW f, NEW S, IsFiniteSet(S)
  PROVE  \E it : Sums(it, f, S)
<1> DEFINE P(n, it) == \A s \in SUBSET S : Cardinality(s) <= n => it[s] = SumStep(it, f, s)
           N == {n \in Nat : \E it : P(n, it)}
<1>1. ASSUME NEW s \in SUBSET S PROVE IsFiniteSet(s) /\ Cardinality(s) \in Nat
  BY FS_Subset, FS_CardinalityType
<1>2. 0 \in N
  <2> DEFINE it == [s \in SUBSET S |-> 0]
  <2>1. ASSUME NEW s \in SUBSET S, Cardinality(s) <= 0 PROVE it[s] = SumStep(it, f, s)
    BY <1>1, <2>1, FS_EmptySet DEF SumStep
  <2>2. P(0, it)
    BY <2>1
  <2> HIDE DEF P
  <2> QED BY <2>2
<1>3. ASSUME NEW n \in Nat, n \in N PROVE n + 1 \in N
  <2>1. PICK it : P(n, it)
    BY <1>3
  <2> DEFINE jt == [s \in SUBSET S |-> SumStep(it, f, s)]
  <2>2. ASSUME NEW s \in SUBSET S, Cardinality(s) <= n + 1 PROVE jt[s] = SumStep(jt, f, s)
    <3>1. CASE s = {}
      BY <3>1 DEF SumStep
    <3>2. CASE s # {}
      <4> DEFINE t == s \ {Chosen(s)}
      <4>1. Chosen(s) \in s /\ t \in SUBSET S
        BY <3>2, ChosenIsIn
      <4>2. Cardinality(t) <= n
        BY <1>1, <2>2, <3>2, <4>1, OneLess
      <4>3. jt[t] = it[t]
        BY <2>1, <4>1, <4>2
      <4> QED BY <3>2, <4>3 DEF SumStep
    <3> QED BY <3>1, <3>2
  <2>3. P(n + 1, jt)
    BY <2>2
  <2> HIDE DEF P
  <2> QED BY <2>3
<1>4. Nat \subseteq N
  <2> HIDE DEF N
  <2> QED BY <1>2, <1>3, EveryNatural
<1>5. PICK it : P(Cardinality(S), it)
  BY <1>1, <1>4
<1> DEFINE jt == [s \in SUBSET S |-> it[s]]
<1>6. ASSUME NEW s \in SUBSET S PROVE jt[s] = SumStep(jt, f, s)
  <2>1. Cardinality(s) <= Cardinality(S)
    BY FS_Subset
  <2>2. it[s] = SumStep(it, f, s)
    BY <1>5, <2>1
  <2>3. s # {} => s \ {Chosen(s)} \in SUBSET S
    OBVIOUS
  <2> QED BY <2>2, <2>3 DEF SumStep
<1>7. Sums(jt, f, S)
  BY <1>6, Zenon DEF Sums
<1> QED BY <1>7

\* It is what SumFunctionOnSet chooses.
LEMMA SummedBy ==
  ASSUME NEW f, NEW S, IsFiniteSet(S)
  PROVE  \E it : Sums(it, f, S) /\ SumFunctionOnSet(f, S) = it[S]
<1> DEFINE c == CHOOSE it : Sums(it, f, S)
<1>1. Sums(c, f, S)
  BY SumsExists
<1>2. SumFunctionOnSet(f, S) = c[S]
  BY Zenon DEF SumFunctionOnSet, FoldFunctionOnSet, MapThenFoldSet, Sums, SumStep, Chosen
<1> QED BY <1>1, <1>2

\* The elements of S have weights.
Weighs(f, S) == \A x \in S : f[x] \in Nat

\* Any element may be taken off a sum first.
LEMMA SumTakesAny ==
  ASSUME NEW it, NEW f, NEW S, IsFiniteSet(S), Sums(it, f, S), Weighs(f, S)
  PROVE  it[S] \in Nat /\ \A x \in S : it[S] = f[x] + it[S \ {x}]
<1> DEFINE P(n) == \A s \in SUBSET S : Cardinality(s) <= n =>
                     it[s] \in Nat /\ \A y \in s : it[s] = f[y] + it[s \ {y}]
           N == {n \in Nat : P(n)}
<1>1. ASSUME NEW s \in SUBSET S PROVE IsFiniteSet(s) /\ Cardinality(s) \in Nat
  BY FS_Subset, FS_CardinalityType
<1>2. 0 \in N
  <2>1. ASSUME NEW s \in SUBSET S, Cardinality(s) <= 0
        PROVE  it[s] \in Nat /\ \A y \in s : it[s] = f[y] + it[s \ {y}]
    <3>1. IsFiniteSet(s) /\ Cardinality(s) = 0
      BY <1>1, <2>1
    <3>2. s = {}
      BY <3>1, FS_EmptySet
    <3>3. it[s] = 0
      BY <3>2, SumsAt
    <3> QED BY <3>2, <3>3
  <2> QED BY <2>1
<1>3. ASSUME NEW n \in Nat, n \in N PROVE n + 1 \in N
  <2>1. ASSUME NEW s \in SUBSET S, Cardinality(s) <= n + 1
        PROVE  it[s] \in Nat /\ \A y \in s : it[s] = f[y] + it[s \ {y}]
    <3>1. CASE s = {}
      BY <3>1, SumsAt
    <3>2. CASE s # {}
      <4>1. PICK c \in s : c = Chosen(s)
        BY <3>2, ChosenIsIn
      <4>2. it[s] = f[c] + it[s \ {c}]
        BY <3>2, <4>1, SumsAt
      <4>3. ASSUME NEW y \in s
            PROVE  /\ IsFiniteSet(s \ {y}) /\ Cardinality(s \ {y}) <= n
                   /\ it[s \ {y}] \in Nat
                   /\ \A z \in s \ {y} : it[s \ {y}] = f[z] + it[(s \ {y}) \ {z}]
        <5>1. IsFiniteSet(s) /\ Cardinality(s) \in Nat
          BY <1>1
        <5>2. IsFiniteSet(s \ {y}) /\ Cardinality(s \ {y}) = Cardinality(s) - 1
          BY <3>2, <5>1, OneLess
        <5>3. Cardinality(s \ {y}) <= n /\ s \ {y} \in SUBSET S
          BY <2>1, <5>1, <5>2
        <5> QED BY <1>3, <5>2, <5>3
      <4>4. it[s \ {c}] \in Nat
        BY <4>3
      <4>5. ASSUME NEW y \in s, y # c PROVE it[s] = f[y] + it[s \ {y}]
        <5> DEFINE t == (s \ {c}) \ {y}
        <5>1. it[s \ {c}] = f[y] + it[t]
          BY <4>3, <4>5
        <5>2. it[s \ {y}] = f[c] + it[t]
          <6>1. t = (s \ {y}) \ {c} /\ c \in s \ {y}
            BY <4>5
          <6> HIDE DEF t
          <6> QED BY <4>3, <4>5, <6>1
        <5>3. it[t] \in Nat
          <6>1. y \in s \ {c} /\ s \ {c} \in SUBSET S /\ IsFiniteSet(s \ {c})
            BY <4>3, <4>5
          <6>2. Cardinality(t) <= n /\ t \in SUBSET S
            <7>1. Cardinality(t) = Cardinality(s \ {c}) - 1 /\ Cardinality(s \ {c}) \in Nat
              BY <6>1, OneLess
            <7>2. Cardinality(s \ {c}) <= n
              BY <4>3
            <7> HIDE DEF t
            <7>3. Cardinality(t) <= n
              BY <7>1, <7>2
            <7> QED BY <7>3 DEF t
          <6> QED BY <1>3, <6>2
        <5>4. f[y] \in Nat /\ f[c] \in Nat
          BY DEF Weighs
        <5> HIDE DEF t
        <5> QED BY <4>2, <5>1, <5>2, <5>3, <5>4
      <4>6. it[s] \in Nat
        BY <4>2, <4>4 DEF Weighs
      <4> QED BY <4>2, <4>5, <4>6
    <3> QED BY <3>1, <3>2
  <2>2. P(n + 1)
    BY <2>1
  <2> HIDE DEF P
  <2> QED BY <2>2
<1>4. Nat \subseteq N
  <2> HIDE DEF N
  <2> QED BY <1>2, <1>3, EveryNatural
<1>5. Cardinality(S) \in N /\ Cardinality(S) \in Nat
  BY <1>1, <1>4
<1>6. P(Cardinality(S))
  BY <1>5
<1> QED BY <1>5, <1>6

\* The same, with a name for the rest.
LEMMA SumTakes ==
  ASSUME NEW it, NEW f, NEW S, IsFiniteSet(S), Sums(it, f, S), Weighs(f, S),
         NEW x \in S, NEW T, T = S \ {x}
  PROVE  it[S] = f[x] + it[T]
BY SumTakesAny

\* The sum of an empty sequence.
LEMMA SumEmpty == ASSUME NEW f, DOMAIN f = {} PROVE SumFunction(f) = 0
<1>1. PICK it : Sums(it, f, {}) /\ SumFunctionOnSet(f, {}) = it[{}]
  BY SummedBy, FS_EmptySet
<1>2. it[{}] = 0
  BY <1>1, SumsAt
<1> QED BY <1>1, <1>2 DEF SumFunction

\* It grows by the number that is added.
LEMMA SumOneMore ==
  ASSUME NEW n \in Nat, NEW g \in [1..n -> Nat], NEW f \in [1..(n + 1) -> Nat],
         \A i \in 1..n : f[i] = g[i]
  PROVE  SumFunction(f) \in Nat /\ SumFunction(f) = SumFunction(g) + f[n + 1]
<1> DEFINE U == 1..n
           S == 1..(n + 1)
<1>1. IsFiniteSet(U) /\ IsFiniteSet(S)
  BY FS_Interval
<1>2. DOMAIN f = S /\ DOMAIN g = U /\ U = S \ {n + 1} /\ n + 1 \in S /\ U \subseteq S
  OBVIOUS
<1>3. Weighs(f, S) /\ Weighs(g, U) /\ (\A x \in U : f[x] = g[x]) /\ f[n + 1] \in Nat
  BY DEF Weighs
<1> HIDE DEF U, S
<1>4. PICK it : Sums(it, f, S) /\ SumFunctionOnSet(f, S) = it[S]
  BY <1>1, SummedBy
<1>5. PICK jt : Sums(jt, g, U) /\ SumFunctionOnSet(g, U) = jt[U]
  BY <1>1, SummedBy
<1>6. it[S] \in Nat /\ it[S] = f[n + 1] + it[U]
  <2>1. it[S] \in Nat
    BY <1>1, <1>3, <1>4, SumTakesAny
  <2>2. PICK x : x = n + 1
    OBVIOUS
  <2>3. x \in S /\ U = S \ {x}
    BY <1>2, <2>2
  <2>4. it[S] = f[x] + it[U]
    BY <1>1, <1>3, <1>4, <2>3, SumTakes
  <2> QED BY <2>1, <2>2, <2>4
<1>7. it[U] = jt[U]
  <2>1. U \subseteq S /\ U \subseteq U /\ IsFiniteSet(U) /\ \A x \in U : f[x] = g[x]
    BY <1>1, <1>2, <1>3
  <2> QED BY <1>4, <1>5, <2>1, SumsAlike
<1>8. SumFunction(f) = it[S] /\ SumFunction(g) = jt[U]
  BY <1>2, <1>4, <1>5 DEF SumFunction
<1>9. jt[U] \in Nat
  BY <1>1, <1>3, <1>5, SumTakesAny
<1> QED BY <1>3, <1>6, <1>7, <1>8, <1>9

-------------------------------------------------------------------------------
(***************************************************************************)
(* The loop of _merge_batches.                                             *)
(***************************************************************************)

\* The sizes of a list of events, and the events of a list of statements.
Sizes(rows) == [i \in DOMAIN rows |-> EventBytes(Table, rows[i])]
Carried(sent) == FlattenSeq([k \in DOMAIN sent |-> sent[k].rows])
Sendable == [rows : Seq(Nat), bytes : Nat]

\* Sizes are naturals.
LEMMA BytesAreNat ==
  /\ FixedBytes(Table) \in Nat
  /\ \A v \in Nat : EventBytes(Table, v) \in Nat
<1>1. Table.name \in Nat /\ Table.columns \in Nat \ {0} /\ Table.aliases \in Nat
  BY TableAssumption
<1> QED BY <1>1 DEF FixedBytes, EventBytes, ValueGroupBytes, InsertsBytes

\* The size of a batch grows by that of the event that is added.
LEMMA SizesAppend ==
  ASSUME NEW rows \in Seq(Nat), NEW v \in Nat
  PROVE  /\ SumFunction(Sizes(Append(rows, v))) \in Nat
         /\ SumFunction(Sizes(Append(rows, v))) = SumFunction(Sizes(rows)) + EventBytes(Table, v)
<1>1. PICK n \in Nat : n = Len(rows)
  OBVIOUS
<1>0. PICK more : more = Append(rows, v)
  OBVIOUS
<1>2. /\ more = Append(rows, v) /\ more \in Seq(Nat) /\ Len(more) = n + 1 /\ more[n + 1] = v
      /\ \A i \in 1..n : more[i] = rows[i]
  BY <1>1, <1>0, AppendProperties
<1>3. DOMAIN rows = 1..n /\ DOMAIN more = 1..(n + 1) /\ \A i \in 1..n : rows[i] \in Nat
  BY <1>1, <1>2
<1>4. \A i \in 1..(n + 1) : more[i] \in Nat
  BY <1>2, <1>3
<1>5. PICK f : f = Sizes(more)
  OBVIOUS
<1>6. PICK g : g = Sizes(rows)
  OBVIOUS
<1>7. f \in [1..(n + 1) -> Nat] /\ g \in [1..n -> Nat]
  <2>1. f = [i \in 1..(n + 1) |-> EventBytes(Table, more[i])]
    BY <1>3, <1>5, Zenon DEF Sizes
  <2>2. g = [i \in 1..n |-> EventBytes(Table, rows[i])]
    BY <1>3, <1>6, Zenon DEF Sizes
  <2>3. ASSUME NEW i \in 1..(n + 1) PROVE EventBytes(Table, more[i]) \in Nat
    BY <1>4, BytesAreNat
  <2>4. ASSUME NEW i \in 1..n PROVE EventBytes(Table, rows[i]) \in Nat
    BY <1>3, BytesAreNat
  <2> QED BY <2>1, <2>2, <2>3, <2>4
<1>8. \A i \in 1..n : f[i] = g[i]
  BY <1>2, <1>3, <1>5, <1>6 DEF Sizes
<1>9. f[n + 1] = EventBytes(Table, v)
  BY <1>2, <1>3, <1>5 DEF Sizes
<1>10. SumFunction(f) \in Nat /\ SumFunction(f) = SumFunction(g) + f[n + 1]
  BY <1>7, <1>8, SumOneMore
<1> QED BY <1>2, <1>5, <1>6, <1>9, <1>10

\* An empty batch has none, every other a natural.
LEMMA SizesEmpty == SumFunction(Sizes(<<>>)) = 0
<1>1. DOMAIN Sizes(<<>>) = {}
  BY DEF Sizes
<1> QED BY <1>1, SumEmpty

LEMMA SizesAreNat == ASSUME NEW rows \in Seq(Nat) PROVE SumFunction(Sizes(rows)) \in Nat
<1>1. CASE rows = <<>>
  BY <1>1, SizesEmpty
<1>2. CASE rows # <<>>
  <2>1. PICK s \in Seq(Nat), v \in Nat : rows = Append(s, v)
    BY <1>2, SequenceEmptyOrAppend
  <2> QED BY <2>1, SizesAppend
<1> QED BY <1>1, <1>2

\* The rows of each statement of a list.
LEMMA RowsOfEach ==
  ASSUME NEW s \in Seq(Sendable)
  PROVE  /\ [k \in DOMAIN s |-> s[k].rows] \in Seq(Seq(Nat))
         /\ Len([k \in DOMAIN s |-> s[k].rows]) = Len(s)
<1> DEFINE rows == [k \in DOMAIN s |-> s[k].rows]
<1> SUFFICES rows \in Seq(Seq(Nat)) /\ Len(rows) = Len(s)
  OBVIOUS
<1>1. ASSUME NEW k \in DOMAIN s PROVE s[k].rows \in Seq(Nat)
  <2>1. s[k] \in Sendable
    OBVIOUS
  <2> QED BY <2>1 DEF Sendable
<1>2. PICK n \in Nat : n = Len(s) /\ DOMAIN s = 1..n
  OBVIOUS
<1>3. PICK r \in [1..n -> Seq(Nat)] : r = rows
  BY <1>1, <1>2
<1>4. r \in Seq(Seq(Nat)) /\ Len(r) = n
  OBVIOUS
<1> QED BY <1>2, <1>3, <1>4

\* What is carried is a list of events.
LEMMA CarriedIsSeq == ASSUME NEW sent \in Seq(Sendable) PROVE Carried(sent) \in Seq(Nat)
<1>1. PICK rows : rows = [k \in DOMAIN sent |-> sent[k].rows]
  OBVIOUS
<1>2. rows \in Seq(Seq(Nat))
  BY <1>1, RowsOfEach
<1>3. Carried(sent) = FlattenSeq(rows)
  BY <1>1, Zenon DEF Carried
<1> QED BY <1>2, <1>3, FlattenIsSeq

\* One statement more carries its rows behind the others.
LEMMA CarriedAppend ==
  ASSUME NEW sent \in Seq(Sendable), NEW st \in Sendable
  PROVE  Carried(Append(sent, st)) = Carried(sent) \o st.rows
<1> DEFINE rows(s) == [k \in DOMAIN s |-> s[k].rows]
<1>1. ASSUME NEW s \in Seq(Sendable)
      PROVE  rows(s) \in Seq(Seq(Nat)) /\ Len(rows(s)) = Len(s)
  BY RowsOfEach
<1>2. Append(sent, st) \in Seq(Sendable) /\ st.rows \in Seq(Nat)
  BY DEF Sendable
<1>3. rows(Append(sent, st)) = Append(rows(sent), st.rows)
  <2>1. PICK more : more = Append(sent, st)
    OBVIOUS
  <2>2. PICK n \in Nat : n = Len(sent)
    OBVIOUS
  <2>3. /\ Len(more) = n + 1 /\ DOMAIN more = 1..(n + 1) /\ DOMAIN sent = 1..n
        /\ more[n + 1] = st /\ \A k \in 1..n : more[k] = sent[k]
    BY <2>1, <2>2, AppendProperties
  <2>4. rows(more) \in Seq(Seq(Nat)) /\ Len(rows(more)) = n + 1
    BY <1>1, <1>2, <2>1, <2>3
  <2>5. PICK a \in Seq(Seq(Nat)) : a = rows(sent) /\ Len(a) = n
    BY <1>1, <2>2
  <2>0. PICK b : b = Append(a, st.rows)
    OBVIOUS
  <2>6. /\ b = Append(a, st.rows) /\ b \in Seq(Seq(Nat)) /\ Len(b) = n + 1
        /\ b[n + 1] = st.rows /\ \A k \in 1..n : b[k] = a[k]
    BY <1>2, <2>5, <2>0, AppendProperties
  <2>7. ASSUME NEW k \in 1..(n + 1) PROVE rows(more)[k] = b[k]
    BY <2>3, <2>5, <2>6
  <2> HIDE DEF rows
  <2>8. rows(more) = b
    BY <2>4, <2>6, <2>7, SeqEqual
  <2> QED BY <2>1, <2>5, <2>6, <2>8
<1>4. rows(sent) \in Seq(Seq(Nat))
  BY <1>1
<1>5. FlattenSeq(Append(rows(sent), st.rows)) = FlattenSeq(rows(sent)) \o st.rows
  BY <1>2, <1>4, FlattenAppend
<1>6. \A s : Carried(s) = FlattenSeq(rows(s))
  BY Zenon DEF Carried
<1> QED BY <1>3, <1>5, <1>6

\* No statement carries nothing.
LEMMA CarriedEmpty == Carried(<<>>) = <<>>
<1>1. [k \in DOMAIN <<>> |-> <<>>[k].rows] = <<>>
  OBVIOUS
<1> QED BY <1>1, FlattenEmpty, Zenon DEF Carried

\* The type of the loop's state.
MergeTypeOK ==
  /\ events \in Seq(Nat) /\ next \in 1..(Len(events) + 1)
  /\ batch \in Seq(Nat) /\ estimated \in Nat
  /\ statements \in Seq(Sendable)
  /\ ended \in {"no", "returned", "raised"}

\* Until the loop ends the estimate is that of the batch in hand, which fits; what is
\* carried and what is in hand are the events the loop has passed.
MergeInv ==
  /\ MergeTypeOK
  /\ StatementsWithinBudget
  /\ Carried(statements) \o batch = SubSeq(events, 1, next - 1)
  /\ ended = "returned" => next = Len(events) + 1 /\ batch = <<>>
  /\ ended # "returned" =>
       /\ estimated = FixedBytes(Table) + SumFunction(Sizes(batch))
       /\ Len(batch) <= InsertBatchSize
       /\ batch # <<>> => estimated <= MaxQueryBytes

\* The loop, for any batch it may be given.
MergeSpec == (\E list \in Batches : MergeInit(list)) /\ [][MergeNext]_merge_vars

\* StatementsWithinBudget in terms of Sizes.
LEMMA BudgetOf ==
  StatementsWithinBudget <=>
    \A k \in DOMAIN statements :
      /\ statements[k].bytes <= MaxQueryBytes
      /\ Len(statements[k].rows) <= InsertBatchSize
      /\ statements[k].bytes = FixedBytes(Table) + SumFunction(Sizes(statements[k].rows))
BY Zenon DEF StatementsWithinBudget, Sizes

\* A statement more, within the budget.
LEMMA BudgetStep ==
  ASSUME MergeInv, batch # <<>>, ended = "no", statements' = Append(statements, Statement)
  PROVE  /\ StatementsWithinBudget'
         /\ statements' \in Seq(Sendable)
         /\ Carried(statements') = Carried(statements) \o batch
<1>1. Statement \in Sendable /\ statements \in Seq(Sendable)
  BY DEF MergeInv, MergeTypeOK, Statement, Sendable
<1>2. statements' \in Seq(Sendable)
  BY <1>1, AppendProperties
<1>3. Carried(statements') = Carried(statements) \o batch
  BY <1>1, CarriedAppend DEF Statement
<1>4. /\ Statement.bytes <= MaxQueryBytes /\ Len(Statement.rows) <= InsertBatchSize
      /\ Statement.bytes = FixedBytes(Table) + SumFunction(Sizes(Statement.rows))
  BY DEF MergeInv, Statement
<1>5. StatementsWithinBudget'
  <2> SUFFICES ASSUME NEW k \in DOMAIN statements'
               PROVE  /\ statements'[k].bytes <= MaxQueryBytes
                      /\ Len(statements'[k].rows) <= InsertBatchSize
                      /\ statements'[k].bytes = FixedBytes(Table) + SumFunction(Sizes(statements'[k].rows))
    BY Zenon DEF StatementsWithinBudget, Sizes
  <2>1. CASE k = Len(statements) + 1
    <3>1. statements'[k] = Statement
      BY <1>1, <2>1, AppendProperties
    <3> QED BY <3>1, <1>4
  <2>2. CASE k # Len(statements) + 1
    <3>1. k \in DOMAIN statements /\ statements'[k] = statements[k]
      BY <1>1, <2>2, AppendProperties
    <3> QED BY <3>1, BudgetOf DEF MergeInv
  <2> QED BY <2>1, <2>2
<1> QED BY <1>2, <1>3, <1>5

\* The loop starts with an empty batch,
LEMMA MergeInvInit == (\E list \in Batches : MergeInit(list)) => MergeInv
<1> SUFFICES ASSUME NEW list \in Batches, MergeInit(list) PROVE MergeInv
  OBVIOUS
<1>1. MergeTypeOK
  BY TableAssumption, BytesAreNat DEF MergeInit, MergeTypeOK
<1>2. StatementsWithinBudget
  BY DEF MergeInit, StatementsWithinBudget
<1>3. Carried(statements) \o batch = SubSeq(events, 1, next - 1)
  <2>1. SubSeq(list, 1, 0) = <<>>
    BY SubSeqEmpty
  <2>2. Carried(<<>>) \o <<>> = <<>>
    BY CarriedEmpty, ConcatEmptySeq
  <2>3. statements = <<>> /\ batch = <<>> /\ events = list /\ next = 1 /\ 1 - 1 = 0
    BY DEF MergeInit
  <2> QED BY <2>1, <2>2, <2>3
<1>4. estimated = FixedBytes(Table) + SumFunction(Sizes(batch))
  BY SizesEmpty, BytesAreNat DEF MergeInit
<1> QED BY <1>1, <1>2, <1>3, <1>4, TableAssumption DEF MergeInit, MergeInv

\* The event at next joins those that are passed.
LEMMA OnePassed ==
  ASSUME NEW S, NEW list \in Seq(S), NEW n \in 1..Len(list), NEW a \in Seq(S), NEW b \in Seq(S),
         a \o b = SubSeq(list, 1, n - 1)
  PROVE  a \o Append(b, list[n]) = SubSeq(list, 1, n)
<1>1. PICK x \in S : x = list[n]
  OBVIOUS
<1>2. Append(b, x) = b \o <<x>>
  BY AppendIsConcat
<1>3. (a \o b) \o <<x>> = a \o (b \o <<x>>)
  <2>1. <<x>> \in Seq(S)
    OBVIOUS
  <2> QED BY <2>1, ConcatAssociative, SMTT(60)
<1>4. SubSeq(list, 1, n) = SubSeq(list, 1, n - 1) \o <<list[n]>>
  <2>1. 1 \in 1..Len(list) /\ n \in 1..Len(list)
    OBVIOUS
  <2> QED BY <2>1, SubSeqRecursiveSecond
<1> QED BY <1>1, <1>2, <1>3, <1>4

\* and every turn of it keeps the estimate that of the batch in hand.
LEMMA MergeInvStep == MergeInv /\ [MergeNext]_merge_vars => MergeInv'
<1> SUFFICES ASSUME MergeInv, [MergeNext]_merge_vars PROVE MergeInv'
  OBVIOUS
<1>0. MergeTypeOK
  BY DEF MergeInv
<1>1. CASE RejectEvent
  <2>1. StatementsWithinBudget'
    BY <1>1, Zenon DEF RejectEvent, StatementsWithinBudget, MergeInv
  <2>2. MergeTypeOK'
    BY <1>0, <1>1 DEF MergeTypeOK, RejectEvent
  <2>3. (Carried(statements) \o batch = SubSeq(events, 1, next - 1))'
    BY <1>1 DEF RejectEvent, MergeInv
  <2> QED BY <1>1, <2>1, <2>2, <2>3 DEF RejectEvent, MergeInv
<1>2. CASE AddEvent
  <2>0. /\ next <= Len(events) /\ ended = "no" /\ ended' = ended /\ events' = events
        /\ next' = next + 1 /\ statements' = statements /\ batch' = Append(batch, events[next])
        /\ estimated' = estimated + EventBytes(Table, events[next])
        /\ MergeAccepts(Table, events[next], MaxQueryBytes) /\ ~ Full(events[next])
    BY <1>2 DEF AddEvent
  <2>1. StatementsWithinBudget'
    BY <2>0, Zenon DEF StatementsWithinBudget, MergeInv
  <2>2. next \in 1..Len(events) /\ events[next] \in Nat /\ EventBytes(Table, events[next]) \in Nat
    <3>1. next \in 1..Len(events) /\ events \in Seq(Nat)
      BY <1>0, <2>0 DEF MergeTypeOK
    <3>2. events[next] \in Nat
      BY <3>1
    <3> QED BY <3>1, <3>2, BytesAreNat
  <2>3. batch' \in Seq(Nat) /\ Len(batch') = Len(batch) + 1
    BY <1>0, <2>0, <2>2, AppendProperties DEF MergeTypeOK
  <2>4. MergeTypeOK'
    BY <1>0, <2>0, <2>2, <2>3 DEF MergeTypeOK
  <2>5. (Carried(statements) \o batch = SubSeq(events, 1, next - 1))'
    <3>1. Carried(statements) \in Seq(Nat) /\ Carried(statements) \o batch = SubSeq(events, 1, next - 1)
      BY <1>0, CarriedIsSeq DEF MergeInv, MergeTypeOK
    <3>2. Carried(statements) \o Append(batch, events[next]) = SubSeq(events, 1, next)
      BY <1>0, <2>2, <3>1, OnePassed DEF MergeTypeOK
    <3>3. next' - 1 = next
      BY <1>0, <2>0 DEF MergeTypeOK
    <3> QED BY <2>0, <3>2, <3>3
  <2>6. estimated = FixedBytes(Table) + SumFunction(Sizes(batch))
    BY <2>0 DEF MergeInv
  <2>7. estimated' = FixedBytes(Table) + SumFunction(Sizes(batch'))
    <3>1. /\ SumFunction(Sizes(batch')) \in Nat
          /\ SumFunction(Sizes(batch')) = SumFunction(Sizes(batch)) + EventBytes(Table, events[next])
      BY <1>0, <2>0, <2>2, SizesAppend DEF MergeTypeOK
    <3>2. SumFunction(Sizes(batch)) \in Nat
      BY SizesAreNat, <1>0 DEF MergeTypeOK
    <3> QED BY <2>0, <2>2, <2>6, <3>1, <3>2, BytesAreNat
  <2>8. Len(batch') <= InsertBatchSize /\ estimated' <= MaxQueryBytes
    <3>1. CASE batch = <<>>
      <4>1. estimated = FixedBytes(Table) + 0
        BY <2>6, <3>1, SizesEmpty
      <4> QED BY <2>0, <2>2, <2>3, <3>1, <4>1, BytesAreNat, TableAssumption DEF MergeAccepts
    <3>2. CASE batch # <<>>
      <4>1. ~ (Len(batch) >= InsertBatchSize)
            /\ ~ (estimated + EventBytes(Table, events[next]) > MaxQueryBytes)
        BY <2>0, <3>2 DEF Full
      <4>2. Len(batch) \in Nat /\ InsertBatchSize \in Nat /\ MaxQueryBytes \in Nat /\ estimated \in Nat
        BY <1>0, TableAssumption DEF MergeTypeOK
      <4>3. Len(batch') <= InsertBatchSize
        BY <2>3, <4>1, <4>2
      <4>4. estimated' <= MaxQueryBytes
        BY <2>0, <2>2, <4>1, <4>2
      <4> QED BY <4>3, <4>4
    <3> QED BY <3>1, <3>2
  <2> QED BY <2>0, <2>1, <2>4, <2>5, <2>7, <2>8 DEF MergeInv
<1>3. CASE FlushAndAddEvent
  <2>0. /\ next <= Len(events) /\ ended = "no" /\ ended' = ended /\ events' = events
        /\ next' = next + 1 /\ statements' = Append(statements, Statement)
        /\ batch' = <<events[next]>> /\ batch # <<>>
        /\ estimated' = FixedBytes(Table) + EventBytes(Table, events[next])
        /\ MergeAccepts(Table, events[next], MaxQueryBytes)
    BY <1>3 DEF FlushAndAddEvent, Full
  <2>1. /\ StatementsWithinBudget' /\ statements' \in Seq(Sendable)
        /\ Carried(statements') = Carried(statements) \o batch
    BY <2>0, BudgetStep
  <2>2. next \in 1..Len(events) /\ events[next] \in Nat /\ EventBytes(Table, events[next]) \in Nat
    <3>1. next \in 1..Len(events) /\ events \in Seq(Nat)
      BY <1>0, <2>0 DEF MergeTypeOK
    <3>2. events[next] \in Nat
      BY <3>1
    <3> QED BY <3>1, <3>2, BytesAreNat
  <2>3. batch' \in Seq(Nat) /\ Len(batch') = 1 /\ batch' = Append(<<>>, events[next])
    BY <2>0, <2>2
  <2>4. MergeTypeOK'
    <3>1. estimated' \in Nat
      <4>1. FixedBytes(Table) \in Nat
        BY BytesAreNat
      <4> QED BY <2>0, <2>2, <4>1
    <3>2. next' \in 1..(Len(events') + 1) /\ events' \in Seq(Nat) /\ ended' \in {"no", "returned", "raised"}
      BY <1>0, <2>0, <2>2 DEF MergeTypeOK
    <3> QED BY <2>1, <2>3, <3>1, <3>2 DEF MergeTypeOK
  <2>5. (Carried(statements) \o batch = SubSeq(events, 1, next - 1))'
    <3>1. Carried(statements') \in Seq(Nat) /\ Carried(statements') = SubSeq(events, 1, next - 1)
      BY <2>1, CarriedIsSeq DEF MergeInv
    <3>2. Carried(statements') \o <<>> = SubSeq(events, 1, next - 1) /\ <<>> \in Seq(Nat)
      BY <3>1, ConcatEmptySeq
    <3>3. Carried(statements') \o Append(<<>>, events[next]) = SubSeq(events, 1, next)
      BY <1>0, <2>2, <3>1, <3>2, OnePassed DEF MergeTypeOK
    <3>4. next' - 1 = next
      BY <1>0, <2>0 DEF MergeTypeOK
    <3> QED BY <2>0, <2>3, <3>3, <3>4
  <2>6. estimated' = FixedBytes(Table) + SumFunction(Sizes(batch'))
    <3>1. SumFunction(Sizes(batch')) = SumFunction(Sizes(<<>>)) + EventBytes(Table, events[next])
      <4>1. <<>> \in Seq(Nat)
        OBVIOUS
      <4> QED BY <2>2, <2>3, <4>1, SizesAppend
    <3>2. SumFunction(Sizes(batch')) = EventBytes(Table, events[next])
      BY <2>2, <3>1, SizesEmpty
    <3> QED BY <2>0, <3>2
  <2>7. Len(batch') <= InsertBatchSize /\ estimated' <= MaxQueryBytes
    BY <2>0, <2>2, <2>3, BytesAreNat, TableAssumption DEF MergeAccepts
  <2> QED BY <2>0, <2>1, <2>4, <2>5, <2>6, <2>7 DEF MergeInv
<1>4. CASE Finish
  <2>0. /\ next > Len(events) /\ ended = "no" /\ ended' = "returned" /\ UNCHANGED <<events, next, estimated>>
        /\ batch' = <<>> /\ statements' = IF batch = <<>> THEN statements ELSE Append(statements, Statement)
    BY <1>4 DEF Finish
  <2>1. /\ StatementsWithinBudget' /\ statements' \in Seq(Sendable)
        /\ Carried(statements') = Carried(statements) \o batch
    <3>1. CASE batch = <<>>
      <4>1. statements' = statements
        BY <2>0, <3>1
      <4>2. StatementsWithinBudget'
        BY <4>1, Zenon DEF StatementsWithinBudget, MergeInv
      <4>3. Carried(statements) \in Seq(Nat)
        BY <1>0, CarriedIsSeq DEF MergeTypeOK
      <4>4. Carried(statements) \o <<>> = Carried(statements)
        BY <4>3, ConcatEmptySeq
      <4> QED BY <1>0, <3>1, <4>1, <4>2, <4>4 DEF MergeTypeOK
    <3>2. CASE batch # <<>>
      BY <2>0, <3>2, BudgetStep
    <3> QED BY <3>1, <3>2
  <2>2. MergeTypeOK'
    BY <1>0, <2>0, <2>1 DEF MergeTypeOK
  <2>3. next = Len(events) + 1
    BY <1>0, <2>0 DEF MergeTypeOK
  <2>4. (Carried(statements) \o batch = SubSeq(events, 1, next - 1))'
    <3>1. Carried(statements') \in Seq(Nat) /\ Carried(statements') = SubSeq(events, 1, next - 1)
      BY <2>1, CarriedIsSeq DEF MergeInv
    <3>2. Carried(statements') \o <<>> = SubSeq(events, 1, next - 1)
      BY <3>1, ConcatEmptySeq
    <3> QED BY <2>0, <3>2
  <2> QED BY <2>0, <2>1, <2>2, <2>3, <2>4 DEF MergeInv
<1>5. CASE UNCHANGED merge_vars
  <2>0. UNCHANGED <<events, next, batch, estimated, statements, ended>>
    BY <1>5 DEF merge_vars
  <2>1. StatementsWithinBudget'
    BY <2>0, Zenon DEF StatementsWithinBudget, MergeInv
  <2>2. MergeTypeOK'
    BY <1>0, <2>0 DEF MergeTypeOK
  <2>3. (Carried(statements) \o batch = SubSeq(events, 1, next - 1))'
    BY <2>0 DEF MergeInv
  <2> QED BY <2>0, <2>1, <2>2, <2>3 DEF MergeInv
<1> QED BY <1>1, <1>2, <1>3, <1>4, <1>5 DEF MergeNext

\* The invariant is what StatementsCarryEvents says, and more.
LEMMA CarryOf ==
  ASSUME MergeInv PROVE StatementsCarryEvents
<1>1. MergeTypeOK
  BY DEF MergeInv
<1>2. Carried(statements) \o batch = SubSeq(events, 1, next - 1)
  BY DEF MergeInv
<1>3. ASSUME ended = "returned" PROVE Carried(statements) = events
  <2>1. next - 1 = Len(events) /\ batch = <<>>
    BY <1>1, <1>3 DEF MergeInv, MergeTypeOK
  <2>2. Carried(statements) \o <<>> = Carried(statements)
    BY <1>1, CarriedIsSeq, ConcatEmptySeq DEF MergeTypeOK
  <2>3. SubSeq(events, 1, Len(events)) = events
    BY <1>1, SubSeqFull DEF MergeTypeOK
  <2> QED BY <1>2, <2>1, <2>2, <2>3
<1> QED BY <1>2, <1>3, Zenon DEF StatementsCarryEvents, Carried

\* No statement of _merge_batches goes beyond the query size or the row limit, and the
\* size it was sent with is that of its rows: for any layout, batch and limits.
THEOREM WithinBudget == MergeSpec => []StatementsWithinBudget
<1>1. MergeInv => StatementsWithinBudget
  BY DEF MergeInv
<1> QED BY <1>1, MergeInvInit, MergeInvStep, PTL DEF MergeSpec

\* The statements carry the events in their order, each once, and all of them when the
\* loop returns.
THEOREM EventsCarried == MergeSpec => []StatementsCarryEvents
<1> QED BY CarryOf, MergeInvInit, MergeInvStep, PTL DEF MergeSpec

-------------------------------------------------------------------------------
(***************************************************************************)
(* The header splitter.                                                    *)
(***************************************************************************)

\* What the sender writes for one character, and for a field character by character.
Group(char) ==
  IF char = "nl" THEN <<"\\", "n">> ELSE IF char \in {"|", "\\"} THEN <<"\\", char>> ELSE <<char>>
Groups(field) == [i \in DOMAIN field |-> Group(field[i])]
Special(char) == char \in {"nl", "|", "\\"}

\* The part of the text that stands for the i-th field, without and with its bar.
Verbatim(i) == i = Len(fields) /\ maxsplit >= 0
Piece(i) == IF Verbatim(i) THEN fields[i] ELSE Escape(fields[i])
Barred(i) == Piece(i) \o (IF i = Len(fields) THEN <<>> ELSE <<"|">>)
Segments == [i \in DOMAIN fields |-> Barred(i)]

\* The loop is within the piece of a field: it has all pieces before it, of this one what
\* is before the position, and stands before a special character or within its group.
HeaderTypeOK ==
  /\ fields \in Seq(Seq(Characters)) /\ fields # <<>>
  /\ maxsplit \in {-1, Len(fields) - 1}
  /\ parts \in Seq(Seq(Characters)) /\ current \in Seq(Characters) /\ splits \in Nat /\ position \in Nat
  /\ escaped \in BOOLEAN /\ returned \in BOOLEAN
Within(k) ==
  /\ k \in 1..Len(fields) /\ k = Len(parts) + 1 /\ splits = Len(parts)
  /\ Len(current) <= Len(Piece(k))
  /\ \A j \in 1..Len(current) : current[j] = Piece(k)[j]
  /\ position = EndOf(Segments, k - 1) + Len(current) + 1
  /\ ~ Verbatim(k) =>
       \E m \in 0..Len(fields[k]) :
         /\ Len(current) = EndOf(Groups(fields[k]), m) + (IF escaped THEN 1 ELSE 0)
         /\ escaped => m < Len(fields[k]) /\ Special(fields[k][m + 1])
HeaderInv ==
  /\ HeaderTypeOK
  /\ IF returned THEN Len(parts) = Len(fields) ELSE \E k \in 1..Len(fields) : Within(k)
  /\ \A i \in DOMAIN parts : parts[i] = Piece(i)

\* A header is split without a limit, or as often as it has bars.
HeaderSpec ==
  /\ \E h \in Headers : h # <<>> /\ \E limit \in {-1, Len(h) - 1} : HeaderInit(h, limit)
  /\ [][HeaderNext]_field_vars

\* A text of two characters.
LEMMA TwoCharacters ==
  ASSUME NEW S, NEW a \in S, NEW b \in S
  PROVE  <<a, b>> \in Seq(S) /\ Len(<<a, b>>) = 2 /\ <<a, b>>[1] = a /\ <<a, b>>[2] = b
<1>1. Len(<<a, b>>) = 2
  OBVIOUS
<1>2. <<a, b>>[1] = a /\ <<a, b>>[2] = b
  OBVIOUS
<1>3. <<a, b>> \in Seq(S)
  OBVIOUS
<1> QED BY <1>1, <1>2, <1>3

\* What is written for a character is one character or two.
LEMMA GroupLen ==
  ASSUME NEW char \in Characters
  PROVE  /\ Group(char) \in Seq(Characters)
         /\ Len(Group(char)) = (IF Special(char) THEN 2 ELSE 1)
         /\ Special(char) => Group(char)[1] = "\\"
         /\ Special(char) => Replacements(Group(char)[2]) = char
         /\ ~ Special(char) => Group(char)[1] = char
<1>1. CASE char = "nl"
  <2>1. Group(char) = <<"\\", "n">> /\ Special(char) /\ Replacements("n") = "nl"
    BY <1>1 DEF Group, Special, Replacements
  <2>2. <<"\\", "n">> \in Seq(Characters) /\ Len(<<"\\", "n">>) = 2
        /\ <<"\\", "n">>[1] = "\\" /\ <<"\\", "n">>[2] = "n"
    BY TwoCharacters, HeadersAssumption
  <2> QED BY <1>1, <2>1, <2>2
<1>2. CASE char \in {"|", "\\"}
  <2>1. Group(char) = <<"\\", char>> /\ Special(char) /\ Replacements(char) = char
    BY <1>2 DEF Group, Special, Replacements
  <2>2. <<"\\", char>> \in Seq(Characters) /\ Len(<<"\\", char>>) = 2
        /\ <<"\\", char>>[1] = "\\" /\ <<"\\", char>>[2] = char
    BY TwoCharacters, HeadersAssumption
  <2> QED BY <2>1, <2>2
<1>3. CASE char \notin {"nl", "|", "\\"}
  <2>1. Group(char) = <<char>> /\ ~ Special(char)
    BY <1>3 DEF Group, Special
  <2> QED BY <2>1
<1> QED BY <1>1, <1>2, <1>3

\* Where the characters of a field are in its escaped form.
LEMMA EscapePlaces ==
  ASSUME NEW f \in Seq(Characters), NEW n \in Nat, n = Len(f)
  PROVE  /\ Escape(f) \in Seq(Characters)
         /\ EndOf(Groups(f), 0) = 0 /\ EndOf(Groups(f), n) = Len(Escape(f))
         /\ \A m \in 0..n : EndOf(Groups(f), m) \in Nat /\ EndOf(Groups(f), m) <= Len(Escape(f))
         /\ \A m \in 1..n :
              /\ EndOf(Groups(f), m) = EndOf(Groups(f), m - 1) + (IF Special(f[m]) THEN 2 ELSE 1)
              /\ Escape(f)[EndOf(Groups(f), m - 1) + 1] = (IF Special(f[m]) THEN "\\" ELSE f[m])
              /\ Special(f[m]) => Replacements(Escape(f)[EndOf(Groups(f), m - 1) + 2]) = f[m]
<1>1. PICK q : q = Groups(f)
  OBVIOUS
<1>2. q = [i \in 1..n |-> Group(f[i])]
  BY <1>1 DEF Groups
<1>3. \A i \in 1..n : f[i] \in Characters
  OBVIOUS
<1>4. \A i \in 1..n :
        /\ q[i] \in Seq(Characters)
        /\ Len(q[i]) = (IF Special(f[i]) THEN 2 ELSE 1)
        /\ Special(f[i]) => q[i][1] = "\\" /\ Replacements(q[i][2]) = f[i]
        /\ ~ Special(f[i]) => q[i][1] = f[i]
  BY <1>2, <1>3, GroupLen
<1>5. q \in Seq(Seq(Characters)) /\ Len(q) = n
  <2>1. DOMAIN q = 1..n /\ q \in [1..n -> Seq(Characters)]
    BY <1>2, <1>4
  <2> QED BY <2>1
<1>6. Escape(f) = FlattenSeq(q)
  BY <1>1, Zenon DEF Escape, Groups, Group
<1>7. /\ EndOf(q, 0) = 0 /\ EndOf(q, n) = Len(FlattenSeq(q))
      /\ \A k \in 0..n : EndOf(q, k) \in Nat /\ EndOf(q, k) <= EndOf(q, n)
      /\ \A k \in 1..n : EndOf(q, k) = EndOf(q, k - 1) + Len(q[k])
      /\ \A k \in 1..n : \A j \in 1..Len(q[k]) : FlattenSeq(q)[EndOf(q, k - 1) + j] = q[k][j]
  BY <1>5, FlattenPlaces
<1>8. Escape(f) \in Seq(Characters)
  BY <1>5, <1>6, FlattenIsSeq
<1>9. ASSUME NEW m \in 1..n
      PROVE  /\ EndOf(q, m) = EndOf(q, m - 1) + (IF Special(f[m]) THEN 2 ELSE 1)
             /\ FlattenSeq(q)[EndOf(q, m - 1) + 1] = (IF Special(f[m]) THEN "\\" ELSE f[m])
             /\ Special(f[m]) => Replacements(FlattenSeq(q)[EndOf(q, m - 1) + 2]) = f[m]
  <2>1. FlattenSeq(q)[EndOf(q, m - 1) + 1] = q[m][1]
    <3>1. 1 \in 1..Len(q[m])
      BY <1>4
    <3> QED BY <1>7, <3>1
  <2>2. Special(f[m]) => FlattenSeq(q)[EndOf(q, m - 1) + 2] = q[m][2]
    <3>1. Special(f[m]) => 2 \in 1..Len(q[m])
      BY <1>4
    <3> QED BY <1>7, <3>1
  <2> QED BY <1>4, <1>7, <2>1, <2>2
<1> QED BY <1>1, <1>6, <1>7, <1>8, <1>9

\* The equation of the recursion of unescape_cef.
UnescapeStep(value, from, i) ==
  IF i > Len(value) THEN <<>>
  ELSE IF value[i] = "\\" /\ i < Len(value)
  THEN <<Replacements(value[i + 1])>> \o from[i + 2]
  ELSE <<value[i]>> \o from[i + 1]
Unescapes(from, value) == from = [i \in 1..(Len(value) + 1) |-> UnescapeStep(value, from, i)]

\* It has a solution, upwards in the length of what is behind i.
UnescapesLast(from, value, k) ==
  from = [i \in (Len(value) + 1 - k)..(Len(value) + 1) |-> UnescapeStep(value, from, i)]
LEMMA UnescapesExists ==
  ASSUME NEW value \in Seq(Characters)
  PROVE  \E from : Unescapes(from, value)
<1>1. PICK n \in Nat : n = Len(value)
  OBVIOUS
<1> DEFINE T == {k \in Nat : k <= n => \E from : UnescapesLast(from, value, k)}
<1>2. 0 \in T
  <2> DEFINE g == [i \in (n + 1 - 0)..(n + 1) |-> <<>>]
  <2>1. \A i \in (n + 1 - 0)..(n + 1) : UnescapeStep(value, g, i) = <<>>
    BY <1>1 DEF UnescapeStep
  <2>2. g = [i \in (n + 1 - 0)..(n + 1) |-> UnescapeStep(value, g, i)]
    BY <2>1
  <2> QED BY <1>1, <2>2 DEF UnescapesLast
<1>3. ASSUME NEW k \in Nat, k \in T PROVE k + 1 \in T
  <2> SUFFICES ASSUME k + 1 <= n PROVE \E from : UnescapesLast(from, value, k + 1)
    OBVIOUS
  <2>1. PICK h : UnescapesLast(h, value, k)
    BY <1>3
  <2>2. PICK m \in 1..n : m = n - k
    OBVIOUS
  <2>3. h = [i \in (m + 1)..(n + 1) |-> UnescapeStep(value, h, i)]
    <3>1. n + 1 - k = m + 1
      BY <2>2
    <3> QED BY <1>1, <2>1, <3>1 DEF UnescapesLast
  <2> DEFINE g == [i \in m..(n + 1) |-> IF i = m THEN UnescapeStep(value, h, m) ELSE h[i]]
  <2>4. \A i \in m..(n + 1) : UnescapeStep(value, g, i) = UnescapeStep(value, h, i)
    <3> SUFFICES ASSUME NEW i \in m..(n + 1)
                 PROVE  UnescapeStep(value, g, i) = UnescapeStep(value, h, i)
      OBVIOUS
    <3>1. ~ (i > n) => i + 1 \in m..(n + 1) /\ g[i + 1] = h[i + 1]
      OBVIOUS
    <3>2. i < n => i + 2 \in m..(n + 1) /\ g[i + 2] = h[i + 2]
      OBVIOUS
    <3> HIDE DEF g
    <3> QED BY <1>1, <3>1, <3>2 DEF UnescapeStep
  <2>5. \A i \in m..(n + 1) : g[i] = UnescapeStep(value, h, i)
    <3>1. \A i \in (m + 1)..(n + 1) : h[i] = UnescapeStep(value, h, i)
      BY <2>3, Zenon
    <3>2. \A i \in m..(n + 1) : i = m \/ i \in (m + 1)..(n + 1)
      OBVIOUS
    <3> QED BY <3>1, <3>2
  <2>6. g = [i \in m..(n + 1) |-> UnescapeStep(value, g, i)]
    <3>1. \A i \in m..(n + 1) : g[i] = UnescapeStep(value, g, i)
      BY <2>4, <2>5
    <3>2. g = [i \in m..(n + 1) |-> g[i]]
      OBVIOUS
    <3> HIDE DEF g
    <3> QED BY <3>1, <3>2
  <2>7. n + 1 - (k + 1) = m
    BY <2>2
  <2> HIDE DEF g
  <2>8. UnescapesLast(g, value, k + 1)
    BY <1>1, <2>6, <2>7 DEF UnescapesLast
  <2> QED BY <2>8
<1>4. n \in T
  <2> HIDE DEF T
  <2> QED BY <1>2, <1>3, EveryNatural
<1>5. PICK from : UnescapesLast(from, value, n)
  BY <1>4
<1>6. n + 1 - n = 1
  OBVIOUS
<1> QED BY <1>1, <1>5, <1>6 DEF UnescapesLast, Unescapes

\* It is what Unescape chooses.
LEMMA UnescapedBy ==
  ASSUME NEW value \in Seq(Characters)
  PROVE  \E from : Unescapes(from, value) /\ Unescape(value) = from[1]
<1> DEFINE c == CHOOSE from : Unescapes(from, value)
<1>1. Unescapes(c, value)
  BY UnescapesExists
<1>2. Unescape(value) = c[1]
  BY Zenon DEF Unescape, Unescapes, UnescapeStep
<1> QED BY <1>1, <1>2

\* A field comes back out of its escaped form.
LEMMA UnescapeEscape ==
  ASSUME NEW f \in Seq(Characters)
  PROVE  Unescape(Escape(f)) = f
<1>1. PICK n \in Nat : n = Len(f)
  OBVIOUS
<1>2. PICK e \in Seq(Characters) : e = Escape(f)
  BY <1>1, EscapePlaces
<1>3. PICK size \in Nat : size = Len(e)
  OBVIOUS
<1>4. PICK q : q = Groups(f)
  OBVIOUS
<1>5. /\ EndOf(q, 0) = 0 /\ EndOf(q, n) = size
      /\ \A m \in 0..n : EndOf(q, m) \in Nat /\ EndOf(q, m) <= size
      /\ \A m \in 1..n :
           /\ EndOf(q, m) = EndOf(q, m - 1) + (IF Special(f[m]) THEN 2 ELSE 1)
           /\ e[EndOf(q, m - 1) + 1] = (IF Special(f[m]) THEN "\\" ELSE f[m])
           /\ Special(f[m]) => Replacements(e[EndOf(q, m - 1) + 2]) = f[m]
  BY <1>1, <1>2, <1>3, <1>4, EscapePlaces
<1>6. PICK from : Unescapes(from, e) /\ Unescape(e) = from[1]
  BY UnescapedBy
<1>7. \A i \in 1..(size + 1) :
        from[i] = IF i > size THEN <<>>
                  ELSE IF e[i] = "\\" /\ i < size THEN <<Replacements(e[i + 1])>> \o from[i + 2]
                  ELSE <<e[i]>> \o from[i + 1]
  BY <1>3, <1>6 DEF Unescapes, UnescapeStep
\* Downwards from the end of the field.
<1> DEFINE T == {k \in Nat : k <= n => from[EndOf(q, n - k) + 1] = SubSeq(f, n - k + 1, n)}
<1>8. 0 \in T
  <2>1. SubSeq(f, n + 1, n) = <<>>
    BY SubSeqEmpty
  <2>2. size + 1 \in 1..(size + 1) /\ size + 1 > size
    OBVIOUS
  <2>3. from[size + 1] = <<>>
    BY <1>7, <2>2
  <2>4. n - 0 = n /\ n - 0 + 1 = n + 1
    OBVIOUS
  <2> QED BY <1>5, <2>1, <2>3, <2>4
<1>9. ASSUME NEW k \in Nat, k \in T PROVE k + 1 \in T
  <2> SUFFICES ASSUME k + 1 <= n
               PROVE  from[EndOf(q, n - (k + 1)) + 1] = SubSeq(f, n - (k + 1) + 1, n)
    OBVIOUS
  <2>1. PICK m \in 1..n : m = n - k /\ m - 1 = n - (k + 1) /\ n - (k + 1) + 1 = m
    OBVIOUS
  <2>2. from[EndOf(q, m) + 1] = SubSeq(f, m + 1, n)
    BY <1>9, <2>1
  <2>3. SubSeq(f, m, n) = <<f[m]>> \o SubSeq(f, m + 1, n)
    BY <1>1, SubSeqRecursiveFirst
  <2>4. PICK at \in Nat : at = EndOf(q, m - 1)
    BY <1>5
  <2>5. /\ EndOf(q, m) = at + (IF Special(f[m]) THEN 2 ELSE 1) /\ EndOf(q, m) <= size
        /\ e[at + 1] = (IF Special(f[m]) THEN "\\" ELSE f[m])
        /\ Special(f[m]) => Replacements(e[at + 2]) = f[m]
    BY <1>5, <2>4
  <2>6. at + 1 \in 1..(size + 1) /\ ~ (at + 1 > size)
    BY <2>5
  <2>7. from[at + 1] = IF e[at + 1] = "\\" /\ at + 1 < size
                       THEN <<Replacements(e[at + 1 + 1])>> \o from[at + 1 + 2]
                       ELSE <<e[at + 1]>> \o from[at + 1 + 1]
    BY <1>7, <2>6
  <2>8. CASE Special(f[m])
    <3>1. EndOf(q, m) + 1 = at + 1 + 2 /\ at + 1 < size /\ at + 1 + 1 = at + 2
      BY <2>5, <2>8
    <3> QED BY <2>1, <2>2, <2>3, <2>4, <2>5, <2>7, <2>8, <3>1
  <2>9. CASE ~ Special(f[m])
    <3>1. EndOf(q, m) + 1 = at + 1 + 1 /\ f[m] # "\\"
      BY <2>5, <2>9 DEF Special
    <3> QED BY <2>1, <2>2, <2>3, <2>4, <2>5, <2>7, <2>9, <3>1
  <2> QED BY <2>8, <2>9
<1>10. n \in T
  <2> HIDE DEF T
  <2> QED BY <1>8, <1>9, EveryNatural
<1>11. from[1] = SubSeq(f, 1, n)
  <2>1. n <= n /\ n - n = 0 /\ 0 + 1 = 1
    OBVIOUS
  <2>2. n - n + 1 = 1
    OBVIOUS
  <2>3. from[EndOf(q, n - n) + 1] = SubSeq(f, n - n + 1, n)
    BY <1>10, <2>1
  <2> QED BY <1>5, <2>1, <2>2, <2>3
<1> QED BY <1>1, <1>2, <1>6, <1>11, SubSeqFull

\* Where the pieces are in the text.
LEMMA TextPlaces ==
  ASSUME HeaderTypeOK, NEW n \in Nat, n = Len(fields)
  PROVE  /\ \A k \in 1..n : Piece(k) \in Seq(Characters)
         /\ EndOf(Segments, 0) = 0 /\ EndOf(Segments, n) = Len(Text)
         /\ \A k \in 0..n : EndOf(Segments, k) \in Nat /\ EndOf(Segments, k) <= Len(Text)
         /\ \A k \in 1..n :
              EndOf(Segments, k) = EndOf(Segments, k - 1) + Len(Piece(k)) + (IF k = n THEN 0 ELSE 1)
         /\ \A k \in 1..n : \A j \in 1..Len(Piece(k)) :
              Text[EndOf(Segments, k - 1) + j] = Piece(k)[j]
         /\ \A k \in 1..n : k # n => Text[EndOf(Segments, k - 1) + (Len(Piece(k)) + 1)] = "|"
<1>1. fields \in Seq(Seq(Characters)) /\ DOMAIN fields = 1..n
  BY DEF HeaderTypeOK
<1>2. \A k \in 1..n : fields[k] \in Seq(Characters)
  BY <1>1
<1>3. \A k \in 1..n : Piece(k) \in Seq(Characters)
  BY <1>2, EscapePlaces DEF Piece
<1>4. \A k \in 1..n :
        /\ Barred(k) \in Seq(Characters)
        /\ Len(Barred(k)) = Len(Piece(k)) + (IF k = n THEN 0 ELSE 1)
        /\ Len(Piece(k)) \in Nat
        /\ \A j \in 1..Len(Piece(k)) : Barred(k)[j] = Piece(k)[j]
        /\ k # n => Barred(k)[Len(Piece(k)) + 1] = "|"
  <2> SUFFICES ASSUME NEW k \in 1..n
               PROVE  /\ Barred(k) \in Seq(Characters)
                      /\ Len(Barred(k)) = Len(Piece(k)) + (IF k = n THEN 0 ELSE 1)
                      /\ Len(Piece(k)) \in Nat
                      /\ \A j \in 1..Len(Piece(k)) : Barred(k)[j] = Piece(k)[j]
                      /\ k # n => Barred(k)[Len(Piece(k)) + 1] = "|"
    OBVIOUS
  <2>1. PICK p \in Seq(Characters) : p = Piece(k)
    BY <1>3
  <2>2. CASE k = n
    <3>1. Barred(k) = p \o <<>>
      BY <2>1, <2>2 DEF Barred
    <3>2. Barred(k) = p
      BY <3>1, ConcatEmptySeq
    <3> QED BY <2>1, <2>2, <3>2
  <2>3. CASE k # n
    <3>1. Barred(k) = p \o <<"|">>
      BY <2>1, <2>3 DEF Barred
    <3>2. "|" \in Characters
      BY HeadersAssumption
    <3>3. Barred(k) = Append(p, "|")
      BY <3>1, <3>2, AppendIsConcat
    <3>4. /\ Append(p, "|") \in Seq(Characters)
          /\ Len(Append(p, "|")) = Len(p) + 1 /\ Len(p) \in Nat
          /\ \A j \in 1..Len(p) : Append(p, "|")[j] = p[j]
          /\ Append(p, "|")[Len(p) + 1] = "|"
      BY <3>2, AppendProperties
    <3> QED BY <2>1, <2>3, <3>3, <3>4
  <2> QED BY <2>2, <2>3
<1>5. PICK s : s = Segments
  OBVIOUS
<1>6. s = [k \in 1..n |-> Barred(k)]
  BY <1>1, <1>5 DEF Segments
<1>7. s \in Seq(Seq(Characters)) /\ Len(s) = n /\ \A k \in 1..n : s[k] = Barred(k)
  <2>1. DOMAIN s = 1..n /\ s \in [1..n -> Seq(Characters)]
    BY <1>4, <1>6
  <2> QED BY <1>6, <2>1
<1>8. Text = FlattenSeq(s)
  BY <1>5, Zenon DEF Text, Segments, Barred, Piece, Verbatim
<1>9. /\ EndOf(s, 0) = 0 /\ EndOf(s, n) = Len(FlattenSeq(s))
      /\ \A k \in 0..n : EndOf(s, k) \in Nat /\ EndOf(s, k) <= EndOf(s, n)
      /\ \A k \in 1..n : EndOf(s, k) = EndOf(s, k - 1) + Len(s[k])
      /\ \A k \in 1..n : \A j \in 1..Len(s[k]) : FlattenSeq(s)[EndOf(s, k - 1) + j] = s[k][j]
  BY <1>7, FlattenPlaces
<1>10. \A k \in 1..n : EndOf(s, k) = EndOf(s, k - 1) + Len(Piece(k)) + (IF k = n THEN 0 ELSE 1)
  <2> SUFFICES ASSUME NEW k \in 1..n
               PROVE  EndOf(s, k) = EndOf(s, k - 1) + Len(Piece(k)) + (IF k = n THEN 0 ELSE 1)
    OBVIOUS
  <2>1. EndOf(s, k) = EndOf(s, k - 1) + Len(Barred(k))
    BY <1>7, <1>9
  <2>2. k - 1 \in 0..n
    OBVIOUS
  <2> QED BY <1>4, <1>9, <2>1, <2>2
<1>11. \A k \in 1..n : \A j \in 1..Len(Piece(k)) : FlattenSeq(s)[EndOf(s, k - 1) + j] = Piece(k)[j]
  <2> SUFFICES ASSUME NEW k \in 1..n, NEW j \in 1..Len(Piece(k))
               PROVE  FlattenSeq(s)[EndOf(s, k - 1) + j] = Piece(k)[j]
    OBVIOUS
  <2>0. s[k] = Barred(k) /\ Len(Piece(k)) \in Nat
        /\ Len(Barred(k)) = Len(Piece(k)) + (IF k = n THEN 0 ELSE 1)
    BY <1>4, <1>7
  <2>1. j \in 1..Len(s[k])
    BY <2>0
  <2> QED BY <1>4, <1>7, <1>9, <2>1
<1>12. \A k \in 1..n : k # n => FlattenSeq(s)[EndOf(s, k - 1) + (Len(Piece(k)) + 1)] = "|"
  <2> SUFFICES ASSUME NEW k \in 1..n, k # n
               PROVE  FlattenSeq(s)[EndOf(s, k - 1) + (Len(Piece(k)) + 1)] = "|"
    OBVIOUS
  <2>1. Len(Piece(k)) + 1 \in 1..Len(s[k])
    BY <1>4, <1>7
  <2> QED BY <1>4, <1>7, <1>9, <2>1
<1> QED BY <1>3, <1>5, <1>8, <1>9, <1>10, <1>11, <1>12

\* The loop starts before the first field.
LEMMA HeaderInvInit ==
  ASSUME NEW h \in Headers, h # <<>>, NEW limit \in {-1, Len(h) - 1}, HeaderInit(h, limit)
  PROVE  HeaderInv
<1>1. HeaderTypeOK
  <2>1. h \in Seq(Seq(Characters))
    BY HeadersAssumption
  <2>2. fields = h /\ maxsplit = limit /\ parts = <<>> /\ current = <<>>
    BY DEF HeaderInit
  <2>3. splits = 0 /\ position = 1 /\ escaped = FALSE /\ returned = FALSE
    BY DEF HeaderInit
  <2>4. <<>> \in Seq(Characters) /\ <<>> \in Seq(Seq(Characters))
    OBVIOUS
  <2> QED BY <2>1, <2>2, <2>3, <2>4 DEF HeaderTypeOK
<1>2. PICK n \in Nat : n = Len(fields) /\ 1 \in 1..n
  BY <1>1 DEF HeaderTypeOK
<1>3. Within(1)
  <2>1. Len(parts) = 0 /\ Len(current) = 0 /\ splits = 0 /\ position = 1 /\ ~ escaped
    BY DEF HeaderInit
  <2>2. EndOf(Segments, 0) = 0 /\ Piece(1) \in Seq(Characters)
    BY <1>1, <1>2, TextPlaces
  <2>3. fields[1] \in Seq(Characters)
    BY <1>1, <1>2 DEF HeaderTypeOK
  <2>4. EndOf(Groups(fields[1]), 0) = 0 /\ 0 \in 0..Len(fields[1])
    BY <2>3, EscapePlaces
  <2>5. Len(Piece(1)) >= 0
    BY <2>2
  <2>6. 1 - 1 = 0
    OBVIOUS
  <2> QED BY <1>2, <2>1, <2>2, <2>4, <2>5, <2>6 DEF Within
<1> QED BY <1>1, <1>2, <1>3 DEF HeaderInv, HeaderInit

\* The loop stands before a character of the field, or behind its last one.
LEMMA StandsBefore ==
  ASSUME HeaderTypeOK, NEW k \in 1..Len(fields), Within(k)
  PROVE  /\ Len(current) < Len(Piece(k)) =>
              /\ position <= Len(Text) /\ Char = Piece(k)[Len(current) + 1]
         /\ Len(current) = Len(Piece(k)) /\ k # Len(fields) => position <= Len(Text) /\ Char = "|"
         /\ Len(current) = Len(Piece(k)) /\ k = Len(fields) => position = Len(Text) + 1
<1>1. PICK n \in Nat : n = Len(fields)
  BY DEF HeaderTypeOK
<1>2. /\ Len(current) \in Nat /\ Piece(k) \in Seq(Characters)
      /\ position = EndOf(Segments, k - 1) + Len(current) + 1
  BY <1>1, TextPlaces DEF HeaderTypeOK, Within
<1>3. PICK e \in Nat : e = EndOf(Segments, k - 1)
  <2>1. k - 1 \in 0..n
    BY <1>1
  <2> QED BY <1>1, <2>1, TextPlaces
<1>4. PICK p \in Nat : p = Len(Piece(k))
  BY <1>2
<1>5. e + p + (IF k = n THEN 0 ELSE 1) <= Len(Text)
  <2>1. k \in 0..n
    BY <1>1
  <2> QED BY <1>1, <1>3, <1>4, <2>1, TextPlaces
<1>6. Len(Text) \in Nat /\ (k = n => Len(Text) = e + p)
  <2>1. n \in 0..n
    OBVIOUS
  <2> QED BY <1>1, <1>3, <1>4, <2>1, TextPlaces
<1>7. ASSUME Len(current) < p PROVE position <= Len(Text) /\ Char = Piece(k)[Len(current) + 1]
  <2>1. Len(current) + 1 \in 1..p
    BY <1>2, <1>7
  <2>2. Text[e + (Len(current) + 1)] = Piece(k)[Len(current) + 1]
    BY <1>1, <1>3, <1>4, <2>1, TextPlaces
  <2>3. position = e + (Len(current) + 1) /\ position <= Len(Text)
    <3>1. PICK c \in Nat : c = Len(current)
      BY <1>2
    <3>2. position = e + c + 1 /\ c < p /\ Len(Text) \in Nat /\ e + p <= Len(Text)
      BY <1>2, <1>3, <1>5, <1>6, <1>7, <3>1
    <3> QED BY <3>1, <3>2
  <2>4. Char = Text[e + (Len(current) + 1)]
    BY <2>3, Zenon DEF Char
  <2> QED BY <2>2, <2>3, <2>4
<1>8. ASSUME Len(current) = p, k # n PROVE position <= Len(Text) /\ Char = "|"
  <2>2. Text[e + (p + 1)] = "|"
    BY <1>1, <1>3, <1>4, <1>8, TextPlaces
  <2>3. position = e + (p + 1) /\ position <= Len(Text)
    BY <1>2, <1>3, <1>5, <1>6, <1>8
  <2>4. Char = Text[e + (p + 1)]
    BY <2>3, Zenon DEF Char
  <2> QED BY <2>2, <2>3, <2>4
<1>9. ASSUME Len(current) = p, k = n PROVE position = Len(Text) + 1
  BY <1>2, <1>3, <1>6, <1>9
<1> QED BY <1>1, <1>4, <1>7, <1>8, <1>9

\* A step of the loop moves on within the same header.
LEMMA SameHeader ==
  ASSUME UNCHANGED <<fields, maxsplit>>
  PROVE  /\ Segments' = Segments /\ Text' = Text
         /\ \A k : Piece(k)' = Piece(k) /\ (Verbatim(k)' <=> Verbatim(k))
<1>1. Segments' = Segments
  BY Zenon DEF Segments, Barred, Piece, Verbatim
<1>2. Text' = Text
  BY Zenon DEF Text
<1>3. \A k : Piece(k)' = Piece(k) /\ (Verbatim(k)' <=> Verbatim(k))
  BY Zenon DEF Piece, Verbatim
<1> QED BY <1>1, <1>2, <1>3

\* A bar separates where a field ends, and nowhere else.
LEMMA SeparatesAtEnd ==
  ASSUME HeaderInv, NEW k \in 1..Len(fields), Within(k)
  PROVE  /\ Len(current) < Len(Piece(k)) => ~ Separates
         /\ Len(current) = Len(Piece(k)) /\ k # Len(fields) => Separates /\ ~ escaped
<1>0. HeaderTypeOK
  BY DEF HeaderInv
<1>1. PICK n \in Nat : n = Len(fields)
  BY <1>0 DEF HeaderTypeOK
<1>2. fields[k] \in Seq(Characters) /\ Piece(k) \in Seq(Characters) /\ Len(current) \in Nat
      /\ maxsplit \in {-1, n - 1} /\ splits = k - 1
  BY <1>0, <1>1, TextPlaces DEF HeaderTypeOK, Within
<1>3. CASE Verbatim(k)
  BY <1>1, <1>2, <1>3 DEF Separates, Verbatim
<1>4. CASE ~ Verbatim(k)
  <2>1. PICK size \in Nat : size = Len(fields[k])
    BY <1>2
  <2>2. PICK q : q = Groups(fields[k])
    OBVIOUS
  <2>3. PICK e : e = Escape(fields[k]) /\ e = Piece(k)
    BY <1>4 DEF Piece
  <2>4. PICK m \in 0..size :
         /\ Len(current) = EndOf(q, m) + (IF escaped THEN 1 ELSE 0)
         /\ escaped => m < size /\ Special(fields[k][m + 1])
    BY <1>4, <2>1, <2>2 DEF Within
  <2>5. /\ EndOf(q, size) = Len(e) /\ EndOf(q, m) \in Nat /\ EndOf(q, m) <= Len(e)
    BY <1>2, <2>1, <2>2, <2>3, EscapePlaces
  <2>6. ASSUME m < size
        PROVE  /\ EndOf(q, m + 1) = EndOf(q, m) + (IF Special(fields[k][m + 1]) THEN 2 ELSE 1)
               /\ EndOf(q, m + 1) <= Len(e)
               /\ e[EndOf(q, m) + 1] = (IF Special(fields[k][m + 1]) THEN "\\" ELSE fields[k][m + 1])
    <3>1. PICK i \in 1..size : i = m + 1 /\ i - 1 = m
      BY <2>6
    <3>2. i \in 0..size
      OBVIOUS
    <3>3. /\ EndOf(q, i) = EndOf(q, i - 1) + (IF Special(fields[k][i]) THEN 2 ELSE 1)
          /\ EndOf(q, i) <= Len(e)
          /\ e[EndOf(q, i - 1) + 1] = (IF Special(fields[k][i]) THEN "\\" ELSE fields[k][i])
      <4>1. PICK f \in Seq(Characters) : f = fields[k]
        BY <1>2
      <4>2. /\ EndOf(Groups(f), i) = EndOf(Groups(f), i - 1) + (IF Special(f[i]) THEN 2 ELSE 1)
            /\ EndOf(Groups(f), i) <= Len(Escape(f))
            /\ Escape(f)[EndOf(Groups(f), i - 1) + 1] = (IF Special(f[i]) THEN "\\" ELSE f[i])
        BY <2>1, <3>2, <4>1, EscapePlaces
      <4> QED BY <2>2, <2>3, <4>1, <4>2, Zenon
    <3> QED BY <3>1, <3>3, Zenon
  <2>7. ASSUME Len(current) < Len(Piece(k)) PROVE ~ Separates
    <3>1. CASE escaped
      BY <3>1 DEF Separates
    <3>2. CASE ~ escaped
      <4>1. m < size
        BY <2>3, <2>4, <2>5, <2>7, <3>2
      <4>2. e[Len(current) + 1] # "|"
        <5>1. Len(current) + 1 = EndOf(q, m) + 1
          BY <2>4, <2>5, <3>2
        <5>2. e[EndOf(q, m) + 1] = (IF Special(fields[k][m + 1]) THEN "\\" ELSE fields[k][m + 1])
          BY <2>6, <4>1
        <5>3. ~ Special(fields[k][m + 1]) => fields[k][m + 1] # "|"
          BY DEF Special
        <5> QED BY <5>1, <5>2, <5>3
      <4> QED BY <1>0, <2>3, <2>7, <4>2, StandsBefore DEF Separates
    <3> QED BY <3>1, <3>2
  <2>8. ASSUME Len(current) = Len(Piece(k)), k # n PROVE Separates /\ ~ escaped
    <3>1. ~ escaped
      BY <2>3, <2>4, <2>5, <2>6, <2>8
    <3>2. Char = "|"
      BY <1>0, <1>1, <2>8, StandsBefore
    <3> QED BY <1>1, <1>2, <2>8, <3>1, <3>2 DEF Separates
  <2> QED BY <1>1, <2>7, <2>8
<1> QED BY <1>3, <1>4

\* The loop takes what the field has: Within goes on.
LEMMA TakeStep ==
  ASSUME HeaderInv, Take
  PROVE  HeaderInv'
<1>0. HeaderTypeOK /\ ~ returned /\ position <= Len(Text) /\ ~ Separates
  BY DEF HeaderInv, Take
<1>1. PICK k \in 1..Len(fields) : Within(k)
  BY <1>0 DEF HeaderInv
<1>2. PICK n \in Nat : n = Len(fields)
  BY <1>0 DEF HeaderTypeOK
<1>3. PICK f \in Seq(Characters) : f = fields[k]
  BY <1>0 DEF HeaderTypeOK
<1>4. PICK p \in Seq(Characters) : p = Piece(k)
  BY <1>0, <1>2, TextPlaces
<1>5. PICK c \in Nat : c = Len(current)
  BY <1>0 DEF HeaderTypeOK
<1>6. c < Len(p) /\ Char = p[c + 1]
  <2>1. c <= Len(p)
    BY <1>1, <1>4, <1>5 DEF Within
  <2>2. c # Len(p)
    BY <1>0, <1>1, <1>4, <1>5, StandsBefore, SeparatesAtEnd
  <2>3. c < Len(p)
    BY <2>1, <2>2
  <2> QED BY <1>0, <1>1, <1>4, <1>5, <2>3, StandsBefore
<1>7. Char \in Characters
  <2>1. c + 1 \in 1..Len(p)
    BY <1>6
  <2> QED BY <1>6, <2>1, ElementOfSeq
<1>8. UNCHANGED <<fields, maxsplit, parts, splits, returned>> /\ position' = position + 1
      /\ current' = Append(current, Char) /\ escaped' = (Char = "\\" /\ ~ escaped)
  BY DEF Take, Escapes
<1>9. /\ current' \in Seq(Characters) /\ Len(current') = c + 1
      /\ \A j \in 1..c : current'[j] = current[j]
      /\ current'[c + 1] = Char
  BY <1>0, <1>5, <1>7, <1>8, AppendProperties DEF HeaderTypeOK
<1>10. HeaderTypeOK'
  BY <1>0, <1>8, <1>9 DEF HeaderTypeOK
<1>11. Segments' = Segments /\ Piece(k)' = p /\ (Verbatim(k)' <=> Verbatim(k))
       /\ \A i : Piece(i)' = Piece(i)
  BY <1>4, <1>8, SameHeader
<1>12. ASSUME ~ Verbatim(k)
       PROVE  \E m \in 0..Len(f) :
                /\ c + 1 = EndOf(Groups(f), m) + (IF escaped' THEN 1 ELSE 0)
                /\ escaped' => m < Len(f) /\ Special(f[m + 1])
  <2>1. PICK m \in 0..Len(f) :
          /\ c = EndOf(Groups(f), m) + (IF escaped THEN 1 ELSE 0)
          /\ escaped => m < Len(f) /\ Special(f[m + 1])
    BY <1>1, <1>3, <1>5, <1>12 DEF Within
  <2>2. PICK q : q = Groups(f)
    OBVIOUS
  <2>3. p = Escape(f)
    BY <1>3, <1>4, <1>12 DEF Piece
  <2>4. EndOf(q, Len(f)) = Len(p) /\ EndOf(q, m) \in Nat
    BY <2>2, <2>3, EscapePlaces
  <2>5. m < Len(f)
    BY <1>6, <2>1, <2>2, <2>4
  <2>6. PICK i \in 1..Len(f) : i = m + 1 /\ i - 1 = m
    BY <2>5
  <2>7. /\ EndOf(q, i) = EndOf(q, m) + (IF Special(f[i]) THEN 2 ELSE 1)
        /\ p[EndOf(q, m) + 1] = (IF Special(f[i]) THEN "\\" ELSE f[i])
    BY <2>2, <2>3, <2>6, EscapePlaces
  <2>11. PICK at \in Nat : at = EndOf(q, m)
    BY <2>4
  <2>12. /\ c = at + (IF escaped THEN 1 ELSE 0)
         /\ escaped => Special(f[i])
    BY <2>1, <2>2, <2>6, <2>11
  <2>13. /\ EndOf(q, i) = at + (IF Special(f[i]) THEN 2 ELSE 1)
         /\ p[at + 1] = (IF Special(f[i]) THEN "\\" ELSE f[i])
    BY <2>7, <2>11
  <2>8. CASE escaped
    <3>1. ~ escaped'
      BY <1>8, <2>8
    <3>2. i \in 0..Len(f)
      OBVIOUS
    <3>3. c + 1 = EndOf(q, i)
      BY <2>8, <2>12, <2>13
    <3> QED BY <2>2, <3>1, <3>2, <3>3
  <2>9. CASE ~ escaped /\ Special(f[i])
    <3>1. Char = "\\"
      BY <1>6, <2>9, <2>12, <2>13
    <3>2. escaped'
      BY <1>8, <2>9, <3>1
    <3>3. c + 1 = EndOf(q, m) + 1
      BY <2>9, <2>11, <2>12
    <3> QED BY <2>2, <2>5, <2>6, <2>9, <3>2, <3>3
  <2>10. CASE ~ escaped /\ ~ Special(f[i])
    <3>1. Char # "\\"
      <4>1. f[i] # "\\"
        BY <2>10 DEF Special
      <4> QED BY <1>6, <2>10, <2>12, <2>13, <4>1
    <3>2. ~ escaped'
      BY <1>8, <3>1
    <3>3. c + 1 = EndOf(q, i)
      BY <2>10, <2>12, <2>13
    <3>4. i \in 0..Len(f)
      OBVIOUS
    <3> QED BY <2>2, <3>2, <3>3, <3>4
  <2> QED BY <2>8, <2>9, <2>10
<1>13. Within(k)'
  <2>1. k \in 1..Len(fields') /\ k = Len(parts') + 1 /\ splits' = Len(parts')
    BY <1>1, <1>8 DEF Within
  <2>2. Len(current') <= Len(p)
    BY <1>6, <1>9
  <2>3. ASSUME NEW j \in 1..Len(current') PROVE current'[j] = p[j]
    <3>1. \A i \in 1..c : current[i] = p[i]
      BY <1>1, <1>4, <1>5 DEF Within
    <3> QED BY <1>6, <1>9, <3>1
  <2>4. position' = EndOf(Segments, k - 1) + Len(current') + 1
    <3>1. position = EndOf(Segments, k - 1) + c + 1
      BY <1>1, <1>5 DEF Within
    <3>2. k - 1 \in 0..n
      BY <1>2
    <3>3. EndOf(Segments, k - 1) \in Nat
      BY <1>0, <1>2, <3>2, TextPlaces
    <3> QED BY <1>8, <1>9, <3>1, <3>3
  <2>5. ~ Verbatim(k) =>
          \E m \in 0..Len(fields'[k]) :
            /\ Len(current') = EndOf(Groups(fields'[k]), m) + (IF escaped' THEN 1 ELSE 0)
            /\ escaped' => m < Len(fields'[k]) /\ Special(fields'[k][m + 1])
    BY <1>3, <1>8, <1>9, <1>12
  <2> HIDE DEF Within
  <2>6. (EndOf(Segments, k - 1))' = EndOf(Segments, k - 1)
    BY <1>11, Zenon DEF EndOf
  <2>7. \A m : (EndOf(Groups(fields[k]), m))' = EndOf(Groups(fields'[k]), m)
        /\ (Special(fields[k][m + 1])' <=> Special(fields'[k][m + 1]))
    BY Zenon DEF EndOf, Groups, Group, Special
  <2> QED BY <1>11, <2>1, <2>2, <2>3, <2>4, <2>5, <2>6, <2>7 DEF Within
<1> QED
  <2>1. \A i \in DOMAIN parts' : parts'[i] = Piece(i)'
    BY <1>8, <1>11 DEF HeaderInv
  <2>2. k \in 1..Len(fields') /\ ~ returned'
    BY <1>0, <1>8
  <2> QED BY <1>10, <1>13, <2>1, <2>2 DEF HeaderInv

\* A part is complete when its field is: it is the whole piece, and the next one begins.
LEMMA SeparateStep ==
  ASSUME HeaderInv, Separate
  PROVE  HeaderInv'
<1>0. HeaderTypeOK /\ ~ returned /\ position <= Len(Text) /\ Separates
  BY DEF HeaderInv, Separate
<1>1. PICK k \in 1..Len(fields) : Within(k)
  BY <1>0 DEF HeaderInv
<1>2. PICK n \in Nat : n = Len(fields)
  BY <1>0 DEF HeaderTypeOK
<1>3. PICK p \in Seq(Characters) : p = Piece(k)
  BY <1>0, <1>2, TextPlaces
<1>4. PICK c \in Nat : c = Len(current)
  BY <1>0 DEF HeaderTypeOK
<1>5. c = Len(p) /\ k # n /\ ~ escaped
  <2>1. c <= Len(p)
    BY <1>1, <1>3, <1>4 DEF Within
  <2>2. ~ (c < Len(p))
    BY <1>0, <1>1, <1>3, <1>4, SeparatesAtEnd
  <2>3. c = Len(p)
    BY <2>1, <2>2
  <2>4. Len(Text) \in Nat
    <3>1. n \in 0..n
      OBVIOUS
    <3> QED BY <1>0, <1>2, <3>1, TextPlaces
  <2>5. k # n
    BY <1>0, <1>1, <1>2, <1>3, <1>4, <2>3, <2>4, StandsBefore
  <2> QED BY <1>1, <1>2, <1>3, <1>4, <2>3, <2>5, SeparatesAtEnd
<1>6. UNCHANGED <<fields, maxsplit, escaped, returned>> /\ position' = position + 1
      /\ parts' = Append(parts, current) /\ current' = <<>> /\ splits' = splits + 1
  BY DEF Separate
<1>7. current = p
  <2>1. \A j \in 1..c : current[j] = p[j]
    BY <1>1, <1>3, <1>4 DEF Within
  <2>2. current \in Seq(Characters)
    BY <1>0 DEF HeaderTypeOK
  <2> QED BY <1>4, <1>5, <2>1, <2>2, SeqEqual
<1>8. /\ parts' \in Seq(Seq(Characters)) /\ Len(parts') = k
      /\ \A i \in 1..(k - 1) : parts'[i] = parts[i]
      /\ parts'[k] = p
      /\ Len(parts) = k - 1 /\ splits = k - 1
  <2>1. parts \in Seq(Seq(Characters)) /\ Len(parts) = k - 1 /\ splits = k - 1
    BY <1>0, <1>1 DEF HeaderTypeOK, Within
  <2>2. PICK U : U = Seq(Characters)
    OBVIOUS
  <2>3. /\ parts' \in Seq(U) /\ Len(parts') = Len(parts) + 1
        /\ \A i \in 1..Len(parts) : parts'[i] = parts[i]
        /\ parts'[Len(parts) + 1] = p
    BY <1>6, <1>7, <2>1, <2>2, AppendProperties
  <2> QED BY <2>1, <2>2, <2>3
<1>9. HeaderTypeOK'
  <2>1. <<>> \in Seq(Characters)
    OBVIOUS
  <2> QED BY <1>0, <1>6, <1>8, <2>1 DEF HeaderTypeOK
<1>10. Segments' = Segments /\ \A i : Piece(i)' = Piece(i) /\ (Verbatim(i)' <=> Verbatim(i))
  BY <1>6, SameHeader
<1>11. PICK i \in 1..n : i = k + 1 /\ i - 1 = k
  BY <1>2, <1>5
<1>12. Within(i)'
  <2>1. i \in 1..Len(fields') /\ i = Len(parts') + 1 /\ splits' = Len(parts')
    BY <1>2, <1>6, <1>8, <1>11
  <2>2. Len(current') = 0 /\ Piece(i) \in Seq(Characters) /\ Len(Piece(i)) \in Nat
    BY <1>0, <1>2, <1>6, TextPlaces
  <2>3. position' = EndOf(Segments, i - 1) + Len(current') + 1
    <3>1. position = EndOf(Segments, k - 1) + c + 1
      BY <1>1, <1>4 DEF Within
    <3>2. k - 1 \in 0..n
      BY <1>2
    <3>3. EndOf(Segments, k - 1) \in Nat
      BY <1>0, <1>2, <3>2, TextPlaces
    <3>4. EndOf(Segments, k) = EndOf(Segments, k - 1) + Len(p) + 1
      BY <1>0, <1>2, <1>3, <1>5, TextPlaces
    <3>5. position' = EndOf(Segments, k) + 1
      BY <1>5, <1>6, <3>1, <3>3, <3>4
    <3> QED BY <1>4, <1>5, <1>11, <2>2, <3>3, <3>4, <3>5
  <2>4. fields'[i] \in Seq(Characters)
    BY <1>0, <1>2, <1>6 DEF HeaderTypeOK
  <2>5. EndOf(Groups(fields'[i]), 0) = 0 /\ 0 \in 0..Len(fields'[i]) /\ ~ escaped'
    BY <1>5, <1>6, <2>4, EscapePlaces
  <2>6. (EndOf(Segments, i - 1))' = EndOf(Segments, i - 1)
    BY <1>10, Zenon DEF EndOf
  <2>7. \A m : (EndOf(Groups(fields[i]), m))' = EndOf(Groups(fields'[i]), m)
        /\ (Special(fields[i][m + 1])' <=> Special(fields'[i][m + 1]))
    BY Zenon DEF EndOf, Groups, Group, Special
  <2> QED BY <1>10, <2>1, <2>2, <2>3, <2>5, <2>6, <2>7 DEF Within
<1> QED
  <2>1. \A j \in DOMAIN parts' : parts'[j] = Piece(j)'
    <3>1. DOMAIN parts' = 1..k /\ DOMAIN parts = 1..(k - 1)
      BY <1>0, <1>8 DEF HeaderTypeOK
    <3>2. \A j \in 1..(k - 1) : parts[j] = Piece(j)
      BY <3>1 DEF HeaderInv
    <3>3. \A j \in 1..k : j = k \/ j \in 1..(k - 1)
      OBVIOUS
    <3> QED BY <1>3, <1>8, <1>10, <3>1, <3>2, <3>3
  <2>2. i \in 1..Len(fields') /\ ~ returned'
    BY <1>0, <1>2, <1>6
  <2> QED BY <1>9, <1>12, <2>1, <2>2 DEF HeaderInv

\* The last part is complete when the text is.
LEMMA ReturnStep ==
  ASSUME HeaderInv, ReturnParts
  PROVE  HeaderInv'
<1>0. HeaderTypeOK /\ ~ returned /\ position > Len(Text)
  BY DEF HeaderInv, ReturnParts
<1>1. PICK k \in 1..Len(fields) : Within(k)
  BY <1>0 DEF HeaderInv
<1>2. PICK n \in Nat : n = Len(fields)
  BY <1>0 DEF HeaderTypeOK
<1>3. PICK p \in Seq(Characters) : p = Piece(k)
  BY <1>0, <1>2, TextPlaces
<1>4. PICK c \in Nat : c = Len(current)
  BY <1>0 DEF HeaderTypeOK
<1>5. c = Len(p) /\ k = n
  <2>1. c <= Len(p)
    BY <1>1, <1>3, <1>4 DEF Within
  <2>2. Len(Text) \in Nat /\ position \in Nat
    <3>1. n \in 0..n
      OBVIOUS
    <3> QED BY <1>0, <1>2, <3>1, TextPlaces DEF HeaderTypeOK
  <2>3. ~ (position <= Len(Text))
    BY <1>0, <2>2
  <2> QED BY <1>0, <1>1, <1>2, <1>3, <1>4, <2>1, <2>3, StandsBefore
<1>6. UNCHANGED <<fields, maxsplit, position, current, escaped, splits>>
      /\ parts' = Append(parts, current) /\ returned' = TRUE
  BY DEF ReturnParts
<1>7. current = p
  <2>1. \A j \in 1..c : current[j] = p[j]
    BY <1>1, <1>3, <1>4 DEF Within
  <2>2. current \in Seq(Characters)
    BY <1>0 DEF HeaderTypeOK
  <2> QED BY <1>4, <1>5, <2>1, <2>2, SeqEqual
<1>8. /\ parts' \in Seq(Seq(Characters)) /\ Len(parts') = k
      /\ \A i \in 1..(k - 1) : parts'[i] = parts[i]
      /\ parts'[k] = p
      /\ Len(parts) = k - 1
  <2>1. parts \in Seq(Seq(Characters)) /\ Len(parts) = k - 1
    BY <1>0, <1>1 DEF HeaderTypeOK, Within
  <2>2. PICK U : U = Seq(Characters)
    OBVIOUS
  <2>3. /\ parts' \in Seq(U) /\ Len(parts') = Len(parts) + 1
        /\ \A i \in 1..Len(parts) : parts'[i] = parts[i]
        /\ parts'[Len(parts) + 1] = p
    BY <1>6, <1>7, <2>1, <2>2, AppendProperties
  <2> QED BY <2>1, <2>2, <2>3
<1>9. HeaderTypeOK'
  BY <1>0, <1>6, <1>8 DEF HeaderTypeOK
<1>10. \A i : Piece(i)' = Piece(i)
  BY <1>6, SameHeader
<1>11. \A j \in DOMAIN parts' : parts'[j] = Piece(j)'
  <2>1. DOMAIN parts' = 1..k /\ DOMAIN parts = 1..(k - 1)
    BY <1>0, <1>8 DEF HeaderTypeOK
  <2>2. \A j \in 1..(k - 1) : parts[j] = Piece(j)
    BY <2>1 DEF HeaderInv
  <2>3. \A j \in 1..k : j = k \/ j \in 1..(k - 1)
    OBVIOUS
  <2> QED BY <1>3, <1>8, <1>10, <2>1, <2>2, <2>3
<1>12. Len(parts') = Len(fields') /\ returned'
  BY <1>2, <1>5, <1>6, <1>8
<1> QED BY <1>9, <1>11, <1>12 DEF HeaderInv

\* A stuttering step changes nothing.
LEMMA HeaderStutter ==
  ASSUME HeaderInv, UNCHANGED field_vars
  PROVE  HeaderInv'
BY Zenon DEF HeaderInv, HeaderTypeOK, Within, Segments, Barred, Piece, Verbatim, field_vars

\* Every field of a CEF or LEEF header arrives as it was written, whatever bars,
\* backslashes and ends of lines it has, and the extension arrives untouched.
THEOREM FieldsSurvive == HeaderSpec => []FieldsSurviveEscaping
<1>1. (\E h \in Headers : h # <<>> /\ \E limit \in {-1, Len(h) - 1} : HeaderInit(h, limit)) => HeaderInv
  BY HeaderInvInit
<1>2. HeaderInv /\ [HeaderNext]_field_vars => HeaderInv'
  BY TakeStep, SeparateStep, ReturnStep, HeaderStutter DEF HeaderNext
<1>3. HeaderInv => FieldsSurviveEscaping
  <2> SUFFICES ASSUME HeaderInv, returned PROVE FieldsSurviveEscaping
    BY DEF FieldsSurviveEscaping
  <2>1. HeaderTypeOK /\ Len(parts) = Len(fields) /\ \A i \in DOMAIN parts : parts[i] = Piece(i)
    BY DEF HeaderInv
  <2>2. DOMAIN parts = DOMAIN fields /\ \A i \in DOMAIN fields : fields[i] \in Seq(Characters)
    BY <2>1 DEF HeaderTypeOK
  <2>3. ASSUME NEW i \in DOMAIN fields
        PROVE  IF i = Len(fields) /\ maxsplit >= 0 THEN parts[i] = fields[i]
               ELSE Unescape(parts[i]) = fields[i]
    <3>1. parts[i] = IF i = Len(fields) /\ maxsplit >= 0 THEN fields[i] ELSE Escape(fields[i])
      BY <2>1, <2>2 DEF Piece, Verbatim
    <3>2. Unescape(Escape(fields[i])) = fields[i]
      BY <2>2, UnescapeEscape
    <3> QED BY <3>1, <3>2
  <2> QED BY <2>1, <2>3 DEF FieldsSurviveEscaping
<1> QED BY <1>1, <1>2, <1>3, PTL DEF HeaderSpec

-------------------------------------------------------------------------------
(***************************************************************************)
(* scrub_sql.  The ends of literals and comments, and the syntax as a      *)
(* function of where it begins.                                            *)
(***************************************************************************)

\* The ends that a literal may have.
LiteralEnds(i) ==
  LET q == statement[i]
      row(a, b) == /\ \A k \in a..b : statement[k] = q
                   /\ a > i + 1 => statement[a - 1] # q
                   /\ b < Len(statement) => statement[b + 1] # q
  IN {b \in (i + 1)..Len(statement) : \E a \in (i + 1)..b : row(a, b) /\ (b - a) % 2 = 0}

\* The marks that close more comments than were opened, and the ends they make.
MarksTo(i, p, char) == {m \in Marks(i) : m <= p /\ statement[m] = char}
Closing(i) ==
  {m \in Marks(i) : Cardinality(MarksTo(i, m, "*")) > Cardinality(MarksTo(i, m, "/"))}

LEMMA EndsAre ==
  ASSUME NEW i
  PROVE  /\ LiteralEnd(i) = LeastOr(LiteralEnds(i), 0)
         /\ CommentEnd(i) = LeastOr({p + 1 : p \in Closing(i)}, 0)
<1>1. LiteralEnd(i) = LeastOr(LiteralEnds(i), 0)
  BY Zenon DEF LiteralEnd, LiteralEnds
<1>2. CommentEnd(i) = LeastOr({p + 1 : p \in Closing(i)}, 0)
  BY Zenon DEF CommentEnd, Closing, MarksTo
<1> QED BY <1>1, <1>2

\* LeastOr gives the least of a set of numbers.
LEMMA LeastOrIs ==
  ASSUME NEW S \in SUBSET Nat, NEW default
  PROVE  /\ S = {} => LeastOr(S, default) = default
         /\ S # {} => LeastOr(S, default) \in S /\ \A k \in S : LeastOr(S, default) <= k
<1>1. ASSUME S # {} PROVE LeastOr(S, default) \in S /\ \A k \in S : LeastOr(S, default) <= k
  <2>1. \E m \in S : \A k \in S : m <= k
    BY <1>1, LeastNatural
  <2> DEFINE least == CHOOSE m \in S : \A k \in S : m <= k
  <2>2. least \in S /\ \A k \in S : least <= k
    BY <2>1
  <2>3. LeastOr(S, default) = least
    BY <1>1, Zenon DEF LeastOr
  <2> QED BY <2>2, <2>3
<1> QED BY <1>1 DEF LeastOr

\* A number that is in the set and not above any other is the least.
LEMMA LeastOrEquals ==
  ASSUME NEW S \in SUBSET Nat, NEW default, NEW m \in S, \A k \in S : m <= k
  PROVE  LeastOr(S, default) = m
<1>1. S # {}
  OBVIOUS
<1>2. LeastOr(S, default) \in S /\ \A k \in S : LeastOr(S, default) <= k
  BY <1>1, LeastOrIs
<1>3. LeastOr(S, default) \in Nat /\ m \in Nat
  BY <1>2
<1>4. LeastOr(S, default) <= m /\ m <= LeastOr(S, default)
  BY <1>2
<1> QED BY <1>3, <1>4

LEMMA EndsInRange ==
  ASSUME statement \in Seq(SqlChars), NEW i \in 1..Len(statement)
  PROVE  /\ LiteralEnd(i) \in {0} \cup (i + 1)..Len(statement)
         /\ LineEnd(i) \in i..Len(statement)
         /\ CommentEnd(i) \in {0} \cup (i + 3)..Len(statement)
<1>1. LiteralEnd(i) \in {0} \cup (i + 1)..Len(statement)
  <2> DEFINE S == LiteralEnds(i)
  <2>1. S \in SUBSET ((i + 1)..Len(statement))
    BY DEF LiteralEnds
  <2> HIDE DEF S
  <2>2. LeastOr(S, 0) = 0 \/ LeastOr(S, 0) \in S
    <3>1. S \in SUBSET Nat
      BY <2>1
    <3> QED BY <3>1, LeastOrIs
  <2> QED BY <2>1, <2>2, EndsAre DEF S
<1>2. LineEnd(i) \in i..Len(statement)
  <2> DEFINE S == {k \in i..Len(statement) : statement[k] = "nl"}
  <2>1. S \in SUBSET (i..Len(statement)) /\ LineEnd(i) = LeastOr(S, Len(statement))
    BY DEF LineEnd
  <2> HIDE DEF S
  <2>2. LeastOr(S, Len(statement)) = Len(statement) \/ LeastOr(S, Len(statement)) \in S
    <3>1. S \in SUBSET Nat
      BY <2>1
    <3> QED BY <3>1, LeastOrIs
  <2>3. Len(statement) \in i..Len(statement)
    OBVIOUS
  <2> QED BY <2>1, <2>2, <2>3
<1>3. CommentEnd(i) \in {0} \cup (i + 3)..Len(statement)
  <2> DEFINE S == {p + 1 : p \in Closing(i)}
  <2>1. Closing(i) \subseteq (i + 2)..(Len(statement) - 1)
    <3>1. Marks(i) \subseteq (i + 2)..(Len(statement) - 1)
      BY DEF Marks
    <3> QED BY <3>1 DEF Closing
  <2>2. S \in SUBSET ((i + 3)..Len(statement))
    BY <2>1
  <2> HIDE DEF S
  <2>3. LeastOr(S, 0) = 0 \/ LeastOr(S, 0) \in S
    <3>1. S \in SUBSET Nat
      BY <2>2
    <3> QED BY <3>1, LeastOrIs
  <2> QED BY <2>2, <2>3, EndsAre DEF S
<1> QED BY <1>1, <1>2, <1>3

LEMMA SingleIs ==
  ASSUME NEW S, NEW x \in S
  PROVE  <<x>> \in Seq(S)
OBVIOUS

SyntaxChars == SqlChars \cup {"open"}

\* What is left from i on, with what is left from later places on.
After(f, end) == IF end = 0 THEN <<"open">> ELSE <<" ">> \o f[end + 1]
LeftFrom(f, i) ==
  IF i > Len(statement) THEN <<>>
  ELSE IF statement[i] \in Quotes THEN After(f, LiteralEnd(i))
  ELSE IF CharAt(i) = "-" /\ CharAt(i + 1) = "-" THEN After(f, LineEnd(i))
  ELSE IF CharAt(i) = "/" /\ CharAt(i + 1) = "*" THEN After(f, CommentEnd(i))
  ELSE <<statement[i]>> \o f[i + 1]

\* It is made of later places only.
LEMMA LeftIs ==
  ASSUME statement \in Seq(SqlChars), NEW i \in 1..(Len(statement) + 1), NEW f, NEW g,
         \A k \in (i + 1)..(Len(statement) + 1) : f[k] = g[k] /\ f[k] \in Seq(SyntaxChars)
  PROVE  LeftFrom(f, i) = LeftFrom(g, i) /\ LeftFrom(f, i) \in Seq(SyntaxChars)
<1>1. <<"open">> \in Seq(SyntaxChars) /\ <<" ">> \in Seq(SyntaxChars) /\ <<>> \in Seq(SyntaxChars)
  <2>1. "open" \in SyntaxChars /\ " " \in SyntaxChars
    BY DEF SyntaxChars, SqlChars, Spaces
  <2> QED BY <2>1, SingleIs, EmptySeq
<1>2. ASSUME NEW end \in {0} \cup i..Len(statement)
      PROVE  After(f, end) = After(g, end) /\ After(f, end) \in Seq(SyntaxChars)
  <2>1. CASE end = 0
    BY <1>1, <2>1 DEF After
  <2>2. CASE end # 0
    <3>1. end + 1 \in (i + 1)..(Len(statement) + 1)
      BY <1>2, <2>2
    <3>2. f[end + 1] = g[end + 1] /\ f[end + 1] \in Seq(SyntaxChars)
      BY <3>1
    <3>3. After(f, end) = <<" ">> \o f[end + 1] /\ After(g, end) = <<" ">> \o g[end + 1]
      BY <2>2 DEF After
    <3>4. <<" ">> \o f[end + 1] \in Seq(SyntaxChars)
      BY <1>1, <3>2, ConcatProperties
    <3> QED BY <3>2, <3>3, <3>4
  <2> QED BY <2>1, <2>2
<1>3. CASE i > Len(statement)
  BY <1>1, <1>3 DEF LeftFrom
<1>4. CASE i <= Len(statement)
  <2>1. i \in 1..Len(statement)
    BY <1>4
  <2>2. /\ LiteralEnd(i) \in {0} \cup i..Len(statement)
        /\ LineEnd(i) \in {0} \cup i..Len(statement)
        /\ CommentEnd(i) \in {0} \cup i..Len(statement)
    BY <2>1, EndsInRange
  <2>3. /\ After(f, LiteralEnd(i)) = After(g, LiteralEnd(i)) /\ After(f, LiteralEnd(i)) \in Seq(SyntaxChars)
        /\ After(f, LineEnd(i)) = After(g, LineEnd(i)) /\ After(f, LineEnd(i)) \in Seq(SyntaxChars)
        /\ After(f, CommentEnd(i)) = After(g, CommentEnd(i)) /\ After(f, CommentEnd(i)) \in Seq(SyntaxChars)
    BY <1>2, <2>2
  <2>4. <<statement[i]>> \o f[i + 1] = <<statement[i]>> \o g[i + 1]
        /\ <<statement[i]>> \o f[i + 1] \in Seq(SyntaxChars)
    <3>1. i + 1 \in (i + 1)..(Len(statement) + 1)
      BY <2>1
    <3>2. statement[i] \in SyntaxChars
      BY <2>1 DEF SyntaxChars
    <3>3. f[i + 1] = g[i + 1] /\ f[i + 1] \in Seq(SyntaxChars)
      BY <3>1
    <3> QED BY <3>2, <3>3
  <2>5. ~ (i > Len(statement))
    BY <1>4
  <2> QED BY <2>3, <2>4, <2>5, Zenon DEF LeftFrom
<1> QED BY <1>3, <1>4

\* The function of the syntax exists: it is made from the end of the statement on.
LEMMA SyntaxExists ==
  ASSUME statement \in Seq(SqlChars)
  PROVE  \E f \in [1..(Len(statement) + 1) -> Seq(SyntaxChars)] :
           \A i \in 1..(Len(statement) + 1) : f[i] = LeftFrom(f, i)
<1> DEFINE N == Len(statement)
           Good(f, k) == /\ f \in [k..(N + 1) -> Seq(SyntaxChars)]
                         /\ \A i \in k..(N + 1) : f[i] = LeftFrom(f, i)
           T == {n \in 0..N : ~ \E f : Good(f, N + 1 - n)}
<1>1. N \in Nat
  OBVIOUS
<1>2. ASSUME NEW k \in 1..(N + 1), k <= N => \E f : Good(f, k + 1) PROVE \E g : Good(g, k)
  <2>1. PICK f : /\ \A i \in (k + 1)..(N + 1) : f[i] = LeftFrom(f, i)
                 /\ \A i \in (k + 1)..(N + 1) : f[i] \in Seq(SyntaxChars)
    <3>1. CASE k <= N
      BY <1>2, <3>1
    <3>2. CASE k = N + 1
      BY <1>1, <3>2
    <3> QED BY <1>1, <3>1, <3>2
  <2> DEFINE g == [i \in k..(N + 1) |-> IF i = k THEN LeftFrom(f, k) ELSE f[i]]
  <2>2. LeftFrom(f, k) \in Seq(SyntaxChars)
    BY <2>1, LeftIs
  <2>3. /\ \A i \in (k + 1)..(N + 1) : g[i] = f[i]
        /\ g[k] = LeftFrom(f, k) /\ g \in [k..(N + 1) -> Seq(SyntaxChars)]
    BY <1>1, <2>1, <2>2
  <2> HIDE DEF g
  <2>4. ASSUME NEW i \in k..(N + 1) PROVE g[i] = LeftFrom(g, i)
    <3>1. \A j \in (i + 1)..(N + 1) : f[j] = g[j] /\ f[j] \in Seq(SyntaxChars)
      BY <1>1, <2>1, <2>3
    <3>2. i \in 1..(N + 1)
      BY <1>1
    <3>3. LeftFrom(f, i) = LeftFrom(g, i)
      BY <3>1, <3>2, LeftIs
    <3>4. g[i] = LeftFrom(f, i)
      BY <1>1, <2>1, <2>3
    <3> QED BY <3>3, <3>4
  <2> QED BY <2>3, <2>4
<1> HIDE DEF N, Good
<1>3. T = {}
  <2> SUFFICES ASSUME T # {} PROVE FALSE
    OBVIOUS
  <2>1. T \in SUBSET Nat
    BY <1>1
  <2>2. PICK n \in T : \A k \in T : n <= k
    BY <2>1, LeastNatural
  <2> DEFINE m == N + 1 - n
  <2>3. n \in 0..N /\ m \in 1..(N + 1) /\ ~ \E f : Good(f, m)
    BY <1>1, <2>2
  <2>4. m <= N => \E f : Good(f, m + 1)
    <3> SUFFICES ASSUME m <= N PROVE \E f : Good(f, m + 1)
      OBVIOUS
    <3>1. n - 1 \in 0..N /\ N + 1 - (n - 1) = m + 1
      BY <1>1, <2>3
    <3>2. n - 1 \notin T
      <4> HIDE DEF T
      <4> QED BY <2>2, <2>3, <3>1
    <3>3. \E f : Good(f, N + 1 - (n - 1))
      BY <3>1, <3>2
    <3> QED BY <3>1, <3>3
  <2> QED BY <1>2, <2>3, <2>4
<1>4. \E f : Good(f, 1)
  <2>1. N \in 0..N /\ N + 1 - N = 1
    BY <1>1
  <2>2. N \notin T
    BY <1>3
  <2>3. \E f : Good(f, N + 1 - N)
    BY <2>1, <2>2
  <2> QED BY <2>1, <2>3
<1> QED BY <1>4 DEF Good, N

LEMMA SyntaxIs ==
  ASSUME statement \in Seq(SqlChars)
  PROVE  /\ DOMAIN SyntaxFrom = 1..(Len(statement) + 1)
         /\ \A i \in 1..(Len(statement) + 1) :
              SyntaxFrom[i] = LeftFrom(SyntaxFrom, i) /\ SyntaxFrom[i] \in Seq(SyntaxChars)
<1> DEFINE D == 1..(Len(statement) + 1)
<1>1. PICK f \in [D -> Seq(SyntaxChars)] : \A i \in D : f[i] = LeftFrom(f, i)
  BY SyntaxExists
<1>2. SyntaxFrom = CHOOSE g : g = [i \in D |-> LeftFrom(g, i)]
  BY DEF SyntaxFrom, LeftFrom, After
<1>3. f = [i \in D |-> LeftFrom(f, i)]
  BY <1>1
<1>4. SyntaxFrom = [i \in D |-> LeftFrom(SyntaxFrom, i)]
  BY <1>2, <1>3, Zenon
<1> HIDE DEF D
<1>5. DOMAIN SyntaxFrom = D /\ \A i \in D : SyntaxFrom[i] = LeftFrom(SyntaxFrom, i)
  BY <1>4
<1>6. ASSUME NEW i \in D, \A k \in (i + 1)..(Len(statement) + 1) : SyntaxFrom[k] \in Seq(SyntaxChars)
      PROVE  SyntaxFrom[i] \in Seq(SyntaxChars)
  <2>1. LeftFrom(SyntaxFrom, i) \in Seq(SyntaxChars)
    BY <1>6, LeftIs DEF D
  <2> QED BY <1>5, <2>1
<1>7. ASSUME NEW i \in D PROVE SyntaxFrom[i] \in Seq(SyntaxChars)
  <2> DEFINE N == Len(statement)
             T == {n \in 0..N : SyntaxFrom[N + 1 - n] \notin Seq(SyntaxChars)}
  <2>1. N \in Nat
    OBVIOUS
  <2>2. T = {}
    <3> SUFFICES ASSUME T # {} PROVE FALSE
      OBVIOUS
    <3>1. PICK n \in T : \A k \in T : n <= k
      <4>1. T \in SUBSET Nat
        BY <2>1
      <4> QED BY <4>1, LeastNatural
    <3>2. n \in 0..N /\ SyntaxFrom[N + 1 - n] \notin Seq(SyntaxChars)
      OBVIOUS
    <3> HIDE DEF N
    <3>3. ASSUME NEW k \in (N + 1 - n + 1)..(N + 1) PROVE SyntaxFrom[k] \in Seq(SyntaxChars)
      <4>1. N + 1 - k \in 0..N /\ N + 1 - k < n /\ N + 1 - (N + 1 - k) = k
        BY <2>1, <3>2
      <4>2. N + 1 - k \notin T
        <5> HIDE DEF T
        <5> QED BY <2>1, <3>1, <3>2, <4>1
      <4>3. SyntaxFrom[N + 1 - (N + 1 - k)] \in Seq(SyntaxChars)
        BY <4>1, <4>2
      <4> QED BY <4>1, <4>3
    <3>4. N + 1 - n \in D
      BY <2>1, <3>2 DEF D, N
    <3>5. SyntaxFrom[N + 1 - n] \in Seq(SyntaxChars)
      BY <1>6, <3>3, <3>4 DEF N
    <3> QED BY <3>2, <3>5
  <2>3. N + 1 - i \in 0..N /\ N + 1 - (N + 1 - i) = i
    BY <2>1 DEF D
  <2>4. SyntaxFrom[N + 1 - (N + 1 - i)] \in Seq(SyntaxChars)
    BY <2>2, <2>3
  <2> QED BY <2>3, <2>4
<1> QED BY <1>5, <1>7 DEF D

----------------------------------------------------------------------------
(***************************************************************************)
(* Inside of a literal.                                                    *)
(***************************************************************************)

LEMMA Parity ==
  ASSUME NEW n \in Int, n % 2 = 0
  PROVE  (n + 1) % 2 # 0 /\ (n - 1) % 2 # 0 /\ (n + 2) % 2 = 0
OBVIOUS

\* The scan of the literal that begins at i has come to n, in a row of quotes from a on
\* of which an even number is behind it; the literal has not ended before.
InRow(i, a, n) ==
  /\ i \in 1..Len(statement) /\ statement[i] \in Quotes
  /\ a \in (i + 1)..n /\ n \in (i + 1)..(Len(statement) + 1) /\ (n - a) % 2 = 0
  /\ \A k \in a..(n - 1) : statement[k] = statement[i]
  /\ a > i + 1 => statement[a - 1] # statement[i]
  /\ \A b \in LiteralEnds(i) : b >= a

LEMMA RowBegins ==
  ASSUME statement \in Seq(SqlChars), NEW i \in 1..Len(statement), statement[i] \in Quotes
  PROVE  InRow(i, i + 1, i + 1)
<1>1. \A b \in LiteralEnds(i) : b >= i + 1
  BY DEF LiteralEnds
<1>2. /\ i + 1 \in (i + 1)..(i + 1) /\ i + 1 \in (i + 1)..(Len(statement) + 1)
      /\ (i + 1 - (i + 1)) % 2 = 0 /\ (i + 1)..(i + 1 - 1) = {} /\ ~ (i + 1 > i + 1)
  OBVIOUS
<1> QED BY <1>1, <1>2 DEF InRow

\* What it is to be an end.
LEMMA LiteralEndIs ==
  ASSUME NEW i, NEW b
  PROVE  b \in LiteralEnds(i) <=>
           /\ b \in (i + 1)..Len(statement)
           /\ \E a \in (i + 1)..b :
                /\ \A k \in a..b : statement[k] = statement[i]
                /\ a > i + 1 => statement[a - 1] # statement[i]
                /\ b < Len(statement) => statement[b + 1] # statement[i]
                /\ (b - a) % 2 = 0
BY DEF LiteralEnds

LEMMA NoEndBehind ==
  ASSUME statement \in Seq(SqlChars), NEW i, NEW a, NEW n, InRow(i, a, n),
         NEW b \in LiteralEnds(i)
  PROVE  b >= n /\ b \in Nat /\ statement[b] = statement[i] /\ b \in (i + 1)..Len(statement)
<1>1. /\ i \in Nat /\ a \in Nat /\ n \in Nat /\ Len(statement) \in Nat
      /\ i + 1 <= a /\ a <= n /\ n <= Len(statement) + 1 /\ (n - a) % 2 = 0
      /\ \A k \in a..(n - 1) : statement[k] = statement[i]
      /\ a > i + 1 => statement[a - 1] # statement[i]
      /\ b >= a
  BY DEF InRow
<1>2. b \in (i + 1)..Len(statement) /\ b \in Nat
  BY <1>1, LiteralEndIs
<1>3. PICK c \in (i + 1)..b :
                /\ \A k \in c..b : statement[k] = statement[i]
                /\ c > i + 1 => statement[c - 1] # statement[i]
                /\ b < Len(statement) => statement[b + 1] # statement[i]
                /\ (b - c) % 2 = 0
  BY LiteralEndIs
<1>4. c \in Nat /\ statement[b] = statement[i]
  BY <1>1, <1>2, <1>3
<1>5. ~ (b < n)
  <2> SUFFICES ASSUME b < n PROVE FALSE
    OBVIOUS
  <2>1. b = n - 1
    <3> SUFFICES ASSUME b < n - 1 PROVE FALSE
      BY <1>1, <1>2
    <3>1. b + 1 \in a..(n - 1) /\ b < Len(statement)
      BY <1>1, <1>2
    <3> QED BY <1>1, <1>3, <3>1
  <2>2. c = a
    <3>1. ~ (c > a)
      <4> SUFFICES ASSUME c > a PROVE FALSE
        OBVIOUS
      <4>1. c - 1 \in a..(n - 1) /\ c > i + 1
        BY <1>1, <1>2, <1>3, <1>4, <2>1
      <4> QED BY <1>1, <1>3, <4>1
    <3>2. ~ (c < a)
      <4> SUFFICES ASSUME c < a PROVE FALSE
        OBVIOUS
      <4>1. a - 1 \in c..b /\ a > i + 1
        BY <1>1, <1>2, <1>3, <1>4, <2>1
      <4> QED BY <1>1, <1>3, <4>1
    <3> QED BY <1>1, <1>4, <3>1, <3>2
  <2>3. n - a \in Int /\ (n - a) - 1 = b - c
    BY <1>1, <1>2, <2>1, <2>2
  <2>4. ((n - a) - 1) % 2 # 0
    BY <1>1, <2>3, Parity
  <2> QED BY <1>3, <2>3, <2>4
<1> QED BY <1>1, <1>2, <1>4, <1>5

\* Text that is no quote.
LEMMA RowText ==
  ASSUME statement \in Seq(SqlChars), NEW i, NEW a, NEW n, InRow(i, a, n),
         n <= Len(statement), statement[n] # statement[i]
  PROVE  InRow(i, n + 1, n + 1)
<1>1. /\ i \in 1..Len(statement) /\ statement[i] \in Quotes
      /\ n \in (i + 1)..(Len(statement) + 1) /\ n \in Nat /\ i \in Nat /\ Len(statement) \in Nat
  BY DEF InRow
<1>2. ASSUME NEW b \in LiteralEnds(i) PROVE b >= n + 1
  <2>1. b >= n /\ b \in Nat /\ b # n
    BY NoEndBehind
  <2> QED BY <1>1, <2>1
<1>3. /\ n + 1 \in (i + 1)..(n + 1) /\ n + 1 \in (i + 1)..(Len(statement) + 1)
      /\ (n + 1 - (n + 1)) % 2 = 0 /\ (n + 1)..(n + 1 - 1) = {} /\ n + 1 - 1 = n
  BY <1>1
<1> QED BY <1>1, <1>2, <1>3 DEF InRow

\* A quote that is written twice.
LEMMA RowGoesOn ==
  ASSUME statement \in Seq(SqlChars), NEW i, NEW a, NEW n, InRow(i, a, n),
         n < Len(statement), statement[n] = statement[i], statement[n + 1] = statement[i]
  PROVE  InRow(i, a, n + 2)
<1>1. /\ i \in 1..Len(statement) /\ statement[i] \in Quotes
      /\ a \in Nat /\ n \in Nat /\ i \in Nat /\ Len(statement) \in Nat
      /\ i + 1 <= a /\ a <= n /\ n <= Len(statement) + 1 /\ (n - a) % 2 = 0
      /\ \A k \in a..(n - 1) : statement[k] = statement[i]
      /\ a > i + 1 => statement[a - 1] # statement[i]
      /\ \A b \in LiteralEnds(i) : b >= a
  BY DEF InRow
<1>2. (n + 2 - a) % 2 = 0
  <2>1. n - a \in Int /\ (n - a) + 2 = n + 2 - a
    BY <1>1
  <2>2. ((n - a) + 2) % 2 = 0
    BY <1>1, <2>1, Parity
  <2> QED BY <2>1, <2>2
<1>3. ASSUME NEW k \in a..(n + 2 - 1) PROVE statement[k] = statement[i]
  <2>1. k \in a..(n - 1) \/ k = n \/ k = n + 1
    BY <1>1
  <2> QED BY <1>1, <2>1
<1>4. a \in (i + 1)..(n + 2) /\ n + 2 \in (i + 1)..(Len(statement) + 1)
  BY <1>1
<1> QED BY <1>1, <1>2, <1>3, <1>4 DEF InRow

\* A quote that is not.
LEMMA RowEnds ==
  ASSUME statement \in Seq(SqlChars), NEW i, NEW a, NEW n, InRow(i, a, n),
         n <= Len(statement), statement[n] = statement[i],
         n < Len(statement) => statement[n + 1] # statement[i]
  PROVE  LiteralEnd(i) = n
<1>1. /\ a \in Nat /\ n \in Nat /\ i \in Nat /\ Len(statement) \in Nat
      /\ i + 1 <= a /\ a <= n /\ n <= Len(statement) + 1 /\ (n - a) % 2 = 0
      /\ \A k \in a..(n - 1) : statement[k] = statement[i]
      /\ a > i + 1 => statement[a - 1] # statement[i]
  BY DEF InRow
<1>2. \A k \in a..n : statement[k] = statement[i]
  <2>1. \A k \in a..n : k \in a..(n - 1) \/ k = n
    BY <1>1
  <2> QED BY <1>1, <2>1
<1>3. n \in (i + 1)..Len(statement) /\ a \in (i + 1)..n
  BY <1>1
<1>4. n \in LiteralEnds(i)
  BY <1>1, <1>2, <1>3, LiteralEndIs
<1>5. LiteralEnds(i) \in SUBSET Nat /\ \A b \in LiteralEnds(i) : n <= b
  BY <1>1, NoEndBehind
<1>6. LeastOr(LiteralEnds(i), 0) = n
  BY <1>4, <1>5, LeastOrEquals
<1> QED BY <1>6, EndsAre

LEMMA RowStaysOpen ==
  ASSUME statement \in Seq(SqlChars), NEW i, NEW a, InRow(i, a, Len(statement) + 1)
  PROVE  LiteralEnd(i) = 0
<1>1. LiteralEnds(i) = {}
  <2> SUFFICES ASSUME NEW b \in LiteralEnds(i) PROVE FALSE
    OBVIOUS
  <2>1. b >= Len(statement) + 1 /\ b \in Nat /\ b \in (i + 1)..Len(statement)
    BY NoEndBehind
  <2>2. i \in Nat /\ Len(statement) \in Nat
    BY DEF InRow
  <2> QED BY <2>1, <2>2
<1>2. LeastOr({}, 0) = 0
  BY DEF LeastOr
<1> QED BY <1>1, <1>2, EndsAre

----------------------------------------------------------------------------
(***************************************************************************)
(* Inside of a comment.                                                    *)
(***************************************************************************)

\* The two characters at k open or close a comment.
Opens(k) == CharAt(k) = "/" /\ CharAt(k + 1) = "*"
Closes(k) == CharAt(k) = "*" /\ CharAt(k + 1) = "/"
Pair(k) == Opens(k) \/ Closes(k)

LEMMA PairIs ==
  ASSUME NEW k
  PROVE  {CharAt(k), CharAt(k + 1)} = {"/", "*"} <=> Pair(k)
<1>1. ASSUME NEW x, NEW y PROVE {x, y} = {"/", "*"} <=> (x = "/" /\ y = "*") \/ (x = "*" /\ y = "/")
  OBVIOUS
<1> QED BY <1>1 DEF Pair, Opens, Closes

LEMMA PairInside ==
  ASSUME statement \in Seq(SqlChars), NEW k \in Nat, Pair(k)
  PROVE  k \in 1..(Len(statement) - 1) /\ (Opens(k) <=> statement[k] = "/")
         /\ (Closes(k) <=> statement[k] = "*")
<1>1. k \in DOMAIN statement /\ k + 1 \in DOMAIN statement
  BY DEF Pair, Opens, Closes, CharAt
<1>2. k \in 1..(Len(statement) - 1)
  BY <1>1
<1>3. CharAt(k) = statement[k]
  BY <1>1 DEF CharAt
<1> QED BY <1>2, <1>3 DEF Pair, Opens, Closes

LEMMA MarkIs ==
  ASSUME NEW i, NEW p
  PROVE  p \in Marks(i) <=>
           /\ p \in (i + 2)..(Len(statement) - 1)
           /\ \E a \in (i + 2)..p : /\ (p - a) % 2 = 0
                                    /\ \A k \in a..p : Pair(k)
                                    /\ a > i + 2 => ~ Pair(a - 1)
<1> DEFINE P(k) == {CharAt(k), CharAt(k + 1)} = {"/", "*"}
<1>1. p \in Marks(i) <=>
           /\ p \in (i + 2)..(Len(statement) - 1)
           /\ \E a \in (i + 2)..p : /\ (p - a) % 2 = 0
                                    /\ \A k \in a..p : P(k)
                                    /\ a > i + 2 => ~ P(a - 1)
  BY DEF Marks
<1>2. \A k : P(k) <=> Pair(k)
  BY PairIs
<1> HIDE DEF P
<1> QED BY <1>1, <1>2

\* The scan of the comment that begins at i has come to n, behind a row of pairs from a on,
\* with depth comments open; the comment has not ended before.
InPairs(i, a, n, d) ==
  /\ i \in 1..Len(statement) /\ a \in (i + 2)..n /\ n \in (i + 2)..(Len(statement) + 1)
  /\ (n - a) % 2 = 0
  /\ \A k \in a..(n - 1) : Pair(k)
  /\ a > i + 2 => ~ Pair(a - 1)
  /\ d = 1 + Cardinality(MarksTo(i, n - 1, "/")) - Cardinality(MarksTo(i, n - 1, "*"))
  /\ d > 0
  /\ \A m \in Closing(i) : m >= n

LEMMA InPairsTypes ==
  ASSUME statement \in Seq(SqlChars), NEW i, NEW a, NEW n, NEW d, InPairs(i, a, n, d)
  PROVE  /\ i \in Nat /\ a \in Nat /\ n \in Nat /\ Len(statement) \in Nat
         /\ i + 2 <= a /\ a <= n /\ n <= Len(statement) + 1 /\ (n - a) % 2 = 0
         /\ i <= Len(statement) /\ 1 <= i
         /\ \A k \in a..(n - 1) : Pair(k)
         /\ a > i + 2 => ~ Pair(a - 1)
<1>1. i \in 1..Len(statement) /\ a \in (i + 2)..n /\ n \in (i + 2)..(Len(statement) + 1)
  BY DEF InPairs
<1>2. /\ (n - a) % 2 = 0 /\ \A k \in a..(n - 1) : Pair(k)
      /\ a > i + 2 => ~ Pair(a - 1)
  BY DEF InPairs
<1> QED BY <1>1, <1>2

\* A pair that the scan comes to is a mark, the one that overlaps it is not.
LEMMA PairIsMark ==
  ASSUME statement \in Seq(SqlChars), NEW i, NEW a, NEW n, NEW d, InPairs(i, a, n, d), Pair(n)
  PROVE  n \in Marks(i) /\ n + 1 \notin Marks(i) /\ n + 1 <= Len(statement)
<1>1. /\ i \in Nat /\ a \in Nat /\ n \in Nat /\ Len(statement) \in Nat
      /\ i + 2 <= a /\ a <= n /\ n <= Len(statement) + 1 /\ (n - a) % 2 = 0
      /\ \A k \in a..(n - 1) : Pair(k)
      /\ a > i + 2 => ~ Pair(a - 1)
  BY InPairsTypes
<1>2. n \in 1..(Len(statement) - 1)
  BY <1>1, PairInside
<1>3. \A k \in a..n : Pair(k)
  <2>1. \A k \in a..n : k \in a..(n - 1) \/ k = n
    BY <1>1
  <2> QED BY <1>1, <2>1
<1>4. n \in Marks(i)
  <2>1. n \in (i + 2)..(Len(statement) - 1) /\ a \in (i + 2)..n
    BY <1>1, <1>2
  <2> QED BY <1>1, <1>3, <2>1, MarkIs
<1>5. n + 1 \notin Marks(i)
  <2> SUFFICES ASSUME n + 1 \in Marks(i) PROVE FALSE
    OBVIOUS
  <2>1. PICK c \in (i + 2)..(n + 1) : /\ (n + 1 - c) % 2 = 0
                                      /\ \A k \in c..(n + 1) : Pair(k)
                                      /\ c > i + 2 => ~ Pair(c - 1)
    BY <1>1, MarkIs
  <2>2. ~ (c > a)
    <3> SUFFICES ASSUME c > a PROVE FALSE
      OBVIOUS
    <3>1. c - 1 \in a..n /\ c > i + 2
      BY <1>1, <2>1
    <3> QED BY <1>3, <2>1, <3>1
  <2>3. ~ (c < a)
    <3> SUFFICES ASSUME c < a PROVE FALSE
      OBVIOUS
    <3>1. a - 1 \in c..(n + 1) /\ a > i + 2
      BY <1>1, <2>1
    <3> QED BY <1>1, <2>1, <3>1
  <2>4. n - a \in Int /\ (n - a) + 1 = n + 1 - c
    BY <1>1, <2>1, <2>2, <2>3
  <2>5. ((n - a) + 1) % 2 # 0
    BY <1>1, <2>4, Parity
  <2> QED BY <2>1, <2>4, <2>5
<1> QED BY <1>1, <1>2, <1>4, <1>5

LEMMA MarksAreFinite ==
  ASSUME statement \in Seq(SqlChars), NEW i, i \in Nat, NEW p, NEW char
  PROVE  /\ Marks(i) \in SUBSET Nat /\ IsFiniteSet(MarksTo(i, p, char))
         /\ Cardinality(MarksTo(i, p, char)) \in Nat
<1>1. Marks(i) \subseteq (i + 2)..(Len(statement) - 1)
  BY MarkIs
<1>2. IsFiniteSet((i + 2)..(Len(statement) - 1))
  BY FS_Interval
<1>3. MarksTo(i, p, char) \subseteq (i + 2)..(Len(statement) - 1)
  BY <1>1 DEF MarksTo
<1>4. IsFiniteSet(MarksTo(i, p, char))
  BY <1>2, <1>3, FS_Subset
<1>5. (i + 2)..(Len(statement) - 1) \subseteq Nat
  OBVIOUS
<1> QED BY <1>1, <1>4, <1>5, FS_CardinalityType

\* The marks up to p, one step on.
LEMMA MarksGrow ==
  ASSUME statement \in Seq(SqlChars), NEW i \in Nat, NEW n \in Nat, NEW char
  PROVE  /\ n \in Marks(i) /\ statement[n] = char =>
              Cardinality(MarksTo(i, n, char)) = Cardinality(MarksTo(i, n - 1, char)) + 1
         /\ ~ (n \in Marks(i) /\ statement[n] = char) =>
              MarksTo(i, n, char) = MarksTo(i, n - 1, char)
<1> DEFINE before == MarksTo(i, n - 1, char)
           after == MarksTo(i, n, char)
<1>1. Marks(i) \in SUBSET Nat /\ IsFiniteSet(before) /\ IsFiniteSet(after)
  BY MarksAreFinite
<1>2. \A m \in Nat : m <= n <=> m <= n - 1 \/ m = n
  OBVIOUS
<1>3. n \notin before
  BY <1>1 DEF MarksTo
<1>4. CASE n \in Marks(i) /\ statement[n] = char
  <2>1. after = before \cup {n}
    BY <1>1, <1>2, <1>4 DEF MarksTo
  <2> HIDE DEF before, after
  <2>2. Cardinality(after) = Cardinality(before) + 1
    BY <1>1, <1>3, <2>1, FS_AddElement
  <2> QED BY <1>4, <2>2 DEF before, after
<1>5. CASE ~ (n \in Marks(i) /\ statement[n] = char)
  <2>1. after = before
    BY <1>1, <1>2, <1>5 DEF MarksTo
  <2> QED BY <1>5, <2>1
<1> QED BY <1>4, <1>5

LEMMA CommentBegins ==
  ASSUME statement \in Seq(SqlChars), NEW i \in 1..Len(statement), Opens(i)
  PROVE  InPairs(i, i + 2, i + 2, 1)
<1>1. i \in 1..(Len(statement) - 1)
  BY PairInside DEF Pair
<1>2. /\ i + 2 \in (i + 2)..(i + 2) /\ i + 2 \in (i + 2)..(Len(statement) + 1)
      /\ (i + 2 - (i + 2)) % 2 = 0 /\ (i + 2)..(i + 2 - 1) = {} /\ ~ (i + 2 > i + 2)
  BY <1>1
<1>3. \A m \in Marks(i) : m >= i + 2 /\ m \in Nat
  BY MarkIs
<1>4. ASSUME NEW char PROVE Cardinality(MarksTo(i, i + 2 - 1, char)) = 0
  <2>1. MarksTo(i, i + 2 - 1, char) = {}
    BY <1>3 DEF MarksTo
  <2> QED BY <2>1, FS_EmptySet
<1>5. \A m \in Closing(i) : m >= i + 2
  BY <1>3 DEF Closing
<1>6. 1 = 1 + Cardinality(MarksTo(i, i + 2 - 1, "/")) - Cardinality(MarksTo(i, i + 2 - 1, "*"))
  BY <1>4
<1> QED BY <1>2, <1>5, <1>6 DEF InPairs

\* Text inside of the comment.
LEMMA CommentText ==
  ASSUME statement \in Seq(SqlChars), NEW i, NEW a, NEW n, NEW d, InPairs(i, a, n, d),
         ~ Pair(n), n <= Len(statement)
  PROVE  InPairs(i, n + 1, n + 1, d)
<1>1. /\ i \in Nat /\ n \in Nat /\ Len(statement) \in Nat
      /\ i + 2 <= n /\ i <= Len(statement) /\ 1 <= i
  BY InPairsTypes
<1>2. n \notin Marks(i)
  <2> SUFFICES ASSUME n \in Marks(i) PROVE FALSE
    OBVIOUS
  <2>1. PICK c \in (i + 2)..n : \A k \in c..n : Pair(k)
    BY MarkIs, Zenon
  <2>2. n \in c..n
    BY <1>1, <2>1
  <2> QED BY <2>1, <2>2
<1>3. ASSUME NEW char PROVE MarksTo(i, n, char) = MarksTo(i, n - 1, char)
  BY <1>1, <1>2, MarksGrow
<1>4. \A m \in Closing(i) : m >= n + 1
  <2> SUFFICES ASSUME NEW m \in Closing(i) PROVE m >= n + 1
    OBVIOUS
  <2>1. m >= n /\ m \in Marks(i)
    BY DEF InPairs, Closing
  <2>2. m \in Nat /\ m # n
    BY <1>1, <1>2, <2>1, MarksAreFinite
  <2> QED BY <1>1, <2>1, <2>2
<1>5. n + 1 - 1 = n
  BY <1>1
<1>6. d > 0 /\ d = 1 + Cardinality(MarksTo(i, n - 1, "/")) - Cardinality(MarksTo(i, n - 1, "*"))
  BY DEF InPairs
<1>7. d = 1 + Cardinality(MarksTo(i, n + 1 - 1, "/")) - Cardinality(MarksTo(i, n + 1 - 1, "*"))
  BY <1>3, <1>5, <1>6
<1>8. /\ i \in 1..Len(statement) /\ n + 1 \in (i + 2)..(n + 1)
      /\ n + 1 \in (i + 2)..(Len(statement) + 1) /\ (n + 1 - (n + 1)) % 2 = 0
      /\ (n + 1)..(n + 1 - 1) = {}
  BY <1>1
<1> QED BY <1>4, <1>5, <1>6, <1>7, <1>8 DEF InPairs

\* What a pair does to the number of marks.
LEMMA PairCounts ==
  ASSUME statement \in Seq(SqlChars), NEW i, NEW a, NEW n, NEW d, InPairs(i, a, n, d), Pair(n)
  PROVE  LET opened(p) == Cardinality(MarksTo(i, p, "/"))
             closed(p) == Cardinality(MarksTo(i, p, "*"))
         IN /\ opened(n) \in Nat /\ closed(n) \in Nat
            /\ opened(n + 1) = opened(n) /\ closed(n + 1) = closed(n)
            /\ Opens(n) => 1 + opened(n) - closed(n) = d + 1
            /\ Closes(n) => 1 + opened(n) - closed(n) = d - 1
<1> DEFINE opened(p) == Cardinality(MarksTo(i, p, "/"))
           closed(p) == Cardinality(MarksTo(i, p, "*"))
<1>1. i \in Nat /\ n \in Nat
  BY InPairsTypes
<1>2. n \in Marks(i) /\ n + 1 \notin Marks(i)
  BY PairIsMark
<1>3. /\ opened(n) \in Nat /\ closed(n) \in Nat
      /\ opened(n - 1) \in Nat /\ closed(n - 1) \in Nat
  BY <1>1, MarksAreFinite
<1>4. opened(n + 1) = opened(n) /\ closed(n + 1) = closed(n)
  <2>1. n + 1 \in Nat /\ n + 1 - 1 = n
    BY <1>1
  <2>2. ASSUME NEW char PROVE MarksTo(i, n + 1, char) = MarksTo(i, n + 1 - 1, char)
    BY <1>1, <1>2, <2>1, MarksGrow
  <2> QED BY <2>1, <2>2
<1>5. /\ Opens(n) <=> statement[n] = "/"
      /\ Closes(n) <=> statement[n] = "*"
  BY <1>1, PairInside
<1>6. Opens(n) => opened(n) = opened(n - 1) + 1 /\ closed(n) = closed(n - 1)
  <2> SUFFICES ASSUME Opens(n) PROVE opened(n) = opened(n - 1) + 1 /\ closed(n) = closed(n - 1)
    OBVIOUS
  <2>1. statement[n] = "/" /\ statement[n] # "*"
    BY <1>5
  <2>2. opened(n) = opened(n - 1) + 1
    BY <1>1, <1>2, <2>1, MarksGrow
  <2>3. MarksTo(i, n, "*") = MarksTo(i, n - 1, "*")
    BY <1>1, <2>1, MarksGrow
  <2> QED BY <2>2, <2>3
<1>7. Closes(n) => closed(n) = closed(n - 1) + 1 /\ opened(n) = opened(n - 1)
  <2> SUFFICES ASSUME Closes(n) PROVE closed(n) = closed(n - 1) + 1 /\ opened(n) = opened(n - 1)
    OBVIOUS
  <2>1. statement[n] = "*" /\ statement[n] # "/"
    BY <1>5
  <2>2. closed(n) = closed(n - 1) + 1
    BY <1>1, <1>2, <2>1, MarksGrow
  <2>3. MarksTo(i, n, "/") = MarksTo(i, n - 1, "/")
    BY <1>1, <2>1, MarksGrow
  <2> QED BY <2>2, <2>3
<1>8. d = 1 + opened(n - 1) - closed(n - 1)
  BY DEF InPairs
<1> HIDE DEF opened, closed
<1>9. /\ Opens(n) => 1 + opened(n) - closed(n) = d + 1
      /\ Closes(n) => 1 + opened(n) - closed(n) = d - 1
  BY <1>3, <1>6, <1>7, <1>8
<1> QED BY <1>3, <1>4, <1>9 DEF opened, closed

\* The end that a mark makes when it closes more than was opened.
LEMMA CommentGoesOn ==
  ASSUME statement \in Seq(SqlChars), NEW i, NEW a, NEW n, NEW d, InPairs(i, a, n, d), Pair(n),
         NEW e, e > 0, Opens(n) => e = d + 1, Closes(n) => e = d - 1
  PROVE  InPairs(i, IF Pair(n + 1) THEN a ELSE n + 2, n + 2, e)
<1> DEFINE opened(p) == Cardinality(MarksTo(i, p, "/"))
           closed(p) == Cardinality(MarksTo(i, p, "*"))
<1>1. /\ i \in Nat /\ a \in Nat /\ n \in Nat /\ Len(statement) \in Nat
      /\ i + 2 <= a /\ a <= n /\ n <= Len(statement) + 1 /\ (n - a) % 2 = 0
      /\ i <= Len(statement) /\ 1 <= i
      /\ \A k \in a..(n - 1) : Pair(k)
      /\ a > i + 2 => ~ Pair(a - 1)
  BY InPairsTypes
<1>2. /\ n \in Marks(i) /\ n + 1 \notin Marks(i) /\ n + 1 <= Len(statement)
  BY PairIsMark
<1>3. /\ opened(n) \in Nat /\ closed(n) \in Nat
      /\ opened(n + 1) = opened(n) /\ closed(n + 1) = closed(n)
      /\ Opens(n) => 1 + opened(n) - closed(n) = d + 1
      /\ Closes(n) => 1 + opened(n) - closed(n) = d - 1
  BY PairCounts
<1>4. e = 1 + opened(n) - closed(n)
  BY <1>3 DEF Pair
<1>5. n \notin Closing(i)
  <2> SUFFICES ASSUME n \in Closing(i) PROVE FALSE
    OBVIOUS
  <2>1. closed(n) > opened(n)
    BY DEF Closing
  <2> HIDE DEF opened, closed
  <2> QED BY <1>3, <1>4, <2>1
<1>6. \A m \in Closing(i) : m >= n + 2
  <2> SUFFICES ASSUME NEW m \in Closing(i) PROVE m >= n + 2
    OBVIOUS
  <2>1. m >= n /\ m \in Marks(i)
    BY DEF InPairs, Closing
  <2>2. m \in Nat /\ m # n /\ m # n + 1
    BY <1>1, <1>2, <1>5, <2>1, MarksAreFinite
  <2> QED BY <1>1, <2>1, <2>2
<1>7. (n + 2 - a) % 2 = 0
  <2>1. n - a \in Int /\ (n - a) + 2 = n + 2 - a
    BY <1>1
  <2>2. ((n - a) + 2) % 2 = 0
    BY <1>1, <2>1, Parity
  <2> QED BY <2>1, <2>2
<1>8. ASSUME NEW k \in a..(n + 2 - 1), k # n + 1 PROVE Pair(k)
  <2>1. k \in a..(n - 1) \/ k = n
    BY <1>1, <1>8
  <2> QED BY <1>1, <2>1
<1>9. n + 2 - 1 = n + 1 /\ n + 2 \in (i + 2)..(Len(statement) + 1)
      /\ i \in 1..Len(statement)
  BY <1>1, <1>2
<1>10. e = 1 + opened(n + 2 - 1) - closed(n + 2 - 1)
  BY <1>3, <1>4, <1>9
<1>11. CASE Pair(n + 1)
  <2>1. \A k \in a..(n + 2 - 1) : Pair(k)
    BY <1>8, <1>11
  <2>2. a \in (i + 2)..(n + 2)
    BY <1>1
  <2>3. InPairs(i, a, n + 2, e)
    BY <1>1, <1>6, <1>7, <1>9, <1>10, <2>1, <2>2 DEF InPairs
  <2> QED BY <1>11, <2>3
<1>12. CASE ~ Pair(n + 1)
  <2>1. /\ (n + 2)..(n + 2 - 1) = {} /\ n + 2 \in (i + 2)..(n + 2) /\ (n + 2 - (n + 2)) % 2 = 0
    BY <1>1
  <2>2. InPairs(i, n + 2, n + 2, e)
    BY <1>6, <1>9, <1>10, <1>12, <2>1 DEF InPairs
  <2> QED BY <1>12, <2>2
<1> QED BY <1>11, <1>12

\* The mark that closes as much as was opened ends the comment.
LEMMA CommentCloses ==
  ASSUME statement \in Seq(SqlChars), NEW i, NEW a, NEW n, InPairs(i, a, n, 1), Closes(n)
  PROVE  CommentEnd(i) = n + 1
<1> DEFINE opened(p) == Cardinality(MarksTo(i, p, "/"))
           closed(p) == Cardinality(MarksTo(i, p, "*"))
           S == {m + 1 : m \in Closing(i)}
<1>1. Pair(n) /\ i \in Nat /\ n \in Nat
  BY InPairsTypes DEF Pair
<1>2. opened(n) \in Nat /\ closed(n) \in Nat /\ (Closes(n) => 1 + opened(n) - closed(n) = 1 - 1)
  BY <1>1, PairCounts
<1>3. closed(n) > opened(n)
  <2> HIDE DEF opened, closed
  <2> QED BY <1>2
<1>4. n \in Closing(i)
  <2>1. n \in Marks(i)
    BY <1>1, PairIsMark
  <2> QED BY <1>3, <2>1 DEF Closing
<1>5. \A m \in Closing(i) : m >= n /\ m \in Nat
  <2>1. \A m \in Closing(i) : m \in Nat
    BY <1>1, MarksAreFinite DEF Closing
  <2> QED BY <2>1 DEF InPairs
<1>6. n + 1 \in S /\ S \in SUBSET Nat /\ \A k \in S : n + 1 <= k
  BY <1>1, <1>4, <1>5
<1> HIDE DEF S
<1>7. LeastOr(S, 0) = n + 1
  BY <1>6, LeastOrEquals
<1> QED BY <1>7, EndsAre DEF S

LEMMA CommentStaysOpen ==
  ASSUME statement \in Seq(SqlChars), NEW i, NEW a, NEW d,
         InPairs(i, a, Len(statement) + 1, d)
  PROVE  CommentEnd(i) = 0
<1>1. Closing(i) = {}
  <2> SUFFICES ASSUME NEW m \in Closing(i) PROVE FALSE
    OBVIOUS
  <2>1. m >= Len(statement) + 1
    BY DEF InPairs
  <2>2. m \in (i + 2)..(Len(statement) - 1) /\ i \in Nat
    <3>1. m \in Marks(i)
      BY DEF Closing
    <3> QED BY <3>1, MarkIs, InPairsTypes
  <2> QED BY <2>1, <2>2
<1>2. {p + 1 : p \in Closing(i)} = {}
  BY <1>1
<1>3. LeastOr({}, 0) = 0
  BY DEF LeastOr
<1> QED BY <1>2, <1>3, EndsAre

----------------------------------------------------------------------------
(***************************************************************************)
(* The scan.                                                               *)
(***************************************************************************)

\* Where the scan is, what it has kept, the quote and the comments it is in: what it kept
\* and what is left from the literal or comment that it is in make up the syntax.
InText(n, out) == out \o SyntaxFrom[n] = Syntax
InLiteral(n, out, q) ==
  \E i, a : InRow(i, a, n) /\ q = statement[i] /\ InText(i, out)
InComment(n, out, d) ==
  \E i, a : InPairs(i, a, n, d) /\ Opens(i) /\ InText(i, out)
Place(n, out, q, d) ==
  /\ n \in 1..(Len(statement) + 1) /\ out \in Seq(SqlChars)
  /\ \/ q = "none" /\ d = 0 /\ InText(n, out)
     \/ q \in Quotes /\ d = 0 /\ InLiteral(n, out, q)
     \/ q = "none" /\ d \in Nat \ {0} /\ InComment(n, out, d)

LEMMA AppendThen ==
  ASSUME NEW s \in Seq(SyntaxChars), NEW x \in SyntaxChars, NEW t \in Seq(SyntaxChars)
  PROVE  Append(s, x) \o t = s \o (<<x>> \o t)
<1> DEFINE S == SyntaxChars
<1> HIDE DEF S
<1>0. s \in Seq(S) /\ x \in S /\ t \in Seq(S)
  BY DEF S
<1>1. <<x>> \in Seq(S)
  BY <1>0, SingleIs
<1>2. Append(s, x) = s \o <<x>>
  BY <1>0, AppendIsConcat
<1>3. (s \o <<x>>) \o t = s \o (<<x>> \o t)
  BY <1>0, <1>1, ConcatAssociative
<1> QED BY <1>2, <1>3

LEMMA CharsAre ==
  /\ SqlChars \subseteq SyntaxChars /\ "open" \notin SqlChars /\ " " \in SqlChars
  /\ "none" \notin Quotes /\ "/" \notin Quotes /\ "-" \notin Quotes
BY DEF SyntaxChars, SqlChars, Quotes, Spaces, WordChars

LEMMA InSyntaxChars ==
  ASSUME NEW out \in Seq(SqlChars)
  PROVE  out \in Seq(SyntaxChars)
BY CharsAre, SeqMonotonic

\* What is kept takes the place of what it stands for.
LEMMA KeepOne ==
  ASSUME statement \in Seq(SqlChars), NEW i \in 1..(Len(statement) + 1),
         NEW n \in 1..(Len(statement) + 1), NEW out \in Seq(SqlChars), NEW x \in SqlChars,
         InText(i, out), SyntaxFrom[i] = <<x>> \o SyntaxFrom[n]
  PROVE  InText(n, Append(out, x)) /\ Append(out, x) \in Seq(SqlChars)
<1>1. out \in Seq(SyntaxChars) /\ x \in SyntaxChars /\ SyntaxFrom[n] \in Seq(SyntaxChars)
  BY InSyntaxChars, CharsAre, SyntaxIs
<1>2. Append(out, x) \o SyntaxFrom[n] = out \o (<<x>> \o SyntaxFrom[n])
  <2>1. PICK t \in Seq(SyntaxChars) : t = SyntaxFrom[n]
    BY <1>1
  <2>2. Append(out, x) \o t = out \o (<<x>> \o t)
    BY <1>1, AppendThen
  <2> QED BY <2>1, <2>2
<1>3. Append(out, x) \in Seq(SqlChars)
  BY AppendProperties
<1> QED BY <1>2, <1>3 DEF InText

LEMMA CharAtIs ==
  ASSUME statement \in Seq(SqlChars), NEW k \in 1..Len(statement)
  PROVE  CharAt(k) = statement[k] /\ statement[k] \in SqlChars
<1>1. k \in DOMAIN statement
  OBVIOUS
<1> QED BY <1>1 DEF CharAt

LEMMA FromLiteral ==
  ASSUME statement \in Seq(SqlChars), NEW i \in 1..Len(statement), statement[i] \in Quotes
  PROVE  SyntaxFrom[i] = After(SyntaxFrom, LiteralEnd(i))
<1>1. SyntaxFrom[i] = LeftFrom(SyntaxFrom, i)
  BY SyntaxIs
<1>2. ~ (i > Len(statement))
  OBVIOUS
<1> QED BY <1>1, <1>2, Zenon DEF LeftFrom

LEMMA FromComment ==
  ASSUME statement \in Seq(SqlChars), NEW i \in 1..Len(statement), Opens(i)
  PROVE  SyntaxFrom[i] = After(SyntaxFrom, CommentEnd(i))
<1>1. SyntaxFrom[i] = LeftFrom(SyntaxFrom, i)
  BY SyntaxIs
<1>2. ~ (i > Len(statement))
  OBVIOUS
<1>3. statement[i] = "/" /\ statement[i] \notin Quotes
  BY CharAtIs, CharsAre DEF Opens
<1>4. ~ (CharAt(i) = "-" /\ CharAt(i + 1) = "-") /\ CharAt(i) = "/" /\ CharAt(i + 1) = "*"
  BY DEF Opens
<1> QED BY <1>1, <1>2, <1>3, <1>4, Zenon DEF LeftFrom

LEMMA FromLine ==
  ASSUME statement \in Seq(SqlChars), NEW i \in 1..Len(statement),
         CharAt(i) = "-", CharAt(i + 1) = "-"
  PROVE  SyntaxFrom[i] = <<" ">> \o SyntaxFrom[LineEnd(i) + 1] /\ LineEnd(i) \in i..Len(statement)
<1>1. SyntaxFrom[i] = LeftFrom(SyntaxFrom, i)
  BY SyntaxIs
<1>2. ~ (i > Len(statement))
  OBVIOUS
<1>3. statement[i] \notin Quotes
  BY CharAtIs, CharsAre
<1>4. LeftFrom(SyntaxFrom, i) = After(SyntaxFrom, LineEnd(i))
  BY <1>2, <1>3, Zenon DEF LeftFrom
<1>5. LineEnd(i) \in i..Len(statement)
  BY EndsInRange
<1>6. LineEnd(i) # 0
  BY <1>5
<1> QED BY <1>1, <1>4, <1>5, <1>6, Zenon DEF After

LEMMA FromText ==
  ASSUME statement \in Seq(SqlChars), NEW i \in 1..Len(statement), CharAt(i) \notin Quotes,
         ~ (CharAt(i) = "-" /\ CharAt(i + 1) = "-"), ~ Opens(i)
  PROVE  SyntaxFrom[i] = <<statement[i]>> \o SyntaxFrom[i + 1]
<1>1. SyntaxFrom[i] = LeftFrom(SyntaxFrom, i)
  BY SyntaxIs
<1>2. ~ (i > Len(statement))
  OBVIOUS
<1>3. statement[i] \notin Quotes
  BY CharAtIs
<1>4. ~ (CharAt(i) = "/" /\ CharAt(i + 1) = "*")
  BY DEF Opens
<1> QED BY <1>1, <1>2, <1>3, <1>4, Zenon DEF LeftFrom

\* The steps of the scan from one place to the next.

LEMMA PlaceTypes ==
  ASSUME statement \in Seq(SqlChars), NEW n, NEW out, NEW q, NEW d, Place(n, out, q, d)
  PROVE  /\ n \in 1..(Len(statement) + 1) /\ n \in Nat /\ Len(statement) \in Nat
         /\ out \in Seq(SqlChars) /\ d \in Nat
         /\ q = "none" /\ d = 0 => InText(n, out)
         /\ q # "none" => q \in Quotes /\ d = 0 /\ InLiteral(n, out, q)
         /\ d > 0 => q = "none" /\ InComment(n, out, d)
<1>1. n \in 1..(Len(statement) + 1) /\ out \in Seq(SqlChars) /\ Len(statement) \in Nat
  BY DEF Place
<1>2. \/ q = "none" /\ d = 0 /\ InText(n, out)
      \/ q \in Quotes /\ q # "none" /\ d = 0 /\ InLiteral(n, out, q)
      \/ q = "none" /\ d \in Nat /\ d # 0 /\ InComment(n, out, d)
  BY CharsAre DEF Place
<1>3. n \in Nat /\ d \in Nat
  BY <1>1, <1>2
<1>4. d > 0 => d # 0
  BY <1>3
<1> QED BY <1>1, <1>2, <1>3, <1>4

LEMMA BeginScan ==
  ASSUME statement \in Seq(SqlChars)
  PROVE  Place(1, <<>>, "none", 0)
<1>1. 1 \in 1..(Len(statement) + 1) /\ <<>> \in Seq(SqlChars)
  BY EmptySeq
<1>2. SyntaxFrom[1] \in Seq(SyntaxChars)
  BY <1>1, SyntaxIs
<1>3. InText(1, <<>>)
  BY <1>2, ConcatEmptySeq DEF InText, Syntax
<1> QED BY <1>1, <1>3 DEF Place

LEMMA PlaceOfQuote ==
  ASSUME statement \in Seq(SqlChars), NEW n, NEW out, Place(n, out, "none", 0),
         n <= Len(statement), statement[n] \in Quotes
  PROVE  Place(n + 1, out, statement[n], 0)
<1>1. n \in 1..Len(statement) /\ n \in Nat /\ InText(n, out) /\ out \in Seq(SqlChars)
  BY PlaceTypes
<1>2. InRow(n, n + 1, n + 1)
  BY <1>1, RowBegins
<1>3. InLiteral(n + 1, out, statement[n])
  BY <1>1, <1>2 DEF InLiteral
<1>4. n + 1 \in 1..(Len(statement) + 1)
  BY <1>1
<1> QED BY <1>1, <1>3, <1>4 DEF Place

LEMMA PlaceInQuotes ==
  ASSUME statement \in Seq(SqlChars), NEW n, NEW out, NEW q, NEW d, Place(n, out, q, d),
         q # "none", n <= Len(statement)
  PROVE  /\ statement[n] # q => Place(n + 1, out, q, 0)
         /\ statement[n] = q /\ n < Len(statement) /\ statement[n + 1] = q => Place(n + 2, out, q, 0)
         /\ statement[n] = q /\ (n < Len(statement) => statement[n + 1] # q) =>
              Place(n + 1, Append(out, " "), "none", 0)
<1>1. /\ n \in 1..Len(statement) /\ n \in Nat /\ q \in Quotes /\ InLiteral(n, out, q)
      /\ out \in Seq(SqlChars)
  BY PlaceTypes
<1>2. PICK i, a : InRow(i, a, n) /\ q = statement[i] /\ InText(i, out)
  BY <1>1 DEF InLiteral
<1>3. i \in 1..Len(statement) /\ statement[i] \in Quotes
  BY <1>2 DEF InRow
<1>4. n + 1 \in 1..(Len(statement) + 1)
  BY <1>1
<1>5. ASSUME statement[n] # q PROVE Place(n + 1, out, q, 0)
  <2>1. InRow(i, n + 1, n + 1)
    BY <1>2, <1>5, RowText
  <2>2. InLiteral(n + 1, out, q)
    BY <1>2, <2>1 DEF InLiteral
  <2> QED BY <1>1, <1>4, <2>2 DEF Place
<1>6. ASSUME statement[n] = q, n < Len(statement), statement[n + 1] = q
      PROVE  Place(n + 2, out, q, 0)
  <2>1. InRow(i, a, n + 2)
    BY <1>2, <1>6, RowGoesOn
  <2>2. InLiteral(n + 2, out, q)
    BY <1>2, <2>1 DEF InLiteral
  <2>3. n + 2 \in 1..(Len(statement) + 1)
    BY <1>1, <1>6
  <2> QED BY <1>1, <2>2, <2>3 DEF Place
<1>7. ASSUME statement[n] = q, n < Len(statement) => statement[n + 1] # q
      PROVE  Place(n + 1, Append(out, " "), "none", 0)
  <2>1. LiteralEnd(i) = n
    BY <1>2, <1>7, RowEnds
  <2>2. SyntaxFrom[i] = <<" ">> \o SyntaxFrom[n + 1]
    <3>1. n # 0
      BY <1>1
    <3>2. SyntaxFrom[i] = After(SyntaxFrom, n)
      BY <1>3, <2>1, FromLiteral
    <3> QED BY <3>1, <3>2, Zenon DEF After
  <2>3. i \in 1..(Len(statement) + 1)
    BY <1>1, <1>3
  <2>5. " " \in SqlChars
    BY CharsAre
  <2>4. InText(n + 1, Append(out, " ")) /\ Append(out, " ") \in Seq(SqlChars)
    BY <1>1, <1>2, <1>4, <2>2, <2>3, <2>5, KeepOne
  <2> QED BY <1>4, <2>4 DEF Place
<1> QED BY <1>5, <1>6, <1>7

LEMMA PlaceOfLine ==
  ASSUME statement \in Seq(SqlChars), NEW n, NEW out, Place(n, out, "none", 0),
         n <= Len(statement), CharAt(n) = "-", CharAt(n + 1) = "-"
  PROVE  Place(LineEnd(n) + 1, Append(out, " "), "none", 0)
<1>1. n \in 1..Len(statement) /\ n \in Nat /\ InText(n, out) /\ out \in Seq(SqlChars)
  BY PlaceTypes
<1>2. SyntaxFrom[n] = <<" ">> \o SyntaxFrom[LineEnd(n) + 1] /\ LineEnd(n) \in n..Len(statement)
  BY <1>1, FromLine
<1>3. LineEnd(n) + 1 \in 1..(Len(statement) + 1) /\ n \in 1..(Len(statement) + 1)
  <2>1. \A m \in n..Len(statement) : m + 1 \in 1..(Len(statement) + 1)
    BY <1>1
  <2>2. PICK m \in n..Len(statement) : m = LineEnd(n)
    BY <1>2
  <2>3. LineEnd(n) + 1 \in 1..(Len(statement) + 1)
    BY <2>1, <2>2
  <2> QED BY <1>1, <2>3
<1>4. " " \in SqlChars
  BY CharsAre
<1>5. InText(LineEnd(n) + 1, Append(out, " ")) /\ Append(out, " ") \in Seq(SqlChars)
  BY <1>1, <1>2, <1>3, <1>4, KeepOne
<1> QED BY <1>3, <1>5 DEF Place

LEMMA PlaceOfComment ==
  ASSUME statement \in Seq(SqlChars), NEW n, NEW out, Place(n, out, "none", 0), Opens(n)
  PROVE  Place(n + 2, out, "none", 1)
<1>1. n \in Nat /\ InText(n, out) /\ out \in Seq(SqlChars)
  BY PlaceTypes
<1>2. n \in 1..(Len(statement) - 1)
  BY <1>1, PairInside DEF Pair
<1>3. n \in 1..Len(statement) /\ n + 2 \in 1..(Len(statement) + 1)
  BY <1>2
<1>4. InPairs(n, n + 2, n + 2, 1)
  BY <1>3, CommentBegins
<1>5. InComment(n + 2, out, 1)
  BY <1>1, <1>4 DEF InComment
<1> QED BY <1>1, <1>3, <1>5 DEF Place

LEMMA PlaceInComment ==
  ASSUME statement \in Seq(SqlChars), NEW n, NEW out, NEW q, NEW d, Place(n, out, q, d),
         d > 0, n <= Len(statement)
  PROVE  /\ Opens(n) => Place(n + 2, out, "none", d + 1)
         /\ Closes(n) /\ d # 1 => Place(n + 2, out, "none", d - 1)
         /\ Closes(n) /\ d = 1 => Place(n + 2, Append(out, " "), "none", 0)
         /\ ~ Pair(n) => Place(n + 1, out, "none", d)
<1>1. /\ n \in 1..Len(statement) /\ n \in Nat /\ InComment(n, out, d) /\ d \in Nat
      /\ out \in Seq(SqlChars)
  BY PlaceTypes
<1>2. PICK i, a : InPairs(i, a, n, d) /\ Opens(i) /\ InText(i, out)
  BY <1>1 DEF InComment
<1>3. i \in 1..Len(statement)
  BY <1>2 DEF InPairs
<1>4. ASSUME Pair(n) PROVE n + 2 \in 1..(Len(statement) + 1)
  <2>1. n \in 1..(Len(statement) - 1)
    BY <1>1, <1>4, PairInside
  <2> QED BY <2>1
<1>5. ASSUME Pair(n), NEW e \in Nat \ {0}, Opens(n) => e = d + 1, Closes(n) => e = d - 1
      PROVE  Place(n + 2, out, "none", e)
  <2>1. e > 0
    BY <1>5
  <2>2. InPairs(i, IF Pair(n + 1) THEN a ELSE n + 2, n + 2, e)
    BY <1>2, <1>5, <2>1, CommentGoesOn
  <2>3. InComment(n + 2, out, e)
    BY <1>2, <2>2 DEF InComment
  <2> QED BY <1>1, <1>4, <1>5, <2>3 DEF Place
<1>6. Pair(n) => ~ (Opens(n) /\ Closes(n))
  BY DEF Opens, Closes
<1>7. Opens(n) => Place(n + 2, out, "none", d + 1)
  <2>1. d + 1 \in Nat \ {0}
    BY <1>1
  <2> QED BY <1>5, <1>6, <2>1 DEF Pair
<1>8. Closes(n) /\ d # 1 => Place(n + 2, out, "none", d - 1)
  <2>1. d # 1 => d - 1 \in Nat \ {0}
    BY <1>1
  <2> QED BY <1>5, <1>6, <2>1 DEF Pair
<1>9. ASSUME Closes(n), d = 1 PROVE Place(n + 2, Append(out, " "), "none", 0)
  <2>1. CommentEnd(i) = n + 1
    BY <1>2, <1>9, CommentCloses
  <2>2. SyntaxFrom[i] = <<" ">> \o SyntaxFrom[n + 2]
    <3>1. n + 1 # 0 /\ n + 1 + 1 = n + 2
      BY <1>1
    <3>2. SyntaxFrom[i] = After(SyntaxFrom, n + 1)
      BY <1>2, <1>3, <2>1, FromComment
    <3>3. SyntaxFrom[i] = <<" ">> \o SyntaxFrom[n + 1 + 1]
      BY <3>1, <3>2, Zenon DEF After
    <3> QED BY <3>1, <3>3
  <2>3. n + 2 \in 1..(Len(statement) + 1)
    BY <1>4, <1>9 DEF Pair
  <2>5. i \in 1..(Len(statement) + 1)
    BY <1>1, <1>3
  <2>6. " " \in SqlChars
    BY CharsAre
  <2>4. InText(n + 2, Append(out, " ")) /\ Append(out, " ") \in Seq(SqlChars)
    BY <1>1, <1>2, <2>2, <2>3, <2>5, <2>6, KeepOne
  <2> QED BY <2>3, <2>4 DEF Place
<1>10. ASSUME ~ Pair(n) PROVE Place(n + 1, out, "none", d)
  <2>1. InPairs(i, n + 1, n + 1, d)
    BY <1>2, <1>10, CommentText
  <2>2. InComment(n + 1, out, d)
    BY <1>2, <2>1 DEF InComment
  <2>3. n + 1 \in 1..(Len(statement) + 1) /\ d \in Nat \ {0}
    BY <1>1
  <2> QED BY <1>1, <2>2, <2>3 DEF Place
<1> QED BY <1>7, <1>8, <1>9, <1>10

LEMMA PlaceOfText ==
  ASSUME statement \in Seq(SqlChars), NEW n, NEW out, Place(n, out, "none", 0),
         n <= Len(statement), CharAt(n) \notin Quotes,
         ~ (CharAt(n) = "-" /\ CharAt(n + 1) = "-"), ~ Opens(n)
  PROVE  Place(n + 1, Append(out, CharAt(n)), "none", 0)
<1>1. n \in 1..Len(statement) /\ n \in Nat /\ InText(n, out) /\ out \in Seq(SqlChars)
  BY PlaceTypes
<1>2. SyntaxFrom[n] = <<statement[n]>> \o SyntaxFrom[n + 1]
  BY <1>1, FromText
<1>3. CharAt(n) = statement[n] /\ statement[n] \in SqlChars
  BY <1>1, CharAtIs
<1>4. n + 1 \in 1..(Len(statement) + 1) /\ n \in 1..(Len(statement) + 1)
  BY <1>1
<1>5. InText(n + 1, Append(out, statement[n])) /\ Append(out, statement[n]) \in Seq(SqlChars)
  BY <1>1, <1>2, <1>3, <1>4, KeepOne
<1> QED BY <1>3, <1>4, <1>5 DEF Place

\* At the end everything is kept, or a literal or a comment is open.
LEMMA PlaceAtEnd ==
  ASSUME statement \in Seq(SqlChars), NEW n, NEW out, NEW q, NEW d, Place(n, out, q, d),
         n > Len(statement)
  PROVE  /\ q = "none" /\ d = 0 => out = Syntax /\ ~ Unterminated
         /\ q # "none" \/ d > 0 => Unterminated
<1>1. n = Len(statement) + 1 /\ out \in Seq(SqlChars) /\ n \in 1..(Len(statement) + 1)
  BY PlaceTypes
<1>2. ASSUME q = "none", d = 0 PROVE out = Syntax /\ ~ Unterminated
  <2>1. InText(n, out) /\ SyntaxFrom[n] = LeftFrom(SyntaxFrom, n)
    BY <1>1, <1>2, PlaceTypes, SyntaxIs
  <2>2. LeftFrom(SyntaxFrom, n) = <<>>
    BY DEF LeftFrom
  <2>3. out = Syntax
    BY <1>1, <2>1, <2>2, ConcatEmptySeq DEF InText
  <2>4. \A k \in DOMAIN out : out[k] # "open"
    <3>1. \A k \in DOMAIN out : out[k] \in SqlChars
      BY <1>1
    <3> QED BY <3>1, CharsAre
  <2> QED BY <2>3, <2>4 DEF Unterminated
<1>3. ASSUME NEW i \in 1..Len(statement), SyntaxFrom[i] = After(SyntaxFrom, 0), InText(i, out)
      PROVE  Unterminated
  <2>1. Syntax = out \o <<"open">>
    BY <1>3 DEF After, InText
  <2>2. DOMAIN Syntax = 1..(Len(out) + 1) /\ Syntax[Len(out) + 1] = "open" /\ Len(out) \in Nat
    BY <1>1, <2>1
  <2>3. Len(out) + 1 \in DOMAIN Syntax
    BY <2>2
  <2> QED BY <2>2, <2>3 DEF Unterminated
<1>4. ASSUME q # "none" PROVE Unterminated
  <2>1. PICK i, a : InRow(i, a, n) /\ q = statement[i] /\ InText(i, out)
    BY <1>4, PlaceTypes DEF InLiteral
  <2>2. i \in 1..Len(statement) /\ statement[i] \in Quotes
    BY <2>1 DEF InRow
  <2>3. LiteralEnd(i) = 0
    BY <1>1, <2>1, RowStaysOpen
  <2> QED BY <1>3, <2>1, <2>2, <2>3, FromLiteral
<1>5. ASSUME d > 0 PROVE Unterminated
  <2>1. PICK i, a : InPairs(i, a, n, d) /\ Opens(i) /\ InText(i, out)
    BY <1>5, PlaceTypes DEF InComment
  <2>2. i \in 1..Len(statement)
    BY <2>1 DEF InPairs
  <2>3. CommentEnd(i) = 0
    BY <1>1, <2>1, CommentStaysOpen
  <2> QED BY <1>3, <2>1, <2>2, <2>3, FromComment
<1> QED BY <1>2, <1>4, <1>5

\* Nothing that is said of the statement changes while the statement does not.
LEMMA Stay ==
  ASSUME statement' = statement
  PROVE  SyntaxFrom' = SyntaxFrom /\ Syntax' = Syntax /\ Unterminated' = Unterminated
<1>1. SyntaxFrom' = SyntaxFrom
  BY DEF SyntaxFrom, LiteralEnd, LineEnd, CommentEnd, Marks, LeastOr, CharAt
<1>2. Syntax' = Syntax
  BY <1>1 DEF Syntax
<1> QED BY <1>1, <1>2 DEF Unterminated

LEMMA RowStays ==
  ASSUME statement' = statement, NEW CONSTANT i, NEW CONSTANT a, NEW CONSTANT n
  PROVE  InRow(i, a, n)' = InRow(i, a, n)
<1>1. LiteralEnds(i)' = LiteralEnds(i)
  BY DEF LiteralEnds
<1> QED BY <1>1 DEF InRow

LEMMA PairsStay ==
  ASSUME statement' = statement, NEW CONSTANT i, NEW CONSTANT a, NEW CONSTANT n, NEW CONSTANT d
  PROVE  InPairs(i, a, n, d)' = InPairs(i, a, n, d) /\ Opens(i)' = Opens(i)
<1>1. ASSUME NEW CONSTANT k PROVE CharAt(k)' = CharAt(k)
  BY DEF CharAt
<1>2. ASSUME NEW CONSTANT k PROVE Opens(k)' = Opens(k) /\ Closes(k)' = Closes(k)
  BY <1>1 DEF Opens, Closes
<1>3. ASSUME NEW CONSTANT k PROVE Pair(k)' = Pair(k)
  BY <1>2 DEF Pair
<1>4. Marks(i)' = Marks(i)
  BY <1>1 DEF Marks
<1>5. ASSUME NEW CONSTANT m, NEW CONSTANT x PROVE MarksTo(i, m, x)' = MarksTo(i, m, x)
  BY <1>4 DEF MarksTo
<1>6. Closing(i)' = Closing(i)
  BY <1>4, <1>5 DEF Closing
<1> QED BY <1>2, <1>3, <1>5, <1>6 DEF InPairs

LEMMA PlaceStays ==
  ASSUME statement' = statement, NEW CONSTANT n, NEW CONSTANT out, NEW CONSTANT q, NEW CONSTANT d,
         Place(n, out, q, d)
  PROVE  Place(n, out, q, d)'
<1>1. InText(n, out)' = InText(n, out)
  BY Stay DEF InText
<1>2. InLiteral(n, out, q) => InLiteral(n, out, q)'
  BY Stay, RowStays DEF InText, InLiteral
<1>3. InComment(n, out, d) => InComment(n, out, d)'
  BY Stay, PairsStay DEF InText, InComment
<1> QED BY <1>1, <1>2, <1>3 DEF Place

Verdicts == {"scanning", "unterminated", "scrubbed", "empty", "several", "run", "read", "refused"}
InPlace(n, out, q, d) == n = index /\ out = output /\ q = quote /\ d = depth /\ Place(n, out, q, d)
SqlInv ==
  /\ statement \in Seq(SqlChars) /\ verdict \in Verdicts
  /\ verdict = "scanning" => \E n, out, q, d : InPlace(n, out, q, d)
  /\ verdict = "unterminated" => Unterminated
  /\ verdict \notin {"scanning", "unterminated"} => output = Syntax /\ ~ Unterminated
  /\ verdict \notin {"scanning", "unterminated", "scrubbed"} =>
       \E w \in BOOLEAN : verdict = Decision(Strip(output, Spaces), w)

SqlSpec == (\E s \in SqlTexts : SqlInit(s)) /\ [][SqlNext]_sql_vars

LEMMA SqlBegins ==
  ASSUME NEW s \in SqlTexts, SqlInit(s)
  PROVE  SqlInv
<1>1. statement \in Seq(SqlChars)
  BY SqlTextsAssumption DEF SqlInit
<1>2. InPlace(1, <<>>, "none", 0)
  BY <1>1, BeginScan DEF SqlInit, InPlace
<1> QED BY <1>1, <1>2 DEF SqlInit, SqlInv, Verdicts

\* A step of the scan leads to a place.
LEMMA ScanGoesOn ==
  ASSUME SqlInv, statement' = statement, verdict = "scanning", verdict' = verdict,
         Place(index', output', quote', depth')
  PROVE  SqlInv'
<1>1. PICK n, out, q, d : n = index' /\ out = output' /\ q = quote' /\ d = depth'
  OBVIOUS
<1>2. Place(n, out, q, d)
  BY <1>1
<1>3. Place(n, out, q, d)'
  BY <1>2, PlaceStays
<1>4. InPlace(n, out, q, d)'
  BY <1>1, <1>3 DEF InPlace
<1>5. \E n_1, out_1, q_1, d_1 : InPlace(n_1, out_1, q_1, d_1)'
  BY <1>4
<1>6. verdict' = "scanning"
  OBVIOUS
<1>7. statement' \in Seq(SqlChars)
  BY DEF SqlInv
<1> QED BY <1>5, <1>6, <1>7 DEF SqlInv, Verdicts

LEMMA SqlHere ==
  ASSUME SqlInv, verdict = "scanning"
  PROVE  statement \in Seq(SqlChars) /\ Place(index, output, quote, depth)
BY DEF SqlInv, InPlace

LEMMA QuoteStep ==
  ASSUME SqlInv, OpenQuote \/ Quoted
  PROVE  SqlInv'
<1>1. verdict = "scanning" /\ index <= Len(statement) /\ statement' = statement /\ verdict' = verdict
  BY DEF OpenQuote, Quoted, InSyntax, Scanning
<1>2. statement \in Seq(SqlChars) /\ Place(index, output, quote, depth)
  BY <1>1, SqlHere
<1>3. index \in 1..Len(statement) /\ index \in Nat /\ Len(statement) \in Nat
  BY <1>1, <1>2, PlaceTypes
<1>4. CharAt(index) = statement[index]
  BY <1>2, <1>3, CharAtIs
<1>5. CASE OpenQuote
  <2>1. quote = "none" /\ depth = 0 /\ statement[index] \in Quotes
    BY <1>4, <1>5 DEF OpenQuote, InSyntax
  <2>2. Place(index + 1, output, statement[index], 0)
    BY <1>1, <1>2, <2>1, PlaceOfQuote
  <2>3. index' = index + 1 /\ output' = output /\ quote' = statement[index] /\ depth' = 0
    BY <1>4, <1>5, <2>1 DEF OpenQuote, Advance
  <2> QED BY <1>1, <2>2, <2>3, ScanGoesOn
<1>6. CASE Quoted
  <2>1. quote # "none" /\ depth' = depth
    BY <1>6 DEF Quoted
  <2>2. depth = 0 /\ quote \in Quotes
    BY <1>2, <2>1, PlaceTypes
  <2>3. Doubled <=> statement[index] = quote /\ index < Len(statement) /\ statement[index + 1] = quote
    <3>1. ASSUME index < Len(statement) PROVE CharAt(index + 1) = statement[index + 1]
      <4>1. index + 1 \in 1..Len(statement)
        BY <1>3, <3>1
      <4> QED BY <1>2, <4>1, CharAtIs
    <3>2. ASSUME ~ (index < Len(statement)) PROVE CharAt(index + 1) # quote
      <4>1. index + 1 \notin DOMAIN statement
        BY <1>2, <1>3, <3>2
      <4> QED BY <2>2, <4>1 DEF CharAt, Quotes
    <3> QED BY <1>4, <3>1, <3>2 DEF Doubled, Found
  <2>4. CASE statement[index] # quote
    <3>1. index' = index + 1 /\ quote' = quote /\ output' = output
      BY <1>4, <1>6, <2>3, <2>4 DEF Quoted, Advance
    <3>2. Place(index + 1, output, quote, 0)
      BY <1>1, <1>2, <2>1, <2>4, PlaceInQuotes
    <3> QED BY <1>1, <2>1, <2>2, <3>1, <3>2, ScanGoesOn
  <2>5. CASE Doubled
    <3>1. index' = index + 2 /\ quote' = quote /\ output' = output
      BY <1>6, <2>5 DEF Quoted, Advance
    <3>2. Place(index + 2, output, quote, 0)
      BY <1>1, <1>2, <2>1, <2>3, <2>5, PlaceInQuotes
    <3> QED BY <1>1, <2>1, <2>2, <3>1, <3>2, ScanGoesOn
  <2>6. CASE statement[index] = quote /\ ~ Doubled
    <3>1. index' = index + 1 /\ quote' = "none" /\ output' = Append(output, " ")
      BY <1>4, <1>6, <2>6 DEF Quoted, Advance, Keep
    <3>2. Place(index + 1, Append(output, " "), "none", 0)
      BY <1>1, <1>2, <2>1, <2>3, <2>6, PlaceInQuotes
    <3> QED BY <1>1, <2>1, <2>2, <3>1, <3>2, ScanGoesOn
  <2> QED BY <2>4, <2>5, <2>6
<1> QED BY <1>5, <1>6

LEMMA LineStep ==
  ASSUME SqlInv, LineComment
  PROVE  SqlInv'
<1>0. verdict = "scanning" /\ index <= Len(statement)
  BY DEF LineComment, InSyntax, Scanning
<1>1. /\ statement' = statement /\ verdict' = verdict
      /\ quote = "none" /\ depth = 0 /\ quote' = "none" /\ depth' = 0
      /\ CharAt(index) = "-" /\ CharAt(index + 1) = "-" /\ output' = Append(output, " ")
  BY DEF LineComment, InSyntax, Scanning, Found, Keep
<1>2. statement \in Seq(SqlChars) /\ Place(index, output, quote, depth)
  BY <1>0, SqlHere
<1>3. index \in 1..Len(statement) /\ index \in Nat /\ Len(statement) \in Nat
  BY <1>0, <1>2, PlaceTypes
<1> DEFINE lines == {k \in index..Len(statement) : statement[k] = "nl"}
           ends == {i \in DOMAIN statement : i >= index /\ statement[i] = "nl"} \cup {Len(statement)}
           nearest == CHOOSE i \in ends : \A j \in ends : i <= j
<1>4. index' = nearest + 1
  BY DEF LineComment
<1>5. ends = lines \cup {Len(statement)}
  BY <1>2, <1>3
<1>6. LineEnd(index) = LeastOr(lines, Len(statement))
  BY DEF LineEnd
<1>7. LineEnd(index) = nearest
  <2>1. lines \subseteq Nat /\ \A k \in lines : k <= Len(statement)
    BY <1>3
  <2>2. \A i \in ends : i \in Nat
    BY <1>3, <2>1, <1>5
  <2>3. LineEnd(index) \in ends /\ \A j \in ends : LineEnd(index) <= j
    <3>1. CASE lines = {}
      BY <1>3, <1>5, <1>6, <3>1 DEF LeastOr
    <3>2. CASE lines # {}
      <4>1. LineEnd(index) \in lines /\ \A j \in lines : LineEnd(index) <= j
        <5> HIDE DEF lines
        <5>1. lines \in SUBSET Nat
          BY <2>1
        <5> QED BY <1>6, <5>1, <3>2, LeastOrIs
      <4> QED BY <1>5, <2>1, <4>1
    <3> QED BY <3>1, <3>2
  <2>4. nearest \in ends /\ \A j \in ends : nearest <= j
    BY <2>3
  <2> HIDE DEF nearest, ends
  <2> QED BY <2>2, <2>3, <2>4
<1>8. Place(LineEnd(index) + 1, Append(output, " "), "none", 0)
  BY <1>0, <1>1, <1>2, PlaceOfLine
<1> HIDE DEF nearest
<1>9. index' = LineEnd(index) + 1
  BY <1>4, <1>7
<1> QED BY <1>0, <1>1, <1>8, <1>9, ScanGoesOn

LEMMA OpenCommentStep ==
  ASSUME SqlInv, OpenComment
  PROVE  SqlInv'
<1>1. verdict = "scanning" /\ index <= Len(statement)
  BY DEF OpenComment, InSyntax, Scanning
<1>2. /\ statement' = statement /\ verdict' = verdict /\ quote = "none" /\ depth = 0
      /\ quote' = "none" /\ depth' = 1 /\ index' = index + 2 /\ output' = output /\ Opens(index)
  BY DEF OpenComment, InSyntax, Found, Opens, Advance
<1>3. statement \in Seq(SqlChars) /\ Place(index, output, quote, depth)
  BY <1>1, SqlHere
<1>4. Place(index + 2, output, "none", 1)
  BY <1>1, <1>2, <1>3, PlaceOfComment
<1> QED BY <1>1, <1>2, <1>4, ScanGoesOn

LEMMA CommentedStep ==
  ASSUME SqlInv, Commented
  PROVE  SqlInv'
<1>1. verdict = "scanning" /\ index <= Len(statement) /\ depth > 0
  BY DEF Commented, Scanning
<1>2. statement' = statement /\ verdict' = verdict /\ quote' = quote
  BY DEF Commented
<1>3. statement \in Seq(SqlChars) /\ Place(index, output, quote, depth)
  BY <1>1, SqlHere
<1>4. depth \in Nat /\ quote = "none"
  BY <1>1, <1>3, PlaceTypes
<1>5. /\ Found("/", "*") <=> Opens(index)
      /\ Found("*", "/") <=> Closes(index)
      /\ ~ (Opens(index) /\ Closes(index))
  BY DEF Found, Opens, Closes
<1>6. CASE Opens(index)
  <2>1. index' = index + 2 /\ depth' = depth + 1
    BY <1>5, <1>6, Zenon DEF Commented, Advance
  <2>2. depth' # 0
    BY <1>4, <2>1
  <2>3. output' = output
    BY <2>2, Zenon DEF Commented
  <2>4. Place(index + 2, output, "none", depth + 1)
    BY <1>1, <1>3, <1>6, PlaceInComment
  <2> QED BY <1>1, <1>2, <1>4, <2>1, <2>3, <2>4, ScanGoesOn
<1>7. CASE Closes(index)
  <2>1. index' = index + 2 /\ depth' = depth - 1
    BY <1>5, <1>7, Zenon DEF Commented, Advance
  <2>2. CASE depth = 1
    <3>1. depth' = 0
      BY <2>1, <2>2
    <3>2. output' = Append(output, " ")
      BY <3>1, Zenon DEF Commented, Keep
    <3>3. Place(index + 2, Append(output, " "), "none", 0)
      BY <1>1, <1>3, <1>7, <2>2, PlaceInComment
    <3> QED BY <1>1, <1>2, <1>4, <2>1, <3>1, <3>2, <3>3, ScanGoesOn
  <2>3. CASE depth # 1
    <3>1. depth' # 0
      BY <1>4, <2>1, <2>3
    <3>2. output' = output
      BY <3>1, Zenon DEF Commented
    <3>3. Place(index + 2, output, "none", depth - 1)
      BY <1>1, <1>3, <1>7, <2>3, PlaceInComment
    <3> QED BY <1>1, <1>2, <1>4, <2>1, <3>2, <3>3, ScanGoesOn
  <2> QED BY <2>2, <2>3
<1>8. CASE ~ Pair(index)
  <2>1. ~ Opens(index) /\ ~ Closes(index)
    BY <1>8 DEF Pair
  <2>2. index' = index + 1 /\ depth' = depth
    BY <1>5, <2>1, Zenon DEF Commented, Advance
  <2>3. depth' # 0
    BY <1>1, <1>4, <2>2
  <2>4. output' = output
    BY <2>3, Zenon DEF Commented
  <2>5. Place(index + 1, output, "none", depth)
    BY <1>1, <1>3, <1>8, PlaceInComment
  <2> QED BY <1>1, <1>2, <1>4, <2>2, <2>4, <2>5, ScanGoesOn
<1> QED BY <1>6, <1>7, <1>8 DEF Pair

LEMMA CopyStep ==
  ASSUME SqlInv, Copy
  PROVE  SqlInv'
<1>1. verdict = "scanning" /\ index <= Len(statement)
  BY DEF Copy, InSyntax, Scanning
<1>2. /\ statement' = statement /\ verdict' = verdict /\ quote = "none" /\ depth = 0
      /\ quote' = "none" /\ depth' = 0 /\ index' = index + 1 /\ output' = Append(output, CharAt(index))
  BY DEF Copy, InSyntax, Keep, Advance
<1>3. /\ CharAt(index) \notin Quotes /\ ~ (CharAt(index) = "-" /\ CharAt(index + 1) = "-")
      /\ ~ Opens(index)
  BY DEF Copy, Found, Opens
<1>4. statement \in Seq(SqlChars) /\ Place(index, output, quote, depth)
  BY <1>1, SqlHere
<1>5. Place(index + 1, Append(output, CharAt(index)), "none", 0)
  BY <1>1, <1>2, <1>3, <1>4, PlaceOfText
<1> QED BY <1>1, <1>2, <1>5, ScanGoesOn

LEMMA EndStep ==
  ASSUME SqlInv, EndScan
  PROVE  SqlInv'
<1>1. verdict = "scanning" /\ index > Len(statement)
  BY DEF EndScan
<1>2. statement' = statement /\ output' = output
  BY DEF EndScan
<1>3. statement \in Seq(SqlChars) /\ Place(index, output, quote, depth)
  BY <1>1, SqlHere
<1>4. depth \in Nat
  BY <1>3, PlaceTypes
<1>5. Syntax' = Syntax /\ Unterminated' = Unterminated
  BY <1>2, Stay
<1>6. CASE quote # "none" \/ depth > 0
  <2>1. verdict' = "unterminated"
    BY <1>6, Zenon DEF EndScan
  <2>2. Unterminated
    BY <1>1, <1>3, <1>6, PlaceAtEnd
  <2> QED BY <1>2, <1>3, <1>5, <2>1, <2>2 DEF SqlInv, Verdicts
<1>7. CASE ~ (quote # "none" \/ depth > 0)
  <2>1. verdict' = "scrubbed"
    BY <1>7, Zenon DEF EndScan
  <2>2. quote = "none" /\ depth = 0
    BY <1>4, <1>7
  <2>3. output = Syntax /\ ~ Unterminated
    BY <1>1, <1>3, <2>2, PlaceAtEnd
  <2> QED BY <1>2, <1>3, <1>5, <2>1, <2>3 DEF SqlInv, Verdicts
<1> QED BY <1>6, <1>7

LEMMA DecisionIs ==
  ASSUME NEW s, NEW w \in BOOLEAN
  PROVE  Decision(s, w) \in {"empty", "several", "run", "read", "refused"}
BY Zenon DEF Decision

LEMMA QueryStep ==
  ASSUME SqlInv, Query
  PROVE  SqlInv'
<1>1. verdict = "scrubbed" /\ statement' = statement /\ output' = output
  BY DEF Query
<1>2. statement \in Seq(SqlChars) /\ output = Syntax /\ ~ Unterminated
  BY <1>1 DEF SqlInv
<1>3. Syntax' = Syntax /\ Unterminated' = Unterminated
  BY <1>1, Stay
<1>4. PICK w \in BOOLEAN : verdict' = Decision(Strip(output, Spaces), w)
  BY DEF Query
<1>5. verdict' \in {"empty", "several", "run", "read", "refused"}
  BY <1>4, DecisionIs
<1>6. (\E v \in BOOLEAN : verdict = Decision(Strip(output, Spaces), v))'
  BY <1>1, <1>4
<1> QED BY <1>1, <1>2, <1>3, <1>5, <1>6 DEF SqlInv, Verdicts

LEMMA SqlStutters ==
  ASSUME SqlInv, UNCHANGED sql_vars
  PROVE  SqlInv'
<1>1. Syntax' = Syntax /\ Unterminated' = Unterminated
  BY Stay DEF sql_vars
<1>2. CASE verdict = "scanning"
  BY <1>2, SqlHere, ScanGoesOn DEF sql_vars
<1>3. CASE verdict # "scanning"
  BY <1>1, <1>3 DEF SqlInv, sql_vars
<1> QED BY <1>2, <1>3

LEMMA SqlStays ==
  SqlSpec => []SqlInv
<1>1. (\E s \in SqlTexts : SqlInit(s)) => SqlInv
  BY SqlBegins
<1>2. SqlInv /\ [SqlNext]_sql_vars => SqlInv'
  BY QuoteStep, LineStep, OpenCommentStep, CommentedStep, CopyStep, EndStep, QueryStep, SqlStutters
     DEF SqlNext
<1> QED BY <1>1, <1>2, PTL DEF SqlSpec

\* What the scan keeps is the syntax of the statement, and it fails exactly when a literal
\* or a comment does not end.
THEOREM Scrubbed == SqlSpec => []ScrubbedIsSyntax
<1>1. SqlInv => ScrubbedIsSyntax
  BY DEF SqlInv, ScrubbedIsSyntax
<1> QED BY <1>1, SqlStays, PTL

----------------------------------------------------------------------------
\* strip and rstrip: the first and the last character that is kept.
Kept(s, chars) == {i \in DOMAIN s : s[i] \notin chars}
FirstKept(s, chars) == CHOOSE i \in Kept(s, chars) : \A j \in Kept(s, chars) : i <= j
LastKept(s, chars) == CHOOSE i \in Kept(s, chars) : \A j \in Kept(s, chars) : j <= i

LEMMA FirstAndLast ==
  ASSUME NEW S, NEW s \in Seq(S), NEW chars, Kept(s, chars) # {}
  PROVE  /\ FirstKept(s, chars) \in Kept(s, chars) /\ LastKept(s, chars) \in Kept(s, chars)
         /\ \A k \in Kept(s, chars) : FirstKept(s, chars) <= k /\ k <= LastKept(s, chars)
<1> DEFINE K == Kept(s, chars)
           far == {Len(s) - k : k \in K}
<1>1. K \subseteq 1..Len(s) /\ K # {} /\ Len(s) \in Nat
  BY DEF Kept
<1>2. K \in SUBSET Nat
  BY <1>1
<1>3. far \in SUBSET Nat /\ far # {}
  BY <1>1
<1>4. \E m \in K : \A j \in K : m <= j
  <2> HIDE DEF K
  <2> QED BY <1>1, <1>2, LeastNatural
<1>5. \E m \in K : \A j \in K : j <= m
  <2>1. PICK e \in far : \A f \in far : e <= f
    <3> HIDE DEF far
    <3> QED BY <1>3, LeastNatural
  <2>2. PICK m \in K : e = Len(s) - m
    BY <2>1
  <2>3. ASSUME NEW j \in K PROVE j <= m
    <3>1. Len(s) - m <= Len(s) - j
      BY <2>1, <2>2
    <3> QED BY <1>1, <3>1
  <2> QED BY <2>3
<1>6. FirstKept(s, chars) = CHOOSE m \in K : \A j \in K : m <= j
  BY DEF FirstKept
<1>7. LastKept(s, chars) = CHOOSE m \in K : \A j \in K : j <= m
  BY DEF LastKept
<1> HIDE DEF K
<1>8. FirstKept(s, chars) \in K /\ \A k \in K : FirstKept(s, chars) <= k
  BY <1>4, <1>6
<1>9. LastKept(s, chars) \in K /\ \A k \in K : k <= LastKept(s, chars)
  BY <1>5, <1>7
<1> QED BY <1>8, <1>9 DEF K

\* A part of a sequence.
LEMMA PartIs ==
  ASSUME NEW S, NEW s \in Seq(S), NEW p \in 1..Len(s), NEW r \in 1..Len(s), p <= r
  PROVE  /\ SubSeq(s, p, r) \in Seq(S) /\ Len(SubSeq(s, p, r)) = r - p + 1
         /\ \A i \in 1..(r - p + 1) : SubSeq(s, p, r)[i] = s[p + i - 1]
<1>1. p \in Int /\ r \in Int /\ \A i \in p..r : s[i] \in S
  OBVIOUS
<1> QED BY <1>1, SubSeqProperties

LEMMA StripIs ==
  ASSUME NEW s, NEW chars
  PROVE  /\ Kept(s, chars) = {} => Strip(s, chars) = <<>> /\ RStrip(s, chars) = SubSeq(s, 1, 0)
         /\ Kept(s, chars) # {} =>
              /\ Strip(s, chars) = SubSeq(s, FirstKept(s, chars), LastKept(s, chars))
              /\ RStrip(s, chars) = SubSeq(s, 1, LastKept(s, chars))
<1>1. Strip(s, chars) = IF Kept(s, chars) = {} THEN <<>>
                        ELSE SubSeq(s, FirstKept(s, chars), LastKept(s, chars))
  BY DEF Strip, Kept, FirstKept, LastKept
<1>2. RStrip(s, chars) = SubSeq(s, 1, IF Kept(s, chars) = {} THEN 0 ELSE LastKept(s, chars))
  BY DEF RStrip, Kept, LastKept
<1> QED BY <1>1, <1>2

LEMMA NothingOfNothing ==
  ASSUME NEW chars
  PROVE  Strip(<<>>, chars) = <<>>
<1>1. Kept(<<>>, chars) = {}
  BY DEF Kept
<1> QED BY <1>1, StripIs

\* A character as a semicolon or white space.
Semicolon(char) == char = ";"
Blank(char) == char \in Spaces

LEMMA SeveralIs ==
  ASSUME NEW s
  PROVE  Several(s) <=> \E i, j \in DOMAIN s : i < j /\ Semicolon(s[i]) /\ ~ Blank(s[j])
BY DEF Several, Semicolon, Blank

LEMMA KeptIs ==
  ASSUME NEW S, NEW s \in Seq(S)
  PROVE  /\ Kept(s, {";"}) = {i \in 1..Len(s) : ~ Semicolon(s[i])}
         /\ Kept(s, Spaces) = {i \in 1..Len(s) : ~ Blank(s[i])}
<1>1. DOMAIN s = 1..Len(s)
  OBVIOUS
<1> QED BY <1>1 DEF Kept, Semicolon, Blank

\* A text with a character that is no white space from its first to its last character that
\* is no semicolon, and with nothing behind a semicolon before, begins with no semicolon.
LEMMA NothingBehind ==
  ASSUME NEW S, NEW t \in Seq(S), NEW p \in 1..Len(t), NEW r \in 1..Len(t), p <= r,
         ~ Semicolon(t[p]), \A k \in 1..Len(t) : ~ Semicolon(t[k]) => k <= r,
         NEW k \in 1..(r - p + 1), ~ Blank(SubSeq(t, p, r)[k]),
         ~ Several(SubSeq(t, 1, r))
  PROVE  /\ 1 \in 1..Len(t) /\ ~ Semicolon(t[1])
         /\ \A i, j \in 1..Len(t) : i < j /\ Semicolon(t[i]) /\ ~ Blank(t[j]) => Semicolon(t[j])
<1>1. p \in Nat /\ r \in Nat /\ Len(t) \in Nat /\ k \in Nat
  OBVIOUS
<1> DEFINE m == p + k - 1
<1>2. m \in 1..r /\ m >= p
  BY <1>1
<1>3. ~ Blank(t[m])
  BY PartIs
<1>4. 1 \in 1..Len(t) /\ 1 <= r /\ r - 1 + 1 = r
  BY <1>1
<1>5. \A i \in 1..r : 1 + i - 1 = i
  BY <1>1
<1> DEFINE v == SubSeq(t, 1, r)
<1>6. v \in Seq(S) /\ Len(v) = r /\ \A i \in 1..r : v[i] = t[i]
  BY <1>4, <1>5, PartIs
<1>7. ~ Several(v)
  OBVIOUS
<1> HIDE DEF v, m
<1>8. ASSUME NEW i \in 1..r, NEW j \in 1..r, i < j, Semicolon(t[i]), ~ Blank(t[j]) PROVE FALSE
  <2>1. i \in DOMAIN v /\ j \in DOMAIN v
    BY <1>6
  <2>2. Semicolon(v[i]) /\ ~ Blank(v[j])
    BY <1>6, <1>8
  <2> QED BY <1>7, <1>8, <2>1, <2>2, SeveralIs
<1>9. ~ Semicolon(t[1])
  <2>1. CASE p = 1
    BY <2>1
  <2>2. CASE p # 1
    <3>1. 1 \in 1..r /\ 1 < m
      BY <1>1, <1>2, <2>2
    <3> QED BY <1>2, <1>3, <1>8, <3>1
  <2> QED BY <2>1, <2>2
<1>10. ASSUME NEW i \in 1..Len(t), NEW j \in 1..Len(t), i < j, Semicolon(t[i]), ~ Blank(t[j]),
              ~ Semicolon(t[j])
       PROVE  FALSE
  <2>1. j <= r
    BY <1>10
  <2>2. i \in 1..r /\ j \in 1..r
    BY <1>1, <1>10, <2>1
  <2> QED BY <1>8, <1>10, <2>2
<1> QED BY <1>4, <1>9, <1>10

\* A text that is not empty without its semicolons, and has nothing behind one, begins with
\* its statement.
LEMMA StatementIsFirst ==
  ASSUME NEW S, NEW t \in Seq(S), Strip(Strip(t, {";"}), Spaces) # <<>>,
         ~ Several(RStrip(t, {";"}))
  PROVE  /\ 1 \in 1..Len(t) /\ ~ Semicolon(t[1])
         /\ \A i, j \in 1..Len(t) : i < j /\ Semicolon(t[i]) /\ ~ Blank(t[j]) => Semicolon(t[j])
<1>1. Kept(t, {";"}) # {}
  <2>1. Strip(t, {";"}) # <<>>
    BY NothingOfNothing
  <2> QED BY <2>1, StripIs
<1>2. PICK p, r : p = FirstKept(t, {";"}) /\ r = LastKept(t, {";"})
  OBVIOUS
<1>3. /\ p \in Kept(t, {";"}) /\ r \in Kept(t, {";"})
      /\ \A k \in Kept(t, {";"}) : p <= k /\ k <= r
  BY <1>1, <1>2, FirstAndLast
<1>4. p \in 1..Len(t) /\ r \in 1..Len(t) /\ p <= r
  BY <1>3, KeptIs
<1>5. ~ Semicolon(t[p]) /\ \A k \in 1..Len(t) : ~ Semicolon(t[k]) => k <= r
  BY <1>3, KeptIs
<1>6. Strip(t, {";"}) = SubSeq(t, p, r) /\ RStrip(t, {";"}) = SubSeq(t, 1, r)
  BY <1>1, <1>2, StripIs
<1> DEFINE u == SubSeq(t, p, r)
<1>7. Len(u) = r - p + 1 /\ u \in Seq(S)
  BY <1>4, PartIs
<1>8. Kept(u, Spaces) # {}
  BY <1>6, StripIs
<1> HIDE DEF u
<1>9. PICK k \in 1..(r - p + 1) : ~ Blank(u[k])
  BY <1>7, <1>8, KeptIs
<1>10. ~ Blank(SubSeq(t, p, r)[k])
  BY <1>9 DEF u
<1>11. ~ Several(SubSeq(t, 1, r))
  BY <1>6
<1> QED BY <1>4, <1>5, <1>9, <1>10, <1>11, NothingBehind, Zenon

LEMMA GreatestBelow ==
  ASSUME NEW n \in Nat, NEW K \in SUBSET (1..n), K # {}
  PROVE  \E m \in K : \A j \in K : j <= m
<1> DEFINE far == {n - k : k \in K}
<1>1. far \in SUBSET Nat /\ far # {}
  <2>1. \A k \in 1..n : n - k \in Nat
    OBVIOUS
  <2>2. \A k \in K : n - k \in Nat
    BY <2>1
  <2> QED BY <2>2
<1>2. PICK e \in far : \A f \in far : e <= f
  <2> HIDE DEF far
  <2> QED BY <1>1, LeastNatural
<1>3. PICK m \in K : e = n - m
  BY <1>2
<1>4. ASSUME NEW j \in K PROVE j <= m
  <2>1. n - m <= n - j
    BY <1>2, <1>3
  <2> QED BY <2>1
<1> QED BY <1>4

\* The characters that are no white space before a place, and the last of them.
TextBefore(s, i) == {j \in 1..(i - 1) : ~ Blank(s[j])}
LastBefore(s, i) == CHOOSE j \in TextBefore(s, i) : \A k \in TextBefore(s, i) : k <= j

LEMMA StartsAre ==
  ASSUME NEW s, s = Syntax, NEW i
  PROVE  i \in StatementStarts <=>
           /\ i \in DOMAIN s /\ ~ Blank(s[i]) /\ ~ Semicolon(s[i])
           /\ TextBefore(s, i) # {} => Semicolon(s[LastBefore(s, i)])
<1>1. ASSUME NEW x PROVE x \notin Spaces \cup {";"} <=> ~ Blank(x) /\ ~ Semicolon(x)
  BY DEF Blank, Semicolon
<1>2. TextBefore(s, i) = {j \in 1..(i - 1) : s[j] \notin Spaces}
  BY DEF TextBefore, Blank
<1> QED BY <1>1, <1>2 DEF StatementStarts, LastBefore, Semicolon

LEMMA BehindIs ==
  ASSUME NEW i \in Nat, NEW s, TextBefore(s, i) # {}
  PROVE  /\ LastBefore(s, i) \in 1..(i - 1) /\ ~ Blank(s[LastBefore(s, i)])
         /\ \A j \in 1..(i - 1) : ~ Blank(s[j]) => j <= LastBefore(s, i)
<1>1. TextBefore(s, i) \in SUBSET (1..i)
  BY DEF TextBefore
<1>2. \E j \in TextBefore(s, i) : \A k \in TextBefore(s, i) : k <= j
  BY <1>1, GreatestBelow
<1>3. LastBefore(s, i) \in TextBefore(s, i) /\ \A k \in TextBefore(s, i) : k <= LastBefore(s, i)
  BY <1>2 DEF LastBefore
<1> QED BY <1>3 DEF TextBefore

\* The text from p to r has everything that is no white space, t is this part of it, and t
\* begins with a statement and has nothing behind a semicolon.
Around(s, p, r) ==
  /\ p <= r /\ ~ Blank(s[p])
  /\ \A k \in 1..Len(s) : ~ Blank(s[k]) => p <= k /\ k <= r
PartOf(t, s, p, r) ==
  Len(t) = r - p + 1 /\ \A k \in 1..(r - p + 1) : t[k] = s[p + k - 1]
OneOnly(t) ==
  /\ ~ Semicolon(t[1])
  /\ \A i, j \in 1..Len(t) : i < j /\ Semicolon(t[i]) /\ ~ Blank(t[j]) => Semicolon(t[j])

\* A text in which the part without white space around it begins with a statement, and has
\* nothing behind a semicolon, has one statement.
LEMMA OneStart ==
  ASSUME NEW S, NEW s \in Seq(S), s = Syntax, NEW p \in 1..Len(s), NEW r \in 1..Len(s), Around(s, p, r),
         NEW t \in Seq(S), PartOf(t, s, p, r), OneOnly(t)
  PROVE  StatementStarts = {p}
<1>0. /\ p <= r /\ ~ Blank(s[p])
      /\ \A k \in 1..Len(s) : ~ Blank(s[k]) => p <= k /\ k <= r
      /\ Len(t) = r - p + 1 /\ \A k \in 1..(r - p + 1) : t[k] = s[p + k - 1]
      /\ ~ Semicolon(t[1])
      /\ \A i, j \in 1..Len(t) : i < j /\ Semicolon(t[i]) /\ ~ Blank(t[j]) => Semicolon(t[j])
  BY DEF Around, PartOf, OneOnly
<1>1. p \in Nat /\ r \in Nat /\ Len(s) \in Nat
  OBVIOUS
<1>2. ASSUME NEW k \in p..r
      PROVE  k - p + 1 \in 1..Len(t) /\ t[k - p + 1] = s[k] /\ k \in 1..Len(s)
  <2>1. k \in Nat /\ k - p + 1 \in 1..(r - p + 1) /\ p + (k - p + 1) - 1 = k /\ k \in 1..Len(s)
    BY <1>0, <1>1
  <2> QED BY <1>0, <2>1
<1>3. DOMAIN s = 1..Len(s)
  OBVIOUS
<1>4. p \in StatementStarts
  <2>1. TextBefore(s, p) = {}
    <3>1. \A k \in 1..(p - 1) : Blank(s[k])
      BY <1>0, <1>1
    <3> QED BY <3>1 DEF TextBefore
  <2>2. ~ Semicolon(s[p])
    <3>1. p \in p..r /\ p - p + 1 = 1
      BY <1>0, <1>1
    <3> QED BY <1>0, <1>2, <3>1
  <2> QED BY <1>0, <1>3, <2>1, <2>2, StartsAre
<1>5. ASSUME NEW i \in StatementStarts PROVE i = p
  <2>1. /\ i \in 1..Len(s) /\ ~ Blank(s[i]) /\ ~ Semicolon(s[i])
        /\ TextBefore(s, i) # {} => Semicolon(s[LastBefore(s, i)])
    BY <1>3, StartsAre
  <2>2. i \in p..r /\ i \in Nat
    BY <1>0, <1>1, <2>1
  <2>3. ASSUME i # p PROVE FALSE
    <3>1. p \in 1..(i - 1)
      BY <1>0, <1>1, <2>2, <2>3
    <3>2. TextBefore(s, i) # {}
      BY <1>0, <3>1 DEF TextBefore
    <3>3. PICK b : b = LastBefore(s, i)
      OBVIOUS
    <3>4. b \in 1..(i - 1) /\ p <= b /\ Semicolon(s[b])
      BY <1>0, <2>1, <2>2, <3>1, <3>2, <3>3, BehindIs
    <3>5. b \in p..r
      BY <1>1, <2>2, <3>4
    <3>6. b - p + 1 < i - p + 1
      BY <1>1, <2>2, <3>4
    <3>7. PICK x, y : x = b - p + 1 /\ y = i - p + 1
      OBVIOUS
    <3>8. x \in 1..Len(t) /\ t[x] = s[b] /\ y \in 1..Len(t) /\ t[y] = s[i]
      BY <1>2, <2>2, <3>5, <3>7
    <3>9. x < y /\ Semicolon(t[x]) /\ ~ Blank(t[y]) /\ ~ Semicolon(t[y])
      BY <2>1, <3>4, <3>6, <3>7, <3>8
    <3> QED BY <1>0, <3>8, <3>9
  <2> QED BY <2>3
<1> QED BY <1>4, <1>5

\* query finds a text without its semicolons, and nothing behind one.
OneText(t) == Strip(Strip(t, {";"}), Spaces) # <<>> /\ ~ Several(RStrip(t, {";"}))

LEMMA RunOrReadIs ==
  ASSUME NEW t, NEW w \in BOOLEAN, Decision(t, w) \in {"run", "read"}
  PROVE  /\ OneText(t)
         /\ Decision(t, w) = "read" => BeginsRead(t) /\ ~ Mutates(t)
BY Zenon DEF Decision, OneText

LEMMA OneTextIs ==
  ASSUME NEW S, NEW t \in Seq(S), OneText(t)
  PROVE  OneOnly(t)
BY StatementIsFirst DEF OneText, OneOnly

LEMMA OneTextIsText ==
  ~ OneText(<<>>)
BY NothingOfNothing DEF OneText

\* What is kept of the syntax without the white space around it.
LEMMA StrippedIs ==
  ASSUME NEW S, NEW s \in Seq(S), Strip(s, Spaces) # <<>>
  PROVE  \E p, r \in 1..Len(s) :
           p <= r /\ Strip(s, Spaces) = SubSeq(s, p, r) /\ Around(s, p, r)
<1>1. Kept(s, Spaces) # {}
  BY StripIs
<1>2. PICK p, r : p = FirstKept(s, Spaces) /\ r = LastKept(s, Spaces)
  OBVIOUS
<1>3. /\ p \in Kept(s, Spaces) /\ r \in Kept(s, Spaces)
      /\ \A k \in Kept(s, Spaces) : p <= k /\ k <= r
  BY <1>1, <1>2, FirstAndLast
<1>4. Strip(s, Spaces) = SubSeq(s, p, r)
  BY <1>1, <1>2, StripIs
<1>5. p \in 1..Len(s) /\ r \in 1..Len(s) /\ p <= r /\ ~ Blank(s[p])
  BY <1>3, KeptIs
<1>6. \A k \in 1..Len(s) : ~ Blank(s[k]) => p <= k /\ k <= r
  BY <1>3, KeptIs
<1>7. Around(s, p, r)
  BY <1>5, <1>6 DEF Around
<1> QED BY <1>4, <1>5, <1>7, Zenon

\* A character as a word that changes data, and as a part of a word.
Mutating(char) == char = "D"
InWord(char) == char \in WordChars

LEMMA MutatesIs ==
  ASSUME NEW s, NEW i \in DOMAIN s, Mutating(s[i]), ~ Mutates(s)
  PROVE  \/ i > 1 /\ InWord(s[i - 1])
         \/ i < Len(s) /\ InWord(s[i + 1])
BY DEF Mutates, Mutating, InWord

\* A word that changes data is a part of a longer one in the text as it is in its part
\* without white space around it.
LEMMA InLongerWord ==
  ASSUME NEW S, NEW s \in Seq(S), NEW p \in 1..Len(s), NEW r \in 1..Len(s), Around(s, p, r),
         NEW t \in Seq(S), PartOf(t, s, p, r),
         ~ Mutates(t), NEW i \in 1..Len(s), Mutating(s[i]), ~ Blank(s[i])
  PROVE  \/ i - 1 \in 1..Len(s) /\ InWord(s[i - 1])
         \/ i + 1 \in 1..Len(s) /\ InWord(s[i + 1])
<1>1. p \in Nat /\ r \in Nat /\ Len(s) \in Nat /\ i \in Nat /\ p <= i /\ i <= r
  BY DEF Around
<1>8. Len(t) = r - p + 1 /\ \A k \in 1..(r - p + 1) : t[k] = s[p + k - 1]
  BY DEF PartOf
<1>2. PICK k : k = i - p + 1
  OBVIOUS
<1>3. k \in 1..(r - p + 1) /\ p + k - 1 = i /\ k \in Nat
  BY <1>1, <1>2
<1>4. t[k] = s[i] /\ k \in DOMAIN t /\ Mutating(t[k])
  BY <1>3, <1>8
<1>5. \/ k > 1 /\ InWord(t[k - 1])
      \/ k < Len(t) /\ InWord(t[k + 1])
  BY <1>4, MutatesIs, Zenon
<1>6. ASSUME k > 1, InWord(t[k - 1]) PROVE i - 1 \in 1..Len(s) /\ InWord(s[i - 1])
  <2>1. k - 1 \in 1..(r - p + 1) /\ p + (k - 1) - 1 = i - 1 /\ i - 1 \in 1..Len(s)
    BY <1>1, <1>3, <1>6, <1>8
  <2>2. t[k - 1] = s[p + (k - 1) - 1]
    BY <1>8, <2>1
  <2> QED BY <1>6, <2>1, <2>2
<1>7. ASSUME k < Len(t), InWord(t[k + 1]) PROVE i + 1 \in 1..Len(s) /\ InWord(s[i + 1])
  <2>1. k + 1 \in 1..(r - p + 1) /\ p + (k + 1) - 1 = i + 1 /\ i + 1 \in 1..Len(s)
    BY <1>1, <1>3, <1>7, <1>8
  <2>2. t[k + 1] = s[p + (k + 1) - 1]
    BY <1>8, <2>1
  <2> QED BY <1>7, <2>1, <2>2
<1> QED BY <1>5, <1>6, <1>7

LEMMA LettersAre ==
  ASSUME NEW char
  PROVE  Mutating(char) => ~ Blank(char)
BY DEF Mutating, Blank, Spaces

LEMMA OneStartIn ==
  ASSUME NEW S, NEW s \in Seq(S), s = Syntax, NEW t, t = Strip(s, Spaces), OneText(t)
  PROVE  \E p, r \in 1..Len(s) :
           Around(s, p, r) /\ t \in Seq(S) /\ PartOf(t, s, p, r) /\ StatementStarts = {p}
<1>1. t # <<>>
  BY OneTextIsText
<1>2. PICK p \in 1..Len(s), r \in 1..Len(s) :
        p <= r /\ t = SubSeq(s, p, r) /\ Around(s, p, r)
  BY <1>1, StrippedIs
<1>3. t \in Seq(S) /\ PartOf(t, s, p, r)
  BY <1>2, PartIs DEF PartOf
<1>4. OneOnly(t)
  BY <1>3, OneTextIs
<1>5. StatementStarts = {p}
  BY <1>2, <1>3, <1>4, OneStart
<1> QED BY <1>2, <1>3, <1>5

LEMMA OneIsRun ==
  ASSUME SqlInv, verdict \in {"run", "read"}
  PROVE  OneStatementIsRun
<1>1. PICK s : s = Syntax
  OBVIOUS
<1>2. s \in Seq(SyntaxChars)
  BY <1>1, SyntaxIs DEF SqlInv, Syntax
<1>3. PICK w \in BOOLEAN : verdict = Decision(Strip(s, Spaces), w)
  BY <1>1 DEF SqlInv
<1>4. PICK t : t = Strip(s, Spaces)
  OBVIOUS
<1>5. /\ OneText(t)
      /\ verdict = "read" => BeginsRead(t) /\ ~ Mutates(t)
  BY <1>3, <1>4, RunOrReadIs
<1>6. PICK p \in 1..Len(s), r \in 1..Len(s) :
        /\ Around(s, p, r) /\ t \in Seq(SyntaxChars) /\ PartOf(t, s, p, r)
        /\ StatementStarts = {p}
  BY <1>1, <1>2, <1>4, <1>5, OneStartIn
<1>11. Cardinality(StatementStarts) = 1
  BY <1>6, FS_Singleton
<1>12. t[1] = s[p]
  <2>1. 1 \in 1..(r - p + 1) /\ p + 1 - 1 = p
    BY <1>2, <1>6 DEF Around
  <2> QED BY <1>6, <2>1 DEF PartOf
<1>13. ASSUME verdict = "read", NEW i \in StatementStarts PROVE Syntax[i] = "S"
  BY <1>1, <1>5, <1>6, <1>12, <1>13 DEF BeginsRead
<1>14. ASSUME verdict = "read", NEW i \in DOMAIN Syntax, Syntax[i] = "D"
       PROVE  \E j \in {i - 1, i + 1} \cap DOMAIN Syntax : Syntax[j] \in WordChars
  <2>1. DOMAIN s = 1..Len(s)
    BY <1>2
  <2>2. i \in 1..Len(s) /\ Mutating(s[i])
    BY <1>1, <1>14, <2>1 DEF Mutating
  <2>3. ~ Blank(s[i]) /\ ~ Mutates(t)
    BY <1>5, <1>14, <2>2, LettersAre
  <2>4. \/ i - 1 \in 1..Len(s) /\ InWord(s[i - 1])
        \/ i + 1 \in 1..Len(s) /\ InWord(s[i + 1])
    BY <1>2, <1>6, <2>2, <2>3, InLongerWord
  <2> QED BY <1>1, <2>1, <2>4, Zenon DEF InWord
<1> QED BY <1>11, <1>13, <1>14 DEF OneStatementIsRun

\* What is run has one statement, between semicolons outside of quotes and comments, that
\* is not empty; without the permission to write it begins a read and no word of it
\* changes data.
THEOREM OneStatement == SqlSpec => []OneStatementIsRun
<1>1. SqlInv => OneStatementIsRun
  <2>1. SqlInv /\ verdict \notin {"run", "read"} => OneStatementIsRun
    BY DEF OneStatementIsRun
  <2> QED BY <2>1, OneIsRun
<1> QED BY <1>1, SqlStays, PTL
=============================================================================
