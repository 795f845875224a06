---------------------------- MODULE AuthRulesProofs ----------------------------
(***************************************************************************)
(* Proofs that the loop of evaluate finds what the rules say, and that its *)
(* evidence supports it, for any logons, settings and ranges.              *)
(*                                                                         *)
(* The argument: behind the loop, each queue is sorted, holds failures of  *)
(* its subject only, and all of them that any logon still to come has in   *)
(* its window; each counter counts its queue.  After the purge for a logon *)
(* the queue is its window, so the length is the count of the rule.        *)
(***************************************************************************)
EXTENDS AuthRules, FiniteSetTheorems, FunctionTheorems, SequenceTheorems, WellFoundedInduction, TLAPS

-------------------------------------------------------------------------------
(***************************************************************************)
(* Sorted sequences of logons.                                             *)
(***************************************************************************)

\* Logons that Before orders: times and ids are numbers, and ids are unique.
Comparable(S) ==
  /\ \A e \in S : e.time \in Int /\ e.id \in Int
  /\ \A e, f \in S : e.id = f.id => e = f

IsSorted(seq) == \A i, j \in DOMAIN seq : i < j => Before(seq[i], seq[j])
Elements(seq) == {seq[i] : i \in DOMAIN seq}

\* Before is a strict order, total on logons with numbers and ids of their own.
LEMMA BeforeIsStrict ==
  ASSUME NEW S, Comparable(S)
  PROVE  /\ \A e \in S : ~ Before(e, e)
         /\ \A e, f, g \in S : Before(e, f) /\ Before(f, g) => Before(e, g)
         /\ \A e, f \in S : e = f \/ Before(e, f) \/ Before(f, e)
BY DEF Comparable, Before

\* The rank of an element is the number of those below it: it counts them off from 0.
IsOrder(S, R) ==
  /\ \A x \in S : <<x, x>> \notin R
  /\ \A x, y, z \in S : <<x, y>> \in R /\ <<y, z>> \in R => <<x, z>> \in R
  /\ \A x, y \in S : x = y \/ <<x, y>> \in R \/ <<y, x>> \in R
Below(S, R, x) == {y \in S : <<y, x>> \in R}
Rank(S, R) == [x \in S |-> Cardinality(Below(S, R, x))]

\* In a finite set the ranks are 0 up to the number of elements, each once, in order.
LEMMA RanksCount ==
  ASSUME NEW S, IsFiniteSet(S), NEW R, IsOrder(S, R)
  PROVE  /\ Rank(S, R) \in Bijection(S, 0..(Cardinality(S) - 1))
         /\ \A x, y \in S : <<x, y>> \in R <=> Rank(S, R)[x] < Rank(S, R)[y]
<1> DEFINE rank == Rank(S, R)
           n == Cardinality(S)
<1>1. n \in Nat
  BY FS_CardinalityType
<1>2. ASSUME NEW x \in S
      PROVE  /\ IsFiniteSet(Below(S, R, x)) /\ rank[x] = Cardinality(Below(S, R, x))
             /\ rank[x] \in 0..(n - 1)
  <2>1. Below(S, R, x) \in SUBSET S /\ x \notin Below(S, R, x)
    BY DEF Below, IsOrder
  <2>2. IsFiniteSet(Below(S, R, x)) /\ Cardinality(Below(S, R, x)) \in Nat
    BY <2>1, FS_Subset, FS_CardinalityType
  <2>3. Cardinality(Below(S, R, x)) <= n /\ Cardinality(Below(S, R, x)) # n
    BY <2>1, FS_Subset
  <2>4. QED
    BY <1>1, <2>2, <2>3 DEF Rank
<1> HIDE DEF rank, n
<1>3. ASSUME NEW x \in S, NEW y \in S, <<x, y>> \in R
      PROVE  rank[x] < rank[y]
  <2>1. /\ Below(S, R, x) \in SUBSET Below(S, R, y)
        /\ x \in Below(S, R, y) /\ x \notin Below(S, R, x)
    BY <1>3 DEF Below, IsOrder
  <2>2. rank[x] <= rank[y] /\ rank[x] # rank[y]
    BY <1>2, <2>1, FS_Subset
  <2>3. QED
    BY <1>2, <2>2
<1>4. ASSUME NEW x \in S, NEW y \in S, rank[x] < rank[y]
      PROVE  <<x, y>> \in R
  <2>1. x # y /\ <<y, x>> \notin R
    BY <1>2, <1>3, <1>4
  <2>2. QED
    BY <2>1 DEF IsOrder
<1>5. rank \in Injection(S, 0..(n - 1))
  <2>1. rank \in [S -> 0..(n - 1)]
    BY <1>2 DEF rank, Rank
  <2>2. \A x, y \in S : rank[x] = rank[y] => x = y
    <3> SUFFICES ASSUME NEW x \in S, NEW y \in S, x # y PROVE rank[x] # rank[y]
      OBVIOUS
    <3>1. rank[x] \in Int /\ rank[y] \in Int
      BY <1>2
    <3>2. <<x, y>> \in R \/ <<y, x>> \in R
      BY DEF IsOrder
    <3>3. rank[x] < rank[y] \/ rank[y] < rank[x]
      BY <1>3, <3>2
    <3>4. QED
      BY <3>1, <3>3
  <2>3. QED
    BY <2>1, <2>2 DEF Injection, IsInjective
<1>6. IsFiniteSet(0..(n - 1)) /\ Cardinality(0..(n - 1)) = n
  BY <1>1, FS_Interval
<1>7. rank \in Surjection(S, 0..(n - 1))
  BY <1>5, <1>6, FS_Injection DEF n
<1>8. QED
  BY <1>3, <1>4, <1>5, <1>7 DEF Bijection, rank, n

\* A choice by rank lists each element once, in its order.
Listed(S, R) ==
  [i \in 1..Cardinality(S) |-> CHOOSE x \in S : Cardinality(Below(S, R, x)) = i - 1]

\* So the list has each element once, in order.
LEMMA ListedInOrder ==
  ASSUME NEW S, IsFiniteSet(S), NEW R, IsOrder(S, R)
  PROVE  /\ Listed(S, R) \in Seq(S) /\ Len(Listed(S, R)) = Cardinality(S)
         /\ \A i, j \in DOMAIN Listed(S, R) : i < j => <<Listed(S, R)[i], Listed(S, R)[j]>> \in R
         /\ Elements(Listed(S, R)) = S
<1> DEFINE list == Listed(S, R)
           rank == Rank(S, R)
           n == Cardinality(S)
           Ranked(x, i) == Cardinality(Below(S, R, x)) = i - 1
<1>1. n \in Nat
  BY FS_CardinalityType
<1>2. rank \in Bijection(S, 0..(n - 1)) /\ \A x, y \in S : <<x, y>> \in R <=> rank[x] < rank[y]
  BY RanksCount
<1>3. list = [i \in 1..n |-> CHOOSE x \in S : Ranked(x, i)]
  BY Zenon DEF Listed
<1>4. \A x \in S, i \in 1..n : Ranked(x, i) <=> rank[x] = i - 1
  BY DEF Rank
<1> HIDE DEF list, rank, n, Ranked
<1>5. \A x \in S : rank[x] \in 0..(n - 1)
  BY <1>2 DEF Bijection, Injection
<1>6. ASSUME NEW i \in 1..n
      PROVE  list[i] \in S /\ rank[list[i]] = i - 1
  <2>1. i - 1 \in 0..(n - 1)
    BY <1>1
  <2>2. \E x \in S : Ranked(x, i)
    BY <1>2, <1>4, <2>1 DEF Bijection, Surjection
  <2>3. list[i] \in S /\ Ranked(list[i], i)
    BY <1>3, <2>2
  <2>4. QED
    BY <1>4, <2>3
<1>7. ASSUME NEW x \in S
      PROVE  \E i \in 1..n : list[i] = x
  <2>1. rank[x] + 1 \in 1..n
    BY <1>1, <1>5
  <2>2. list[rank[x] + 1] \in S /\ rank[list[rank[x] + 1]] = rank[x]
    BY <1>5, <1>6, <2>1
  <2>3. list[rank[x] + 1] = x
    BY <1>2, <2>2 DEF Bijection, Injection, IsInjective
  <2>4. QED
    BY <2>1, <2>3
<1>8. DOMAIN list = 1..n /\ list \in Seq(S) /\ Len(list) = n
  <2>1. list \in [1..n -> S]
    BY <1>3, <1>6
  <2>2. list \in Seq(S) /\ DOMAIN list = 1..n
    BY <1>1, <2>1
  <2>3. QED
    BY <1>1, <2>2
<1>9. ASSUME NEW i \in DOMAIN list, NEW j \in DOMAIN list, i < j
      PROVE  <<list[i], list[j]>> \in R
  <2>1. i \in 1..n /\ j \in 1..n /\ i - 1 < j - 1
    BY <1>8, <1>9
  <2>2. list[i] \in S /\ list[j] \in S /\ rank[list[i]] < rank[list[j]]
    BY <1>6, <2>1
  <2>3. QED
    BY <1>2, <2>2
<1>10. Elements(list) = S
  BY <1>6, <1>7, <1>8 DEF Elements
<1>11. QED
  BY <1>8, <1>9, <1>10 DEF list, n

\* Sorted lists the logons, each once, in their order.
EarlierThan(S, e) == {f \in S : Before(f, e)}

\* Sorted lists each logon once, in the order of Before.
LEMMA SortedLists ==
  ASSUME NEW S, IsFiniteSet(S), Comparable(S)
  PROVE  /\ Sorted(S) \in Seq(S)
         /\ IsSorted(Sorted(S))
         /\ Elements(Sorted(S)) = S
<1> DEFINE R == {p \in S \X S : Before(p[1], p[2])}
<1>1. \A e, f \in S : <<e, f>> \in R <=> Before(e, f)
  OBVIOUS
<1> HIDE DEF R
<1>2. IsOrder(S, R)
  BY <1>1, BeforeIsStrict DEF IsOrder
<1>3. \A e \in S : EarlierThan(S, e) = Below(S, R, e)
  BY <1>1 DEF EarlierThan, Below
<1>4. Sorted(S) = [i \in 1..Cardinality(S) |->
                     CHOOSE e \in S : Cardinality(EarlierThan(S, e)) = i - 1]
  BY Zenon DEF Sorted, EarlierThan
<1>5. Sorted(S) = Listed(S, R)
  BY <1>3, <1>4 DEF Listed
<1>6. /\ Listed(S, R) \in Seq(S)
      /\ \A i, j \in DOMAIN Listed(S, R) : i < j => <<Listed(S, R)[i], Listed(S, R)[j]>> \in R
      /\ Elements(Listed(S, R)) = S
  BY <1>2, ListedInOrder
<1>7. IsSorted(Listed(S, R))
  <2> DEFINE list == Listed(S, R)
  <2> HIDE DEF list
  <2>1. \A i \in DOMAIN list : list[i] \in S
    BY <1>6 DEF list
  <2>2. \A i, j \in DOMAIN list : i < j => Before(list[i], list[j])
    BY <1>1, <1>6, <2>1 DEF list
  <2>3. QED
    BY <2>2 DEF IsSorted, list
<1>8. QED
  BY <1>5, <1>6, <1>7

\* A sorted sequence has each of its logons once.
LEMMA SortedCounts ==
  ASSUME NEW S, Comparable(S), NEW seq \in Seq(S), IsSorted(seq)
  PROVE  /\ Elements(seq) \subseteq S
         /\ IsFiniteSet(Elements(seq))
         /\ Cardinality(Elements(seq)) = Len(seq)
<1>1. Len(seq) \in Nat /\ DOMAIN seq = 1..Len(seq) /\ \A i \in 1..Len(seq) : seq[i] \in S
  OBVIOUS
<1>2. \A i, j \in 1..Len(seq) : seq[i] = seq[j] => i = j
  BY <1>1, BeforeIsStrict DEF IsSorted
<1>3. seq \in Bijection(1..Len(seq), Elements(seq))
  <2>1. seq \in [1..Len(seq) -> Elements(seq)]
    BY <1>1 DEF Elements
  <2>2. QED
    BY <1>1, <1>2, <2>1 DEF Bijection, Injection, IsInjective, Surjection, Elements
<1>4. IsFiniteSet(1..Len(seq)) /\ Cardinality(1..Len(seq)) = Len(seq)
  <2> DEFINE n == Len(seq)
  <2>1. n \in Nat
    OBVIOUS
  <2> HIDE DEF n
  <2>2. IsFiniteSet(1..n) /\ Cardinality(1..n) = n
    BY <2>1, FS_Interval
  <2>3. QED
    BY <2>2 DEF n
<1>5. QED
  <2>1. ExistsBijection(1..Len(seq), Elements(seq))
    BY <1>3 DEF ExistsBijection
  <2>2. IsFiniteSet(Elements(seq)) /\ Cardinality(Elements(seq)) = Len(seq)
    BY <1>4, <2>1, FS_Bijection
  <2>3. QED
    BY <1>1, <2>2 DEF Elements

\* The logons from one place of the sequence to another.
LEMMA PartIsSorted ==
  ASSUME NEW S, Comparable(S), NEW seq \in Seq(S), IsSorted(seq),
         NEW m \in 1..(Len(seq) + 1), NEW n \in 0..Len(seq)
  PROVE  /\ SubSeq(seq, m, n) \in Seq(S)
         /\ Len(SubSeq(seq, m, n)) = (IF m <= n THEN n - m + 1 ELSE 0)
         /\ \A i \in 1..(n - m + 1) : SubSeq(seq, m, n)[i] = seq[m + i - 1]
         /\ IsSorted(SubSeq(seq, m, n))
         /\ Elements(SubSeq(seq, m, n)) = {seq[i] : i \in m..n}
<1> DEFINE part == SubSeq(seq, m, n)
<1>1. Len(seq) \in Nat /\ DOMAIN seq = 1..Len(seq) /\ \A i \in m..n : seq[i] \in S
  OBVIOUS
<1>2. /\ part \in Seq(S)
      /\ Len(part) = (IF m <= n THEN n - m + 1 ELSE 0)
      /\ \A i \in 1..(n - m + 1) : part[i] = seq[m + i - 1]
  BY <1>1, SubSeqProperties
<1> HIDE DEF part
<1>3. DOMAIN part = 1..(n - m + 1)
  BY <1>2
<1>4. IsSorted(part)
  <2> SUFFICES ASSUME NEW i \in 1..(n - m + 1), NEW j \in 1..(n - m + 1), i < j
               PROVE  Before(part[i], part[j])
    BY <1>3 DEF IsSorted
  <2>1. m + i - 1 \in DOMAIN seq /\ m + j - 1 \in DOMAIN seq /\ m + i - 1 < m + j - 1
    BY <1>1
  <2>2. QED
    BY <1>2, <2>1 DEF IsSorted
<1>5. Elements(part) = {seq[i] : i \in m..n}
  <2>1. ASSUME NEW i \in 1..(n - m + 1) PROVE part[i] \in {seq[k] : k \in m..n}
    BY <1>2
  <2>2. ASSUME NEW i \in m..n PROVE seq[i] \in Elements(part)
    <3>1. i - m + 1 \in 1..(n - m + 1) /\ m + (i - m + 1) - 1 = i
      OBVIOUS
    <3>2. QED
      BY <1>2, <1>3, <3>1 DEF Elements
  <2>3. QED
    BY <1>3, <2>1, <2>2 DEF Elements
<1>6. QED
  BY <1>2, <1>4, <1>5 DEF part

\* Every failure that is older than the cutoff, and no other, is at the head of the queue.
LEMMA ExpiredHead ==
  ASSUME NEW S, Comparable(S), NEW queue \in Seq(S), IsSorted(queue), NEW cutoff \in Int
  PROVE  /\ Expired(queue, cutoff) \in 0..Len(queue)
         /\ \A i \in DOMAIN queue : queue[i].time < cutoff <=> i <= Expired(queue, cutoff)
<1> DEFINE L == 0..Len(queue)
           IsHead(k) == \A i \in 1..k : queue[i].time < cutoff
           K == {k \in L : IsHead(k)}
           After(k) == {j \in L : j > k}
           Tails == {After(k) : k \in K}
           Ends(k) == /\ \A i \in 1..k : queue[i].time < cutoff
                      /\ k < Len(queue) => queue[k + 1].time >= cutoff
<1>1. /\ Len(queue) \in Nat /\ DOMAIN queue = 1..Len(queue)
      /\ \A i \in DOMAIN queue : queue[i] \in S /\ queue[i].time \in Int
  BY DEF Comparable
<1>2. IsFiniteSet(L)
  BY <1>1, FS_Interval
<1>3. \A k \in K : After(k) \subseteq L /\ IsFiniteSet(After(k))
  BY <1>2, FS_Subset
<1>4. 0 \in K
  BY <1>1
<1>5. Tails \subseteq FiniteSubsetsOf(L) /\ Tails # {}
  BY <1>3, <1>4 DEF FiniteSubsetsOf
<1>6. IsWellFoundedOn(StrictSubsetOrdering(L), FiniteSubsetsOf(L))
  BY FS_StrictSubsetOrderingWellFounded
<1>7. PICK X \in Tails : \A Y \in Tails : ~ (<<Y, X>> \in StrictSubsetOrdering(L))
  <2> HIDE DEF Tails, L
  <2>1. QED
    BY <1>5, <1>6, WFMin
<1>8. PICK k \in K : X = After(k)
  OBVIOUS
<1>9. ASSUME k + 1 \in K, k < Len(queue)
      PROVE  FALSE
  <2>1. After(k + 1) \subseteq After(k) /\ k + 1 \in After(k) /\ k + 1 \notin After(k + 1)
    BY <1>1, <1>9
  <2>2. <<After(k + 1), X>> \in StrictSubsetOrdering(L)
    BY <1>8, <2>1 DEF StrictSubsetOrdering
  <2>3. QED
    BY <1>7, <1>9, <2>2
<1>10. Ends(k)
  <2>1. SUFFICES ASSUME k < Len(queue), ~ (queue[k + 1].time >= cutoff) PROVE FALSE
    OBVIOUS
  <2>2. k + 1 \in L /\ queue[k + 1].time < cutoff
    BY <1>1, <2>1
  <2>3. \A i \in 1..(k + 1) : i \in 1..k \/ i = k + 1
    BY <1>1
  <2>4. k + 1 \in K
    BY <2>2, <2>3
  <2>5. QED
    BY <1>9, <2>1, <2>4
<1>11. Expired(queue, cutoff) = CHOOSE n \in 0..Len(queue) : Ends(n)
  BY Zenon DEF Expired
<1>12. Expired(queue, cutoff) \in 0..Len(queue) /\ Ends(Expired(queue, cutoff))
  <2> HIDE DEF Ends
  <2>1. QED
    BY <1>10, <1>11
<1>13. ASSUME NEW i \in DOMAIN queue, queue[i].time < cutoff
       PROVE  i <= Expired(queue, cutoff)
  <2> DEFINE n == Expired(queue, cutoff)
  <2>1. SUFFICES ASSUME n < i PROVE FALSE
    BY <1>1, <1>12
  <2>2. n < Len(queue) /\ n + 1 \in DOMAIN queue /\ queue[n + 1].time >= cutoff
    BY <1>1, <1>12, <2>1
  <2>3. n + 1 = i \/ Before(queue[n + 1], queue[i])
    BY <1>1, <1>12, <2>1, <2>2 DEF IsSorted
  <2>4. QED
    BY <1>1, <1>13, <2>2, <2>3 DEF Before
<1>14. QED
  BY <1>1, <1>12, <1>13

\* popleft leaves the failures of the window, in their order.
LEMMA PopKeepsWindow ==
  ASSUME NEW S, Comparable(S), NEW queue \in Seq(S), IsSorted(queue), NEW cutoff \in Int
  PROVE  /\ Pop(queue, cutoff) \in Seq(S)
         /\ IsSorted(Pop(queue, cutoff))
         /\ Elements(Pop(queue, cutoff)) = {f \in Elements(queue) : f.time >= cutoff}
         /\ Popped(queue, cutoff) = {f \in Elements(queue) : f.time < cutoff}
<1> DEFINE n == Expired(queue, cutoff)
<1>1. /\ Len(queue) \in Nat /\ DOMAIN queue = 1..Len(queue)
      /\ \A i \in DOMAIN queue : queue[i] \in S /\ queue[i].time \in Int
  BY DEF Comparable
<1>2. /\ n \in 0..Len(queue)
      /\ \A i \in DOMAIN queue : queue[i].time < cutoff <=> i <= n
  BY ExpiredHead
<1> HIDE DEF n
<1>3. n + 1 \in 1..(Len(queue) + 1) /\ Len(queue) \in 0..Len(queue)
  BY <1>1, <1>2
<1>4. /\ Pop(queue, cutoff) \in Seq(S)
      /\ IsSorted(Pop(queue, cutoff))
      /\ Elements(Pop(queue, cutoff)) = {queue[i] : i \in (n + 1)..Len(queue)}
  BY <1>3, PartIsSorted DEF Pop, n
<1>5. {queue[i] : i \in (n + 1)..Len(queue)} = {f \in Elements(queue) : f.time >= cutoff}
  BY <1>1, <1>2 DEF Elements
<1>6. Popped(queue, cutoff) = {f \in Elements(queue) : f.time < cutoff}
  BY <1>1, <1>2 DEF Popped, Elements, n
<1>7. QED
  BY <1>4, <1>5, <1>6

\* append, of a logon behind all those of the queue.
LEMMA AppendKeepsSorted ==
  ASSUME NEW S, Comparable(S), NEW queue \in Seq(S), IsSorted(queue), NEW e \in S,
         \A f \in Elements(queue) : Before(f, e)
  PROVE  /\ Append(queue, e) \in Seq(S)
         /\ IsSorted(Append(queue, e))
         /\ Elements(Append(queue, e)) = Elements(queue) \cup {e}
<1> DEFINE longer == Append(queue, e)
           n == Len(queue)
<1>1. /\ n \in Nat /\ DOMAIN queue = 1..n /\ DOMAIN longer = 1..(n + 1)
      /\ longer \in Seq(S) /\ longer[n + 1] = e /\ \A i \in 1..n : longer[i] = queue[i]
  OBVIOUS
<1>2. \A i \in 1..(n + 1) : i \in 1..n \/ i = n + 1
  BY <1>1
<1>3. Elements(longer) = Elements(queue) \cup {e}
  <2> HIDE DEF longer, n
  <2>1. QED
    BY <1>1, <1>2 DEF Elements
<1>4. IsSorted(longer)
  <2> SUFFICES ASSUME NEW i \in 1..(n + 1), NEW j \in 1..(n + 1), i < j
               PROVE  Before(longer[i], longer[j])
    BY <1>1 DEF IsSorted
  <2>1. i \in 1..n
    BY <1>1
  <2>2. CASE j \in 1..n
    BY <1>1, <2>1, <2>2 DEF IsSorted
  <2>3. CASE j = n + 1
    BY <1>1, <2>1, <2>3 DEF Elements
  <2>4. QED
    BY <1>2, <2>2, <2>3
<1>5. QED
  BY <1>1, <1>3, <1>4

-------------------------------------------------------------------------------
(***************************************************************************)
(* The inductive invariant.                                                *)
(***************************************************************************)

\* The logons that evaluate looks at, and those it has looked at.
Judged == {e \in input : Eligible(e)}
Behind == {ordered[i] : i \in 1..(next - 1)}

\* The failures behind the loop that are not skipped.
Failures == {f \in Behind : f.status = 2 /\ Start - Window <= f.time}
PairFailures(p) == {f \in Failures : Pair(f) = p}
ScopeFailures(s) == {f \in Failures : f.scope = s}

\* A queue of failures of F: sorted, and complete for every logon that is still to come.
Coming == Judged \ Behind
QueueOf(queue, F, coming) ==
  /\ IsSorted(queue)
  /\ Elements(queue) \subseteq F
  /\ \A e \in coming : e.time < End => {f \in F : f.time >= e.time - Window} \subseteq Elements(queue)

\* What the counters of a queue say.
CountTimes(queue) == [t \in Times |-> Cardinality({f \in Elements(queue) : f.time = t})]
CountUsers(queue) == [u \in Users |-> Cardinality({f \in Elements(queue) : f.user = u})]

ProgressInv ==
  /\ input \in Inputs
  /\ ordered = Sorted(Judged)
  /\ next \in 1..(Len(ordered) + 1)
  /\ ended = "returned" => next = Len(ordered) + 1

QueuesInv ==
  /\ previous \in [Pairs -> Seq(Judged)]
  /\ source \in [Scopes -> Seq(Judged)]
  /\ \A p \in Pairs : QueueOf(previous[p], PairFailures(p), Coming)
  /\ \A s \in Scopes : QueueOf(source[s], ScopeFailures(s), Coming)

CountersInv ==
  /\ times = [p \in Pairs |-> CountTimes(previous[p])]
  /\ distinct = [s \in Scopes |-> CountUsers(source[s])]

InRange(e) == Start <= e.time /\ e.time < End
Report(f) == [identity |-> f.identity, count |-> f.count, first |-> f.first, last |-> f.last]

\* What was found in S when the rules had judged the logons of D: every finding is that of a
\* first trigger, and every rule that fired has its finding.
Matches(found, S, D) ==
  /\ \A f \in found : \E d \in D :
       /\ InRange(d[2]) /\ FirstTrigger(d[1], S, d[2], Start)
       /\ Report(f) = Finding(d[1], S, d[2])
  /\ \A d \in D : InRange(d[2]) /\ Fires(d[1], S, d[2])
                    => \E f \in found : f.identity = Identity(d[1], d[2])

FindingsInv == Matches(findings, Judged, Rules \X Behind)

LoopInv == ProgressInv /\ QueuesInv /\ CountersInv /\ FindingsInv

-------------------------------------------------------------------------------
(***************************************************************************)
(* The pass in time order.                                                 *)
(***************************************************************************)

\* What the loop is given, in order.
LEMMA OrderedListsJudged ==
  ASSUME input \in Inputs
  PROVE  /\ IsFiniteSet(Judged) /\ Comparable(Judged)
         /\ \A e \in Judged : /\ e.time \in Times /\ e.time \in Int /\ e.status \in {1, 2}
                              /\ e.scope \in Scopes /\ e.user \in Users /\ Pair(e) \in Pairs
         /\ Sorted(Judged) \in Seq(Judged)
         /\ IsSorted(Sorted(Judged))
         /\ Elements(Sorted(Judged)) = Judged
<1>1. Judged \in SUBSET input /\ IsFiniteSet(input)
  BY LogonsAssumption DEF Judged
<1>2. IsFiniteSet(Judged)
  BY <1>1, FS_Subset
<1>3. Comparable(Judged)
  BY <1>1, LogonsAssumption DEF Comparable
<1>4. \A e \in Judged : /\ e.time \in Times /\ e.time \in Int /\ e.status \in {1, 2}
                        /\ e.scope \in Scopes /\ e.user \in Users /\ Pair(e) \in Pairs
  BY <1>1, LogonsAssumption DEF Judged, Eligible, Pair, Pairs
<1>5. QED
  BY <1>2, <1>3, <1>4, SortedLists

\* The logon the loop looks at is behind those it has looked at and before the others.
LEMMA LookingInOrder ==
  ASSUME ProgressInv, NEW e, Looking(e)
  PROVE  /\ e \in Coming
         /\ Behind = EarlierThan(Judged, e)
         /\ Behind' = Behind \cup {e}
         /\ Judged' = Judged
         /\ Coming' = Coming \ {e}
         /\ \A f \in Coming' : Before(e, f)
         /\ ProgressInv'
<1>1. /\ ordered \in Seq(Judged) /\ IsSorted(ordered) /\ Elements(ordered) = Judged
      /\ Comparable(Judged)
  BY OrderedListsJudged DEF ProgressInv
<1>2. /\ next \in Nat /\ Len(ordered) \in Nat /\ DOMAIN ordered = 1..Len(ordered)
      /\ next \in DOMAIN ordered /\ ordered[next] = e /\ next' = next + 1
      /\ ordered' = ordered /\ input' = input /\ ended' = ended /\ ended = "no"
  BY <1>1 DEF ProgressInv, Looking
<1>3. Judged' = Judged
  BY <1>2 DEF Judged, Eligible
<1>4. \A i \in DOMAIN ordered : ordered[i] \in Judged /\ (Before(ordered[i], e) <=> i < next)
  <2> SUFFICES ASSUME NEW i \in DOMAIN ordered
               PROVE  ordered[i] \in Judged /\ (Before(ordered[i], e) <=> i < next)
    OBVIOUS
  <2>1. ordered[i] \in Judged /\ e \in Judged
    BY <1>1, <1>2
  <2>2. i < next \/ i = next \/ next < i
    BY <1>2
  <2>3. QED
    BY <1>1, <1>2, <2>1, <2>2, BeforeIsStrict DEF IsSorted
<1>5. \A f \in Judged : \E i \in DOMAIN ordered : f = ordered[i]
  BY <1>1 DEF Elements
<1>6. Behind = EarlierThan(Judged, e)
  <2>1. \A i \in 1..(next - 1) : i \in DOMAIN ordered /\ i < next
    BY <1>2
  <2>2. \A i \in DOMAIN ordered : i < next => i \in 1..(next - 1)
    BY <1>2
  <2>3. QED
    BY <1>4, <1>5, <2>1, <2>2 DEF Behind, EarlierThan
<1>7. Behind' = Behind \cup {e}
  <2>1. Behind' = {ordered[i] : i \in 1..next}
    BY <1>2 DEF Behind
  <2>2. 1..next = (1..(next - 1)) \cup {next}
    BY <1>2
  <2>3. QED
    BY <1>2, <2>1, <2>2 DEF Behind
<1>8. e \in Coming
  BY <1>1, <1>2, <1>6, BeforeIsStrict DEF EarlierThan, Coming
<1>9. Coming' = Coming \ {e} /\ \A f \in Coming' : Before(e, f)
  BY <1>1, <1>3, <1>6, <1>7, <1>8, BeforeIsStrict DEF EarlierThan, Coming
<1>10. ProgressInv'
  BY <1>2, <1>3 DEF ProgressInv
<1>11. QED
  BY <1>3, <1>6, <1>7, <1>8, <1>9, <1>10

\* The failures of a subject, when the loop has looked at e.
LEMMA FailuresStep ==
  ASSUME ProgressInv, NEW e, Looking(e), Start - Window <= e.time
  PROVE  /\ Failures' = Failures \cup {f \in {e} : f.status = 2}
         /\ \A p \in Pairs : PairFailures(p)' =
              PairFailures(p) \cup {f \in {e} : f.status = 2 /\ Pair(f) = p}
         /\ \A s \in Scopes : ScopeFailures(s)' =
              ScopeFailures(s) \cup {f \in {e} : f.status = 2 /\ f.scope = s}
<1>1. Failures' = Failures \cup {f \in {e} : f.status = 2}
  BY LookingInOrder DEF Failures
<1>2. QED
  BY <1>1 DEF PairFailures, ScopeFailures, Pair

-------------------------------------------------------------------------------
(***************************************************************************)
(* Queues and counters.                                                    *)
(***************************************************************************)

\* After the purge for e the queue holds the window of e.
LEMMA PurgedIsWindow ==
  ASSUME NEW S, Comparable(S), NEW queue \in Seq(S), NEW F, NEW coming, QueueOf(queue, F, coming),
         NEW e \in coming, e \in S, e.time < End
  PROVE  LET rest == Pop(queue, e.time - Window)
         IN  /\ rest \in Seq(S) /\ IsSorted(rest)
             /\ Elements(rest) = {f \in F : f.time >= e.time - Window}
             /\ Elements(rest) \subseteq Elements(queue)
             /\ Popped(queue, e.time - Window) = Elements(queue) \ Elements(rest)
<1>1. e.time - Window \in Int /\ IsSorted(queue)
  BY SettingsAssumption DEF Comparable, QueueOf
<1>2. \A f \in Elements(queue) : f.time \in Int
  BY <1>1, SortedCounts DEF Comparable
<1>3. {f \in Elements(queue) : f.time >= e.time - Window} = {f \in F : f.time >= e.time - Window}
  BY DEF QueueOf
<1>4. {f \in Elements(queue) : f.time < e.time - Window}
        = Elements(queue) \ {f \in Elements(queue) : f.time >= e.time - Window}
  BY <1>1, <1>2
<1>5. LET rest == Pop(queue, e.time - Window)
      IN  /\ rest \in Seq(S) /\ IsSorted(rest)
          /\ Elements(rest) = {f \in Elements(queue) : f.time >= e.time - Window}
          /\ Popped(queue, e.time - Window) = {f \in Elements(queue) : f.time < e.time - Window}
  <2> DEFINE cutoff == e.time - Window
  <2>1. cutoff \in Int
    BY <1>1
  <2> HIDE DEF cutoff
  <2>2. /\ Pop(queue, cutoff) \in Seq(S) /\ IsSorted(Pop(queue, cutoff))
        /\ Elements(Pop(queue, cutoff)) = {f \in Elements(queue) : f.time >= cutoff}
        /\ Popped(queue, cutoff) = {f \in Elements(queue) : f.time < cutoff}
    <3>1. IsSorted(queue)
      BY <1>1
    <3>2. QED
      BY <2>1, <3>1, PopKeepsWindow
  <2>3. QED
    BY <2>2 DEF cutoff
<1>6. QED
  BY <1>3, <1>4, <1>5

\* A queue that holds the window of e holds what the logons behind e need.
LEMMA WindowIsQueue ==
  ASSUME NEW S, Comparable(S), NEW e \in S, NEW F \in SUBSET S, NEW later \in SUBSET S,
         \A g \in later : Before(e, g),
         NEW queue, IsSorted(queue), Elements(queue) = {f \in F : f.time >= e.time - Window}
  PROVE  QueueOf(queue, F, later)
<1>1. \A g \in later, f \in F : f.time >= g.time - Window => f.time >= e.time - Window
  BY SettingsAssumption DEF Comparable, Before
<1>2. QED
  BY <1>1 DEF QueueOf

\* What is left of a finite set when a part is taken off.
LEMMA Remainder ==
  ASSUME NEW A, IsFiniteSet(A), NEW B \in SUBSET A
  PROVE  Cardinality(B) = Cardinality(A) - Cardinality(A \ B)
<1>1. Cardinality(A \ B) = Cardinality(A) - Cardinality(A \cap B) /\ A \cap B = B
  BY FS_Difference
<1>2. Cardinality(A) \in Nat /\ Cardinality(B) \in Nat
  BY FS_Subset, FS_CardinalityType
<1>3. QED
  BY <1>1, <1>2

\* The counters of a queue less what left it,
LessTimes(queue, old) ==
  [t \in Times |-> CountTimes(queue)[t] - Cardinality({f \in old : f.time = t})]
LessUsers(queue, old) ==
  [u \in Users |-> CountUsers(queue)[u] - Cardinality({f \in old : f.user = u})]

\* are those of the rest.
LEMMA PurgeCounts ==
  ASSUME NEW S, Comparable(S), NEW queue \in Seq(S), IsSorted(queue),
         NEW rest, Elements(rest) \subseteq Elements(queue),
         NEW old, old = Elements(queue) \ Elements(rest)
  PROVE  /\ LessTimes(queue, old) = CountTimes(rest)
         /\ LessUsers(queue, old) = CountUsers(rest)
<1>1. IsFiniteSet(Elements(queue))
  BY SortedCounts
<1>2. ASSUME NEW t \in Times
      PROVE  Cardinality({f \in Elements(rest) : f.time = t})
               = Cardinality({f \in Elements(queue) : f.time = t}) - Cardinality({f \in old : f.time = t})
  <2> DEFINE A == {f \in Elements(queue) : f.time = t}
             B == {f \in Elements(rest) : f.time = t}
  <2>1. IsFiniteSet(A) /\ B \in SUBSET A /\ {f \in old : f.time = t} = A \ B
    BY <1>1, FS_Subset
  <2> HIDE DEF A, B
  <2>2. Cardinality(B) = Cardinality(A) - Cardinality(A \ B)
    BY <2>1, Remainder
  <2>3. QED
    BY <2>1, <2>2 DEF A, B
<1>3. ASSUME NEW u \in Users
      PROVE  Cardinality({f \in Elements(rest) : f.user = u})
               = Cardinality({f \in Elements(queue) : f.user = u}) - Cardinality({f \in old : f.user = u})
  <2> DEFINE A == {f \in Elements(queue) : f.user = u}
             B == {f \in Elements(rest) : f.user = u}
  <2>1. IsFiniteSet(A) /\ B \in SUBSET A /\ {f \in old : f.user = u} = A \ B
    BY <1>1, FS_Subset
  <2> HIDE DEF A, B
  <2>2. Cardinality(B) = Cardinality(A) - Cardinality(A \ B)
    BY <2>1, Remainder
  <2>3. QED
    BY <2>1, <2>2 DEF A, B
<1>4. QED
  BY <1>2, <1>3 DEF CountTimes, CountUsers, LessTimes, LessUsers

\* The counters of a queue to which e was appended: one more for its time, or its user.
LEMMA AppendCounts ==
  ASSUME NEW queue, IsFiniteSet(Elements(queue)), NEW e, e \notin Elements(queue),
         NEW longer, Elements(longer) = Elements(queue) \cup {e}
  PROVE  /\ e.time \in Times =>
              [CountTimes(queue) EXCEPT ![e.time] = @ + 1] = CountTimes(longer)
         /\ e.user \in Users =>
              [CountUsers(queue) EXCEPT ![e.user] = @ + 1] = CountUsers(longer)
<1>1. ASSUME NEW t \in Times
      PROVE  Cardinality({f \in Elements(longer) : f.time = t})
               = IF t = e.time THEN Cardinality({f \in Elements(queue) : f.time = t}) + 1
                 ELSE Cardinality({f \in Elements(queue) : f.time = t})
  <2> DEFINE A == {f \in Elements(queue) : f.time = t}
  <2>1. IsFiniteSet(A) /\ e \notin A
    BY FS_Subset
  <2>2. {f \in Elements(longer) : f.time = t} = (IF t = e.time THEN A \cup {e} ELSE A)
    OBVIOUS
  <2> HIDE DEF A
  <2>3. Cardinality(A \cup {e}) = Cardinality(A) + 1
    BY <2>1, FS_AddElement
  <2>4. QED
    BY <2>2, <2>3 DEF A
<1>2. ASSUME NEW u \in Users
      PROVE  Cardinality({f \in Elements(longer) : f.user = u})
               = IF u = e.user THEN Cardinality({f \in Elements(queue) : f.user = u}) + 1
                 ELSE Cardinality({f \in Elements(queue) : f.user = u})
  <2> DEFINE A == {f \in Elements(queue) : f.user = u}
  <2>1. IsFiniteSet(A) /\ e \notin A
    BY FS_Subset
  <2>2. {f \in Elements(longer) : f.user = u} = (IF u = e.user THEN A \cup {e} ELSE A)
    OBVIOUS
  <2> HIDE DEF A
  <2>3. Cardinality(A \cup {e}) = Cardinality(A) + 1
    BY <2>1, FS_AddElement
  <2>4. QED
    BY <2>2, <2>3 DEF A
<1>3. QED
  BY <1>1, <1>2 DEF CountTimes, CountUsers

\* The failures behind the loop that are in the window of e, of its pair and of its scope.
PairWindow(e) == {f \in PairFailures(Pair(e)) : f.time >= e.time - Window}
ScopeWindow(e) == {f \in ScopeFailures(e.scope) : f.time >= e.time - Window}

\* Queues that hold A and B in order, with their counters.
Holds(recent, A, B) ==
  /\ recent.queue \in Seq(Judged) /\ IsSorted(recent.queue) /\ Elements(recent.queue) = A
  /\ recent.all \in Seq(Judged) /\ IsSorted(recent.all) /\ Elements(recent.all) = B
  /\ recent.byTime = CountTimes(recent.queue)
  /\ recent.byUser = CountUsers(recent.all)

\* The purge leaves the window of e.
LEMMA PurgeStep ==
  ASSUME ProgressInv, QueuesInv, CountersInv, NEW e, Looking(e), e.time < End
  PROVE  Holds(Purge(e), PairWindow(e), ScopeWindow(e))
<1> DEFINE queue == previous[Pair(e)]
           all == source[e.scope]
           cutoff == e.time - Window
<1>1. /\ e \in Coming /\ e \in Judged /\ Comparable(Judged)
      /\ Pair(e) \in Pairs /\ e.scope \in Scopes
  BY LookingInOrder, OrderedListsJudged DEF ProgressInv, Coming
<1>2. /\ queue \in Seq(Judged) /\ QueueOf(queue, PairFailures(Pair(e)), Coming)
      /\ all \in Seq(Judged) /\ QueueOf(all, ScopeFailures(e.scope), Coming)
      /\ IsSorted(queue) /\ IsSorted(all)
  BY <1>1 DEF QueuesInv, QueueOf
<1>3. times[Pair(e)] = CountTimes(queue) /\ distinct[e.scope] = CountUsers(all)
  BY <1>1 DEF CountersInv
<1> HIDE DEF queue, all
<1>4. /\ Pop(queue, cutoff) \in Seq(Judged) /\ IsSorted(Pop(queue, cutoff))
      /\ Elements(Pop(queue, cutoff)) = PairWindow(e)
      /\ Elements(Pop(queue, cutoff)) \subseteq Elements(queue)
      /\ Popped(queue, cutoff) = Elements(queue) \ Elements(Pop(queue, cutoff))
  BY <1>1, <1>2, PurgedIsWindow DEF PairWindow
<1>5. /\ Pop(all, cutoff) \in Seq(Judged) /\ IsSorted(Pop(all, cutoff))
      /\ Elements(Pop(all, cutoff)) = ScopeWindow(e)
      /\ Elements(Pop(all, cutoff)) \subseteq Elements(all)
      /\ Popped(all, cutoff) = Elements(all) \ Elements(Pop(all, cutoff))
  BY <1>1, <1>2, PurgedIsWindow DEF ScopeWindow
<1>6. LessTimes(queue, Popped(queue, cutoff)) = CountTimes(Pop(queue, cutoff))
  BY <1>1, <1>2, <1>4, PurgeCounts
<1>7. LessUsers(all, Popped(all, cutoff)) = CountUsers(Pop(all, cutoff))
  BY <1>1, <1>2, <1>5, PurgeCounts
<1>8. Purge(e) =
        [queue |-> Pop(queue, cutoff),
         byTime |-> LessTimes(queue, Popped(queue, cutoff)),
         all |-> Pop(all, cutoff),
         byUser |-> LessUsers(all, Popped(all, cutoff))]
  BY <1>3, Zenon DEF Purge, LessTimes, LessUsers, queue, all
<1> HIDE DEF cutoff
<1>9. QED
  BY <1>4, <1>5, <1>6, <1>7, <1>8 DEF Holds

\* A failure is appended to both queues and counted.
LEMMA AppendStep ==
  ASSUME ProgressInv, NEW e, Looking(e), NEW purged, Holds(purged, PairWindow(e), ScopeWindow(e))
  PROVE  Holds([queue |-> Append(purged.queue, e),
                byTime |-> [purged.byTime EXCEPT ![e.time] = @ + 1],
                all |-> Append(purged.all, e),
                byUser |-> [purged.byUser EXCEPT ![e.user] = @ + 1]],
               PairWindow(e) \cup {e}, ScopeWindow(e) \cup {e})
<1>1. /\ e \in Judged /\ Comparable(Judged) /\ e.time \in Times /\ e.user \in Users
      /\ \A f \in Behind : Before(f, e)
      /\ e \notin Behind
  BY LookingInOrder, OrderedListsJudged DEF ProgressInv, Coming, EarlierThan
<1>2. PairWindow(e) \subseteq Behind /\ ScopeWindow(e) \subseteq Behind
  BY DEF PairWindow, ScopeWindow, PairFailures, ScopeFailures, Failures
<1>3. /\ purged.queue \in Seq(Judged) /\ IsSorted(purged.queue)
      /\ Elements(purged.queue) = PairWindow(e)
      /\ purged.all \in Seq(Judged) /\ IsSorted(purged.all)
      /\ Elements(purged.all) = ScopeWindow(e)
      /\ purged.byTime = CountTimes(purged.queue)
      /\ purged.byUser = CountUsers(purged.all)
  BY DEF Holds
<1>4. /\ Append(purged.queue, e) \in Seq(Judged) /\ IsSorted(Append(purged.queue, e))
      /\ Elements(Append(purged.queue, e)) = PairWindow(e) \cup {e}
  BY <1>1, <1>2, <1>3, AppendKeepsSorted
<1>5. /\ Append(purged.all, e) \in Seq(Judged) /\ IsSorted(Append(purged.all, e))
      /\ Elements(Append(purged.all, e)) = ScopeWindow(e) \cup {e}
  BY <1>1, <1>2, <1>3, AppendKeepsSorted
<1>6. IsFiniteSet(PairWindow(e)) /\ IsFiniteSet(ScopeWindow(e))
  BY <1>1, <1>3, SortedCounts
<1>7. [CountTimes(purged.queue) EXCEPT ![e.time] = @ + 1] = CountTimes(Append(purged.queue, e))
  BY <1>1, <1>2, <1>3, <1>4, <1>6, AppendCounts
<1>8. [CountUsers(purged.all) EXCEPT ![e.user] = @ + 1] = CountUsers(Append(purged.all, e))
  BY <1>1, <1>2, <1>3, <1>5, <1>6, AppendCounts
<1>9. QED
  BY <1>3, <1>4, <1>5, <1>7, <1>8 DEF Holds

\* When the loop keeps queues that hold the window of e, each queue is one of its subject.
LEMMA KeepStep ==
  ASSUME ProgressInv, QueuesInv, CountersInv, NEW e, Looking(e), Start - Window <= e.time,
         NEW recent, Keep(e, recent),
         NEW new, new = {f \in {e} : f.status = 2},
         Holds(recent, PairWindow(e) \cup new, ScopeWindow(e) \cup new)
  PROVE  QueuesInv' /\ CountersInv'
<1>1. /\ e \in Judged /\ Comparable(Judged) /\ Pair(e) \in Pairs /\ e.scope \in Scopes
      /\ Judged' = Judged /\ Coming' = Coming \ {e} /\ \A g \in Coming' : Before(e, g)
      /\ e.time \in Int
  BY LookingInOrder, OrderedListsJudged DEF ProgressInv, Coming
<1>2. /\ \A p \in Pairs : PairFailures(p)' = PairFailures(p) \cup {f \in new : Pair(f) = p}
      /\ \A s \in Scopes : ScopeFailures(s)' = ScopeFailures(s) \cup {f \in new : f.scope = s}
  BY FailuresStep
<1>3. /\ PairFailures(Pair(e))' \in SUBSET Judged
      /\ ScopeFailures(e.scope)' \in SUBSET Judged
      /\ Coming' \in SUBSET Judged
  BY <1>1, LookingInOrder DEF PairFailures, ScopeFailures, Failures, EarlierThan, Coming
<1>4. \A f \in new : f.time >= e.time - Window
  BY <1>1, SettingsAssumption
<1>5. /\ PairWindow(e) \cup new = {f \in PairFailures(Pair(e))' : f.time >= e.time - Window}
      /\ ScopeWindow(e) \cup new = {f \in ScopeFailures(e.scope)' : f.time >= e.time - Window}
  BY <1>1, <1>2, <1>4 DEF PairWindow, ScopeWindow
<1>6. /\ recent.queue \in Seq(Judged) /\ IsSorted(recent.queue)
      /\ Elements(recent.queue) = PairWindow(e) \cup new
      /\ recent.all \in Seq(Judged) /\ IsSorted(recent.all)
      /\ Elements(recent.all) = ScopeWindow(e) \cup new
      /\ recent.byTime = CountTimes(recent.queue)
      /\ recent.byUser = CountUsers(recent.all)
  BY DEF Holds
<1>7. /\ QueueOf(recent.queue, PairFailures(Pair(e))', Coming')
      /\ QueueOf(recent.all, ScopeFailures(e.scope)', Coming')
  BY <1>1, <1>3, <1>5, <1>6, WindowIsQueue
<1>8. /\ previous' = [previous EXCEPT ![Pair(e)] = recent.queue]
      /\ source' = [source EXCEPT ![e.scope] = recent.all]
      /\ times' = [times EXCEPT ![Pair(e)] = recent.byTime]
      /\ distinct' = [distinct EXCEPT ![e.scope] = recent.byUser]
  BY DEF Keep
<1>9. previous' \in [Pairs -> Seq(Judged)] /\ source' \in [Scopes -> Seq(Judged)]
  BY <1>6, <1>8 DEF QueuesInv
<1>10. ASSUME NEW p \in Pairs
       PROVE  QueueOf(previous'[p], PairFailures(p)', Coming')
  <2>1. CASE p = Pair(e)
    BY <1>7, <1>8, <2>1 DEF QueuesInv
  <2>2. CASE p # Pair(e)
    BY <1>1, <1>2, <1>8, <2>2 DEF QueuesInv, QueueOf
  <2>3. QED
    BY <2>1, <2>2
<1>11. ASSUME NEW s \in Scopes
       PROVE  QueueOf(source'[s], ScopeFailures(s)', Coming')
  <2>1. CASE s = e.scope
    BY <1>7, <1>8, <2>1 DEF QueuesInv
  <2>2. CASE s # e.scope
    BY <1>1, <1>2, <1>8, <2>2 DEF QueuesInv, QueueOf
  <2>3. QED
    BY <2>1, <2>2
<1>12. QueuesInv'
  BY <1>1, <1>9, <1>10, <1>11 DEF QueuesInv
<1>13. times' = [p \in Pairs |-> CountTimes(previous'[p])]
  BY <1>1, <1>6, <1>8 DEF CountersInv, QueuesInv
<1>14. distinct' = [s \in Scopes |-> CountUsers(source'[s])]
  BY <1>1, <1>6, <1>8 DEF CountersInv, QueuesInv
<1>15. QED
  BY <1>12, <1>13, <1>14 DEF CountersInv, CountTimes, CountUsers

-------------------------------------------------------------------------------
(***************************************************************************)
(* What the queues and counters say of a rule.                             *)
(***************************************************************************)

\* For a logon in the range, what the rules count is what the queues hold.
LEMMA CountedAreHeld ==
  ASSUME ProgressInv, NEW e, Looking(e), InRange(e),
         NEW new, new = {f \in {e} : f.status = 2}
  PROVE  /\ WindowFailures(Judged, e) = ScopeWindow(e) \cup new
         /\ Counted("repeated_failures", Judged, e) = PairWindow(e) \cup new
         /\ Counted("password_spray", Judged, e) = ScopeWindow(e) \cup new
         /\ Counted("success_after_failures", Judged, e)
              = {f \in PairWindow(e) \cup new : f.time < e.time}
<1>1. /\ e \in Judged /\ Behind = EarlierThan(Judged, e)
      /\ \A f \in Judged : f.time \in Int
  BY LookingInOrder, OrderedListsJudged DEF ProgressInv, Coming
<1>2. /\ e.time >= e.time - Window
      /\ \A f \in Judged : f.time >= e.time - Window => Start - Window <= f.time
  BY <1>1, SettingsAssumption, RangeAssumption DEF InRange
<1>3. WindowFailures(Judged, e) = ScopeWindow(e) \cup new
  BY <1>1, <1>2 DEF WindowFailures, ScopeWindow, ScopeFailures, Failures, EarlierThan
<1>4. PairWindow(e) \cup new = {f \in ScopeWindow(e) \cup new : f.user = e.user}
  BY DEF PairWindow, PairFailures, ScopeWindow, ScopeFailures, Pair
<1>5. QED
  BY <1>3, <1>4 DEF Counted

\* The head of a queue has the smallest timestamp of any part that holds it.
LEMMA HeadIsFirst ==
  ASSUME NEW S, Comparable(S), NEW seq \in Seq(S), IsSorted(seq), seq # <<>>,
         NEW rule, NEW e, Counted(rule, S, e) \subseteq Elements(seq), seq[1] \in Counted(rule, S, e)
  PROVE  seq[1].time = FirstSeen(rule, S, e)
<1> DEFINE ts == {f.time : f \in Counted(rule, S, e)}
           IsFirst(t) == \A u \in ts : t <= u
<1>1. /\ Len(seq) \in Nat /\ DOMAIN seq = 1..Len(seq) /\ 1 \in DOMAIN seq
      /\ \A i \in DOMAIN seq : seq[i] \in S /\ seq[i].time \in Int
  BY DEF Comparable
<1>2. \A i \in DOMAIN seq : seq[1].time <= seq[i].time
  <2> SUFFICES ASSUME NEW i \in DOMAIN seq PROVE seq[1].time <= seq[i].time
    OBVIOUS
  <2>1. i = 1 \/ 1 < i
    BY <1>1
  <2>2. QED
    BY <1>1, <2>1 DEF IsSorted, Before
<1>3. seq[1].time \in ts /\ IsFirst(seq[1].time) /\ ts \subseteq Int
  BY <1>1, <1>2 DEF Elements
<1>4. FirstSeen(rule, S, e) = CHOOSE t \in ts : IsFirst(t)
  BY DEF FirstSeen
<1> HIDE DEF ts
<1>5. \A t \in ts : IsFirst(t) => t = seq[1].time
  <2> SUFFICES ASSUME NEW t \in ts, IsFirst(t) PROVE t = seq[1].time
    OBVIOUS
  <2>1. /\ t \in Int /\ seq[1].time \in Int
        /\ t <= seq[1].time /\ seq[1].time <= t
    BY <1>3
  <2>2. QED
    BY <2>1
<1>6. QED
  BY <1>3, <1>4, <1>5

\* The users whose counter is above zero are those of the queue.
LEMMA CountedUsers ==
  ASSUME NEW queue, IsFiniteSet(Elements(queue)), \A f \in Elements(queue) : f.user \in Users
  PROVE  {u \in Users : CountUsers(queue)[u] > 0} = {f.user : f \in Elements(queue)}
<1>1. ASSUME NEW u \in Users
      PROVE  CountUsers(queue)[u] > 0 <=> \E f \in Elements(queue) : f.user = u
  <2> DEFINE A == {f \in Elements(queue) : f.user = u}
  <2>1. IsFiniteSet(A)
    BY FS_Subset
  <2>2. CountUsers(queue)[u] = Cardinality(A)
    BY DEF CountUsers
  <2> HIDE DEF A
  <2>3. Cardinality(A) \in Nat /\ (Cardinality(A) = 0 <=> A = {})
    BY <2>1, FS_CardinalityType, FS_EmptySet
  <2>4. Cardinality(A) > 0 <=> A # {}
    BY <2>3
  <2>5. QED
    BY <2>2, <2>4 DEF A
<1>2. QED
  BY <1>1

\* What is left of the queue when the failures of the time of e are not counted are the
\* strictly earlier ones.
LEMMA EarlierFailures ==
  ASSUME NEW S, Comparable(S), NEW queue \in Seq(S), IsSorted(queue),
         NEW e \in S, e.time \in Times, \A f \in Elements(queue) : Before(f, e)
  PROVE  Len(queue) - CountTimes(queue)[e.time]
           = Cardinality({f \in Elements(queue) : f.time < e.time})
<1> DEFINE A == Elements(queue)
           B == {f \in A : f.time < e.time}
<1>1. IsFiniteSet(A) /\ Cardinality(A) = Len(queue) /\ A \subseteq S
  BY SortedCounts
<1>2. {f \in A : f.time = e.time} = A \ B
  BY <1>1 DEF Comparable, Before
<1>3. CountTimes(queue)[e.time] = Cardinality(A \ B)
  BY <1>2 DEF CountTimes
<1>4. B \in SUBSET A
  OBVIOUS
<1> HIDE DEF A, B
<1>5. Cardinality(B) = Cardinality(A) - Cardinality(A \ B)
  BY <1>1, <1>4, Remainder
<1>6. QED
  BY <1>1, <1>3, <1>5 DEF A, B

-------------------------------------------------------------------------------
(***************************************************************************)
(* Findings.                                                               *)
(***************************************************************************)

\* Where no rule fires there is nothing to find.
LEMMA NothingToFind ==
  ASSUME NEW found, NEW S, NEW D, Matches(found, S, D), NEW more, D \subseteq more,
         \A d \in more \ D : ~ (InRange(d[2]) /\ Fires(d[1], S, d[2]))
  PROVE  Matches(found, S, more)
BY DEF Matches

\* emit adds the finding of a rule that fires unless an earlier trigger took its identity.
LEMMA EmitFinds ==
  ASSUME NEW S, Comparable(S), NEW found, NEW D, D \subseteq Rules \X S, Matches(found, S, D),
         NEW rule \in Rules, NEW e \in S, InRange(e), Fires(rule, S, e),
         \A g \in S : Before(g, e) => <<rule, g>> \in D,
         \A d \in D : d[1] = rule => Before(d[2], e),
         NEW evidence, evidence[1].time = FirstSeen(rule, S, e),
         NEW count, count = Finding(rule, S, e).count
  PROVE  Matches(Emit(found, rule, e, evidence, count), S, D \cup {<<rule, e>>})
<1> DEFINE id == Identity(rule, e)
           f0 == [identity |-> id, count |-> count, first |-> evidence[1].time, last |-> e.time,
                  trigger |-> e, evidence |-> Sample(rule, e, evidence, count)]
<1>1. CASE \E f \in found : f.identity = id
  <2>1. Emit(found, rule, e, evidence, count) = found
    BY <1>1 DEF Emit
  <2>2. QED
    BY <1>1, <2>1 DEF Matches
<1>2. CASE ~ \E f \in found : f.identity = id
  <2>1. Emit(found, rule, e, evidence, count) = found \cup {f0}
    BY <1>2 DEF Emit
  <2>2. FirstTrigger(rule, S, e, Start)
    <3> SUFFICES ASSUME NEW g \in S, g.time >= Start, Before(g, e), Identity(rule, g) = id,
                        Fires(rule, S, g)
                 PROVE  FALSE
      BY DEF FirstTrigger
    <3>1. <<rule, g>> \in D
      OBVIOUS
    <3>2. InRange(g)
      BY RangeAssumption DEF InRange, Before, Comparable
    <3>3. \E f \in found : f.identity = Identity(rule, g)
      BY <3>1, <3>2 DEF Matches
    <3>4. QED
      BY <1>2, <3>3
  <2>3. Report(f0) = Finding(rule, S, e)
    BY DEF Report, Finding
  <2>4. f0.identity = id
    OBVIOUS
  <2> HIDE DEF f0
  <2>5. ASSUME NEW f \in found \cup {f0}
        PROVE  \E d \in D \cup {<<rule, e>>} :
                 /\ InRange(d[2]) /\ FirstTrigger(d[1], S, d[2], Start)
                 /\ Report(f) = Finding(d[1], S, d[2])
    <3>1. CASE f \in found
      BY <3>1 DEF Matches
    <3>2. CASE f = f0
      <4> DEFINE d == <<rule, e>>
      <4>1. d[1] = rule /\ d[2] = e /\ d \in D \cup {<<rule, e>>}
        OBVIOUS
      <4> HIDE DEF d
      <4>2. QED
        BY <2>2, <2>3, <3>2, <4>1
    <3>3. QED
      BY <3>1, <3>2
  <2>6. \A d \in D \cup {<<rule, e>>} : InRange(d[2]) /\ Fires(d[1], S, d[2])
          => \E f \in found \cup {f0} : f.identity = Identity(d[1], d[2])
    BY <2>4 DEF Matches
  <2>7. QED
    BY <2>1, <2>5, <2>6 DEF Matches
<1>3. QED
  BY <1>1, <1>2

\* The count of a finding: what its rule counted, and the success itself.
LEMMA FindingCount ==
  ASSUME NEW rule, NEW S, NEW e
  PROVE  Finding(rule, S, e).count
           = Cardinality(Counted(rule, S, e)) + (IF e.status = 1 THEN 1 ELSE 0)
<1> DEFINE first == FirstSeen(rule, S, e)
           count == Cardinality(Counted(rule, S, e)) + (IF e.status = 1 THEN 1 ELSE 0)
<1>1. Finding(rule, S, e) =
        [identity |-> Identity(rule, e), count |-> count, first |-> first, last |-> e.time]
  BY DEF Finding
<1> HIDE DEF first, count
<1>2. Finding(rule, S, e).count = count
  BY <1>1
<1>3. QED
  BY <1>2 DEF count

\* The window's length and its counters decide whether a rule fires, and make its finding.
LEMMA FailureJudged ==
  ASSUME ProgressInv, NEW e, Looking(e), InRange(e), e.status = 2,
         NEW recent, Holds(recent, PairWindow(e) \cup {e}, ScopeWindow(e) \cup {e})
  PROVE  /\ Fires("repeated_failures", Judged, e) <=> Len(recent.queue) >= FailureThreshold
         /\ Fires("password_spray", Judged, e)
              <=> Cardinality({u \in Users : recent.byUser[u] > 0}) >= SprayThreshold
         /\ Len(recent.queue) = Finding("repeated_failures", Judged, e).count
         /\ recent.queue[1].time = FirstSeen("repeated_failures", Judged, e)
         /\ Len(recent.all) = Finding("password_spray", Judged, e).count
         /\ recent.all[1].time = FirstSeen("password_spray", Judged, e)
<1>1. /\ Comparable(Judged) /\ e \in Judged
      /\ \A f \in Judged : f.user \in Users
  BY LookingInOrder, OrderedListsJudged DEF ProgressInv, Coming
<1>2. /\ recent.queue \in Seq(Judged) /\ IsSorted(recent.queue)
      /\ Elements(recent.queue) = PairWindow(e) \cup {e}
      /\ recent.all \in Seq(Judged) /\ IsSorted(recent.all)
      /\ Elements(recent.all) = ScopeWindow(e) \cup {e}
      /\ recent.byUser = CountUsers(recent.all)
  BY DEF Holds
<1>3. {f \in {e} : f.status = 2} = {e}
  OBVIOUS
<1>4. /\ Counted("repeated_failures", Judged, e) = Elements(recent.queue)
      /\ Counted("password_spray", Judged, e) = Elements(recent.all)
  BY <1>2, <1>3, CountedAreHeld
<1>5. /\ IsFiniteSet(Elements(recent.queue)) /\ Cardinality(Elements(recent.queue)) = Len(recent.queue)
      /\ IsFiniteSet(Elements(recent.all)) /\ Cardinality(Elements(recent.all)) = Len(recent.all)
      /\ Elements(recent.all) \subseteq Judged
      /\ Len(recent.queue) \in Nat /\ Len(recent.all) \in Nat
  <2>1. Len(recent.queue) \in Nat /\ Len(recent.all) \in Nat
    BY <1>2
  <2>2. IsFiniteSet(Elements(recent.queue)) /\ Cardinality(Elements(recent.queue)) = Len(recent.queue)
    BY <1>1, <1>2, SortedCounts
  <2>3. /\ IsFiniteSet(Elements(recent.all)) /\ Cardinality(Elements(recent.all)) = Len(recent.all)
        /\ Elements(recent.all) \subseteq Judged
    BY <1>1, <1>2, SortedCounts
  <2>4. QED
    BY <2>1, <2>2, <2>3
<1>6. /\ recent.queue # <<>> /\ recent.queue[1] \in Elements(recent.queue)
      /\ recent.all # <<>> /\ recent.all[1] \in Elements(recent.all)
  BY <1>2 DEF Elements
<1>7. /\ recent.queue[1].time = FirstSeen("repeated_failures", Judged, e)
      /\ recent.all[1].time = FirstSeen("password_spray", Judged, e)
  BY <1>1, <1>2, <1>4, <1>6, HeadIsFirst
<1>8. {u \in Users : recent.byUser[u] > 0} = {f.user : f \in Counted("password_spray", Judged, e)}
  BY <1>1, <1>2, <1>4, <1>5, CountedUsers
<1>9. /\ Fires("repeated_failures", Judged, e) <=> Len(recent.queue) >= FailureThreshold
      /\ Fires("password_spray", Judged, e)
           <=> Cardinality({u \in Users : recent.byUser[u] > 0}) >= SprayThreshold
  BY <1>4, <1>5, <1>8 DEF Fires
<1>10. /\ Len(recent.queue) = Finding("repeated_failures", Judged, e).count
       /\ Len(recent.all) = Finding("password_spray", Judged, e).count
  <2>1. \A rule : Finding(rule, Judged, e).count = Cardinality(Counted(rule, Judged, e)) + 0
    BY FindingCount
  <2>2. QED
    BY <1>4, <1>5, <2>1
<1>11. QED
  BY <1>7, <1>9, <1>10

\* The same for a success: its count takes off the failures of its own timestamp.
LEMMA SuccessJudged ==
  ASSUME ProgressInv, NEW e, Looking(e), InRange(e), e.status = 1,
         NEW recent, Holds(recent, PairWindow(e), ScopeWindow(e)),
         NEW earlier, earlier = Len(recent.queue) - recent.byTime[e.time]
  PROVE  /\ Fires("success_after_failures", Judged, e) <=> earlier >= FailureThreshold
         /\ earlier + 1 = Finding("success_after_failures", Judged, e).count
         /\ earlier >= FailureThreshold =>
              recent.queue[1].time = FirstSeen("success_after_failures", Judged, e)
<1>1. /\ Comparable(Judged) /\ e \in Judged /\ e.time \in Times
      /\ \A f \in Behind : Before(f, e)
  BY LookingInOrder, OrderedListsJudged DEF ProgressInv, Coming, EarlierThan
<1>2. /\ recent.queue \in Seq(Judged) /\ IsSorted(recent.queue)
      /\ Elements(recent.queue) = PairWindow(e)
      /\ recent.byTime = CountTimes(recent.queue)
  BY DEF Holds
<1>3. PairWindow(e) \subseteq Behind
  BY DEF PairWindow, PairFailures, Failures
<1>4. Counted("success_after_failures", Judged, e)
        = {f \in Elements(recent.queue) : f.time < e.time}
  <2> DEFINE new == {f \in {e} : f.status = 2}
  <2>1. Counted("success_after_failures", Judged, e) = {f \in PairWindow(e) \cup new : f.time < e.time}
    BY CountedAreHeld
  <2>2. new = {}
    OBVIOUS
  <2> HIDE DEF new
  <2>3. QED
    BY <1>2, <2>1, <2>2
<1>5. earlier = Cardinality(Counted("success_after_failures", Judged, e))
  BY <1>1, <1>2, <1>3, <1>4, EarlierFailures
<1>6. /\ Fires("success_after_failures", Judged, e) <=> earlier >= FailureThreshold
      /\ earlier + 1 = Finding("success_after_failures", Judged, e).count
  BY <1>5, FindingCount DEF Fires
<1>7. ASSUME earlier >= FailureThreshold
      PROVE  recent.queue[1].time = FirstSeen("success_after_failures", Judged, e)
  <2>1. Counted("success_after_failures", Judged, e) # {}
    <3>1. SUFFICES ASSUME Counted("success_after_failures", Judged, e) = {} PROVE FALSE
      OBVIOUS
    <3>2. earlier = 0
      BY <1>5, <3>1, FS_EmptySet
    <3>3. QED
      BY <1>7, <3>2, SettingsAssumption
  <2>2. PICK i \in DOMAIN recent.queue : recent.queue[i].time < e.time
    BY <1>4, <2>1 DEF Elements
  <2>3. /\ i \in Nat /\ 1 \in DOMAIN recent.queue /\ recent.queue # <<>> /\ (i = 1 \/ 1 < i)
        /\ recent.queue[1] \in Judged /\ recent.queue[i] \in Judged
    BY <1>2, <2>2
  <2>4. recent.queue[1].time < e.time
    BY <1>1, <1>2, <2>2, <2>3 DEF IsSorted, Before, Comparable
  <2>5. recent.queue[1] \in Counted("success_after_failures", Judged, e)
    BY <1>4, <2>3, <2>4 DEF Elements
  <2>6. QED
    BY <1>1, <1>2, <1>4, <2>3, <2>5, HeadIsFirst
<1>8. QED
  BY <1>6, <1>7

-------------------------------------------------------------------------------
(***************************************************************************)
(* The steps of the loop.                                                  *)
(***************************************************************************)

\* What was found behind the loop, and the logons judged so far.
LEMMA JudgedBehind ==
  ASSUME ProgressInv, NEW e, Looking(e)
  PROVE  /\ Comparable(Judged) /\ e \in Judged
         /\ Rules \X Behind \subseteq Rules \X Judged
         /\ \A rule \in Rules, g \in Judged : Before(g, e) => <<rule, g>> \in Rules \X Behind
         /\ \A rule \in Rules : <<rule, e>> \notin Rules \X Behind
         /\ \A d \in Rules \X Behind : Before(d[2], e)
         /\ \A d \in Rules \X Behind' : d \in Rules \X Behind \/ (d[2] = e /\ d[1] \in Rules)
BY LookingInOrder, OrderedListsJudged DEF ProgressInv, Coming, EarlierThan

\* A logon outside of the range adds nothing to be found.
LEMMA OutsideStep ==
  ASSUME LoopInv, NEW e, Looking(e), ~ InRange(e)
  PROVE  Matches(findings, Judged, Rules \X Behind')
<1>1. \A d \in (Rules \X Behind') \ (Rules \X Behind) : ~ (InRange(d[2]) /\ Fires(d[1], Judged, d[2]))
  BY JudgedBehind DEF LoopInv
<1>2. Rules \X Behind \subseteq Rules \X Behind'
  BY LookingInOrder DEF LoopInv
<1>3. QED
  BY <1>1, <1>2, NothingToFind DEF LoopInv, FindingsInv

\* A logon before the window of the range, or at its end: no queue and no finding needs it.
LEMMA SkipStep ==
  ASSUME LoopInv, NEW e, Skip(e)
  PROVE  LoopInv'
<1>1. /\ Looking(e) /\ (e.time < Start - Window \/ e.time >= End)
      /\ UNCHANGED <<previous, times, source, distinct, findings>>
  BY DEF Skip, queues
<1>2. /\ ProgressInv' /\ Judged' = Judged /\ Behind' = Behind \cup {e} /\ Coming' = Coming \ {e}
      /\ e \in Judged /\ e.time \in Int
      /\ \A g \in Coming' : Before(e, g) /\ g.time \in Int
  BY <1>1, LookingInOrder, OrderedListsJudged DEF LoopInv, ProgressInv, Coming
<1>3. ~ InRange(e)
  BY <1>1, <1>2, SettingsAssumption, RangeAssumption DEF InRange
<1>4. FindingsInv'
  BY <1>1, <1>2, <1>3, OutsideStep DEF FindingsInv
<1>5. CountersInv'
  BY <1>1 DEF LoopInv, CountersInv, CountTimes, CountUsers
<1>6. CASE e.time < Start - Window
  <2>1. Failures' = Failures
    BY <1>2, <1>6, SettingsAssumption, RangeAssumption DEF Failures
  <2>2. QueuesInv'
    BY <1>1, <1>2, <2>1 DEF LoopInv, QueuesInv, QueueOf, PairFailures, ScopeFailures, Pair
  <2>3. QED
    BY <1>2, <1>4, <1>5, <2>2 DEF LoopInv
<1>7. CASE e.time >= End
  <2>1. \A g \in Coming' : ~ (g.time < End)
    BY <1>2, <1>7, RangeAssumption DEF Before
  <2>2. /\ \A p \in Pairs : PairFailures(p) \subseteq PairFailures(p)'
        /\ \A s \in Scopes : ScopeFailures(s) \subseteq ScopeFailures(s)'
    BY <1>2 DEF PairFailures, ScopeFailures, Failures, Pair
  <2>3. QueuesInv'
    BY <1>1, <1>2, <2>1, <2>2 DEF LoopInv, QueuesInv, QueueOf
  <2>4. QED
    BY <1>2, <1>4, <1>5, <2>3 DEF LoopInv
<1>8. QED
  BY <1>1, <1>6, <1>7

\* A failure: it enters the queue of its user and that of its scope.
LEMMA FailureStep ==
  ASSUME LoopInv, NEW e, Failure(e)
  PROVE  LoopInv'
<1> DEFINE purged == Purge(e)
           recent == [queue |-> Append(purged.queue, e),
                      byTime |-> [purged.byTime EXCEPT ![e.time] = @ + 1],
                      all |-> Append(purged.all, e),
                      byUser |-> [purged.byUser EXCEPT ![e.user] = @ + 1]]
           repeated == IF Len(recent.queue) >= FailureThreshold
                       THEN Emit(findings, "repeated_failures", e, recent.queue, Len(recent.queue))
                       ELSE findings
           spray == IF Cardinality({u \in Users : recent.byUser[u] > 0}) >= SprayThreshold
                    THEN Emit(repeated, "password_spray", e, recent.all, Len(recent.all))
                    ELSE repeated
           D == Rules \X Behind
           D1 == D \cup {<<"repeated_failures", e>>}
           D2 == D1 \cup {<<"password_spray", e>>}
<1>1. /\ Looking(e) /\ e.status = 2 /\ Start - Window <= e.time /\ e.time < End
      /\ Keep(e, recent)
      /\ findings' = IF e.time < Start THEN findings ELSE spray
  BY DEF Failure
<1>2. ProgressInv /\ QueuesInv /\ CountersInv /\ Matches(findings, Judged, D)
  BY DEF LoopInv, FindingsInv
<1>3. Holds(purged, PairWindow(e), ScopeWindow(e))
  BY <1>1, <1>2, PurgeStep
<1>4. Holds(recent, PairWindow(e) \cup {e}, ScopeWindow(e) \cup {e})
  <2> HIDE DEF purged
  <2>1. QED
    BY <1>1, <1>2, <1>3, AppendStep
<1> HIDE DEF recent
<1>5. QueuesInv' /\ CountersInv'
  <2>1. {e} = {f \in {e} : f.status = 2}
    BY <1>1
  <2>2. QED
    BY <1>1, <1>2, <1>4, <2>1, KeepStep
<1>6. ProgressInv' /\ Judged' = Judged
  BY <1>1, <1>2, LookingInOrder
<1>7. CASE e.time < Start
  <2>1. ~ InRange(e)
    BY <1>6, <1>7, <1>1, <1>2, JudgedBehind, RangeAssumption DEF InRange, Comparable
  <2>2. FindingsInv'
    BY <1>1, <1>6, <1>7, <2>1, OutsideStep DEF FindingsInv
  <2>3. QED
    BY <1>5, <1>6, <2>2 DEF LoopInv
<1>8. CASE ~ (e.time < Start)
  <2>1. InRange(e)
    BY <1>1, <1>2, <1>8, JudgedBehind, RangeAssumption DEF InRange, Comparable
  <2>2. /\ Fires("repeated_failures", Judged, e) <=> Len(recent.queue) >= FailureThreshold
        /\ Fires("password_spray", Judged, e)
             <=> Cardinality({u \in Users : recent.byUser[u] > 0}) >= SprayThreshold
        /\ Len(recent.queue) = Finding("repeated_failures", Judged, e).count
        /\ recent.queue[1].time = FirstSeen("repeated_failures", Judged, e)
        /\ Len(recent.all) = Finding("password_spray", Judged, e).count
        /\ recent.all[1].time = FirstSeen("password_spray", Judged, e)
    BY <1>1, <1>2, <1>4, <2>1, FailureJudged
  <2>3. /\ Comparable(Judged) /\ e \in Judged /\ D \subseteq Rules \X Judged
        /\ \A rule \in Rules, g \in Judged : Before(g, e) => <<rule, g>> \in D
        /\ \A d \in D : Before(d[2], e)
        /\ \A d \in Rules \X Behind' : d \in D \/ (d[2] = e /\ d[1] \in Rules)
    BY <1>1, <1>2, JudgedBehind
  <2> HIDE DEF D
  <2>4. Matches(repeated, Judged, D1)
    <3>1. CASE Fires("repeated_failures", Judged, e)
      BY <1>2, <2>1, <2>2, <2>3, <3>1, EmitFinds DEF Rules
    <3>2. CASE ~ Fires("repeated_failures", Judged, e)
      BY <1>2, <2>2, <3>2, NothingToFind
    <3>3. QED
      BY <3>1, <3>2
  <2> HIDE DEF repeated
  <2>5. /\ D1 \subseteq Rules \X Judged
        /\ \A rule \in Rules, g \in Judged : Before(g, e) => <<rule, g>> \in D1
        /\ \A d \in D1 : d[1] = "password_spray" => Before(d[2], e)
    BY <2>3 DEF Rules
  <2> HIDE DEF D1
  <2>6. Matches(spray, Judged, D2)
    <3>1. CASE Fires("password_spray", Judged, e)
      BY <2>1, <2>2, <2>3, <2>4, <2>5, <3>1, EmitFinds DEF Rules
    <3>2. CASE ~ Fires("password_spray", Judged, e)
      BY <2>2, <2>4, <3>2, NothingToFind
    <3>3. QED
      BY <3>1, <3>2
  <2> HIDE DEF spray
  <2>7. Matches(spray, Judged, Rules \X Behind')
    <3>1. D2 \subseteq Rules \X Behind'
      BY <1>1, <1>2, LookingInOrder DEF D, D1, Rules
    <3>2. ~ Fires("success_after_failures", Judged, e)
      BY <1>1 DEF Fires
    <3>3. \A d \in (Rules \X Behind') \ D2 : d[1] = "success_after_failures" /\ d[2] = e
      BY <2>3 DEF D1, Rules
    <3>4. QED
      BY <2>6, <3>1, <3>2, <3>3, NothingToFind
  <2>8. FindingsInv'
    BY <1>1, <1>6, <1>8, <2>7 DEF FindingsInv
  <2>9. QED
    BY <1>5, <1>6, <2>8 DEF LoopInv
<1>9. QED
  BY <1>7, <1>8

\* A success: the queues are purged and nothing enters them.
LEMMA SuccessStep ==
  ASSUME LoopInv, NEW e, Success(e)
  PROVE  LoopInv'
<1> DEFINE recent == Purge(e)
           earlier == Len(recent.queue) - recent.byTime[e.time]
           found == Emit(findings, "success_after_failures", e, recent.queue, earlier + 1)
           D == Rules \X Behind
           D1 == D \cup {<<"success_after_failures", e>>}
<1>1. /\ Looking(e) /\ e.status = 1 /\ Start - Window <= e.time /\ e.time < End
      /\ Keep(e, recent)
      /\ findings' = IF e.time >= Start /\ earlier >= FailureThreshold THEN found ELSE findings
  BY DEF Success
<1>2. ProgressInv /\ QueuesInv /\ CountersInv /\ Matches(findings, Judged, D)
  BY DEF LoopInv, FindingsInv
<1>3. Holds(recent, PairWindow(e), ScopeWindow(e))
  BY <1>1, <1>2, PurgeStep
<1> HIDE DEF recent
<1>4. QueuesInv' /\ CountersInv'
  <2> DEFINE new == {f \in {e} : f.status = 2}
  <2>1. PairWindow(e) \cup new = PairWindow(e) /\ ScopeWindow(e) \cup new = ScopeWindow(e)
    BY <1>1
  <2>2. Holds(recent, PairWindow(e) \cup new, ScopeWindow(e) \cup new)
    BY <1>3, <2>1
  <2>3. QED
    BY <1>1, <1>2, <2>2, KeepStep
<1>5. ProgressInv' /\ Judged' = Judged
  BY <1>1, <1>2, LookingInOrder
<1>6. CASE ~ (e.time >= Start)
  <2>1. ~ InRange(e)
    BY <1>1, <1>2, <1>6, JudgedBehind, RangeAssumption DEF InRange, Comparable
  <2>2. FindingsInv'
    BY <1>1, <1>5, <1>6, <2>1, OutsideStep DEF FindingsInv
  <2>3. QED
    BY <1>4, <1>5, <2>2 DEF LoopInv
<1>7. CASE e.time >= Start
  <2>1. InRange(e)
    BY <1>1, <1>2, <1>7, JudgedBehind, RangeAssumption DEF InRange, Comparable
  <2>2. /\ Fires("success_after_failures", Judged, e) <=> earlier >= FailureThreshold
        /\ earlier + 1 = Finding("success_after_failures", Judged, e).count
        /\ earlier >= FailureThreshold =>
             recent.queue[1].time = FirstSeen("success_after_failures", Judged, e)
    BY <1>1, <1>2, <1>3, <2>1, SuccessJudged
  <2>3. /\ Comparable(Judged) /\ e \in Judged /\ D \subseteq Rules \X Judged
        /\ \A rule \in Rules, g \in Judged : Before(g, e) => <<rule, g>> \in D
        /\ \A d \in D : Before(d[2], e)
        /\ \A d \in Rules \X Behind' : d \in D \/ (d[2] = e /\ d[1] \in Rules)
    BY <1>1, <1>2, JudgedBehind
  <2> HIDE DEF D, earlier
  <2>4. Matches(findings', Judged, D1)
    <3>1. CASE Fires("success_after_failures", Judged, e)
      <4>1. findings' = found
        BY <1>1, <1>7, <2>2, <3>1
      <4>2. Matches(found, Judged, D1)
        BY <1>2, <2>1, <2>2, <2>3, <3>1, EmitFinds DEF Rules
      <4>3. QED
        BY <4>1, <4>2
    <3>2. CASE ~ Fires("success_after_failures", Judged, e)
      <4>1. findings' = findings
        BY <1>1, <2>2, <3>2
      <4>2. Matches(findings, Judged, D1)
        BY <1>2, <3>2, NothingToFind
      <4>3. QED
        BY <4>1, <4>2
    <3>3. QED
      BY <3>1, <3>2
  <2>5. Matches(findings', Judged, Rules \X Behind')
    <3>1. D1 \subseteq Rules \X Behind'
      BY <1>1, <1>2, LookingInOrder DEF D, Rules
    <3>2. ~ Fires("repeated_failures", Judged, e) /\ ~ Fires("password_spray", Judged, e)
      BY <1>1 DEF Fires
    <3>3. \A d \in (Rules \X Behind') \ D1 :
            d[1] \in {"repeated_failures", "password_spray"} /\ d[2] = e
      BY <2>3 DEF Rules
    <3>4. QED
      BY <2>4, <3>1, <3>2, <3>3, NothingToFind
  <2>6. FindingsInv'
    BY <1>5, <2>5 DEF FindingsInv
  <2>7. QED
    BY <1>4, <1>5, <2>6 DEF LoopInv
<1>8. QED
  BY <1>6, <1>7

\* The steps that look at no logon.
LEMMA NoLookStep ==
  ASSUME LoopInv, RefuseInput \/ Finish \/ UNCHANGED vars
  PROVE  LoopInv'
<1>1. UNCHANGED <<input, ordered, next, previous, times, source, distinct, findings>>
  BY DEF RefuseInput, Finish, vars, queues
<1>2. Judged' = Judged /\ Behind' = Behind /\ Coming' = Coming
  BY <1>1 DEF Judged, Eligible, Behind, Coming
<1>3. ended' = "returned" => next = Len(ordered) + 1
  <2>1. CASE Finish
    <3>1. next \in 1..(Len(ordered) + 1) /\ next > Len(ordered) /\ Len(ordered) \in Nat
      BY <2>1, OrderedListsJudged DEF Finish, LoopInv, ProgressInv
    <3>2. QED
      BY <3>1
  <2>2. CASE RefuseInput
    BY <2>2 DEF RefuseInput
  <2>3. CASE UNCHANGED vars
    BY <2>3 DEF vars, LoopInv, ProgressInv
  <2>4. QED
    BY <2>1, <2>2, <2>3
<1>4. ProgressInv'
  BY <1>1, <1>2, <1>3 DEF LoopInv, ProgressInv
<1>5. QueuesInv' /\ CountersInv'
  BY <1>1, <1>2 DEF LoopInv, QueuesInv, CountersInv, QueueOf, PairFailures, ScopeFailures, Failures,
                    Pair, CountTimes, CountUsers
<1>6. FindingsInv'
  BY <1>1, <1>2 DEF LoopInv, FindingsInv
<1>7. QED
  BY <1>4, <1>5, <1>6 DEF LoopInv

\* Every step of the loop preserves the invariant.
LEMMA LoopStep == LoopInv /\ [Next]_vars => LoopInv'
<1> SUFFICES ASSUME LoopInv, [Next]_vars PROVE LoopInv'
  OBVIOUS
<1>1. CASE RefuseInput \/ Finish \/ UNCHANGED vars
  BY <1>1, NoLookStep
<1>2. ASSUME NEW e \in input, Skip(e) \/ Failure(e) \/ Success(e)
      PROVE  LoopInv'
  BY <1>2, SkipStep, FailureStep, SuccessStep
<1>3. QED
  BY <1>1, <1>2 DEF Next

\* Nothing is behind the loop when it starts, and the queues are empty.
LEMMA LoopInit == Init => LoopInv
<1> SUFFICES ASSUME Init PROVE LoopInv
  OBVIOUS
<1>1. /\ input \in Inputs /\ ordered = Sorted(Judged) /\ next = 1 /\ findings = {} /\ ended = "no"
      /\ previous = [p \in Pairs |-> <<>>] /\ times = [p \in Pairs |-> [t \in Times |-> 0]]
      /\ source = [s \in Scopes |-> <<>>] /\ distinct = [s \in Scopes |-> [u \in Users |-> 0]]
  BY DEF Init, Judged
<1>2. ProgressInv
  <2>1. Len(ordered) \in Nat
    BY <1>1, OrderedListsJudged
  <2>2. QED
    BY <1>1, <2>1 DEF ProgressInv
<1>3. Behind = {}
  BY <1>1 DEF Behind
<1>4. Elements(<<>>) = {} /\ IsSorted(<<>>)
  BY DEF Elements, IsSorted
<1>5. QueuesInv
  BY <1>1, <1>3, <1>4 DEF QueuesInv, QueueOf, PairFailures, ScopeFailures, Failures
<1>6. CountTimes(<<>>) = [t \in Times |-> 0] /\ CountUsers(<<>>) = [u \in Users |-> 0]
  <2>1. \A t : {f \in Elements(<<>>) : f.time = t} = {}
    BY <1>4
  <2>2. \A u : {f \in Elements(<<>>) : f.user = u} = {}
    BY <1>4
  <2>3. QED
    BY <2>1, <2>2, FS_EmptySet DEF CountTimes, CountUsers
<1>7. CountersInv
  BY <1>1, <1>6 DEF CountersInv
<1>8. FindingsInv
  BY <1>1, <1>3 DEF FindingsInv, Matches
<1>9. QED
  BY <1>2, <1>5, <1>7, <1>8 DEF LoopInv

\* The invariant holds throughout.
LEMMA LoopHolds == Spec => []LoopInv
BY LoopInit, LoopStep, PTL DEF Spec

\* At the end every logon is behind the loop: what was found is what the rules find.
LEMMA AllFound == LoopInv => FindsWhatTheRulesSay
<1> SUFFICES ASSUME LoopInv, ended = "returned"
             PROVE  {Report(f) : f \in findings} = Findings(Judged, Start, End)
  BY DEF FindsWhatTheRulesSay, Report, Judged
<1>1. /\ IsFiniteSet(Judged) /\ Comparable(Judged)
      /\ ordered \in Seq(Judged) /\ Elements(ordered) = Judged /\ next = Len(ordered) + 1
  BY OrderedListsJudged DEF LoopInv, ProgressInv
<1>2. Behind = Judged
  <2>1. next - 1 = Len(ordered) /\ DOMAIN ordered = 1..Len(ordered)
    BY <1>1
  <2>2. QED
    BY <1>1, <2>1 DEF Behind, Elements
<1>3. Matches(findings, Judged, Rules \X Judged)
  BY <1>2 DEF LoopInv, FindingsInv
<1>4. ASSUME NEW f \in findings
      PROVE  \E rule \in Rules, e \in Judged :
               /\ InRange(e) /\ FirstTrigger(rule, Judged, e, Start)
               /\ Report(f) = Finding(rule, Judged, e)
  <2>1. PICK d \in Rules \X Judged : /\ InRange(d[2]) /\ FirstTrigger(d[1], Judged, d[2], Start)
                                     /\ Report(f) = Finding(d[1], Judged, d[2])
    BY <1>3 DEF Matches
  <2>2. d[1] \in Rules /\ d[2] \in Judged
    OBVIOUS
  <2>3. QED
    BY <2>1, <2>2
<1>5. ASSUME NEW rule \in Rules, NEW e \in Judged, InRange(e), FirstTrigger(rule, Judged, e, Start)
      PROVE  \E f \in findings : Report(f) = Finding(rule, Judged, e)
  <2>1. <<rule, e>> \in Rules \X Judged /\ Fires(rule, Judged, e)
    BY <1>5 DEF FirstTrigger
  <2>2. PICK f \in findings : f.identity = Identity(rule, e)
    BY <1>3, <1>5, <2>1 DEF Matches
  <2>3. PICK rule2 \in Rules, e2 \in Judged :
          /\ InRange(e2) /\ FirstTrigger(rule2, Judged, e2, Start)
          /\ Report(f) = Finding(rule2, Judged, e2)
    BY <1>4
  <2>4. Identity(rule2, e2) = Identity(rule, e)
    BY <2>2, <2>3 DEF Report, Finding
  <2>5. rule2 = rule
    BY <2>4 DEF Identity
  <2>6. ~ Before(e2, e) /\ ~ Before(e, e2)
    BY <1>5, <2>3, <2>4, <2>5 DEF FirstTrigger, InRange
  <2>7. e2 = e
    BY <1>1, <2>6, BeforeIsStrict
  <2>8. QED
    BY <2>3, <2>5, <2>7
<1>6. \A x : x \in Findings(Judged, Start, End)
               <=> \E rule \in Rules, e \in Judged :
                     /\ InRange(e) /\ FirstTrigger(rule, Judged, e, Start)
                     /\ x = Finding(rule, Judged, e)
  BY DEF Findings, InRange
<1>7. QED
  BY <1>4, <1>5, <1>6

\* The loop finds what the rules say (FindsWhatTheRulesSay): when evaluate returns, its
\* findings are the first triggers of each rule and identity among all the logons it was
\* given, with their count and times, whatever the queues dropped on the way.
THEOREM RulesFound == Spec => []FindsWhatTheRulesSay
BY LoopHolds, AllFound, PTL

-------------------------------------------------------------------------------
(***************************************************************************)
(* Evidence.                                                               *)
(***************************************************************************)
UsersOf(A) == {f.user : f \in A}

\* A sequence without repetitions has as many elements as places.
LEMMA DistinctCounts ==
  ASSUME NEW S, NEW seq \in Seq(S), \A i, j \in DOMAIN seq : seq[i] = seq[j] => i = j
  PROVE  /\ IsFiniteSet(Elements(seq))
         /\ Cardinality(Elements(seq)) = Len(seq)
<1> DEFINE n == Len(seq)
<1>1. n \in Nat /\ DOMAIN seq = 1..n
  OBVIOUS
<1>2. seq \in Bijection(1..n, Elements(seq))
  <2>1. seq \in [1..n -> Elements(seq)]
    BY <1>1 DEF Elements
  <2>2. QED
    BY <1>1, <2>1 DEF Bijection, Injection, IsInjective, Surjection, Elements
<1> HIDE DEF n
<1>3. IsFiniteSet(1..n) /\ Cardinality(1..n) = n
  BY <1>1, FS_Interval
<1>4. ExistsBijection(1..n, Elements(seq))
  BY <1>2 DEF ExistsBijection
<1>5. IsFiniteSet(Elements(seq)) /\ Cardinality(Elements(seq)) = n
  BY <1>3, <1>4, FS_Bijection
<1>6. QED
  BY <1>5 DEF n

\* The oldest n of a sequence, or all of them.
LEMMA TakeIsHead ==
  ASSUME NEW S, NEW seq \in Seq(S), NEW n \in Nat
  PROVE  LET head == Take(seq, n)
             length == IF n < Len(seq) THEN n ELSE Len(seq)
         IN  /\ head \in Seq(S) /\ Len(head) = length /\ DOMAIN head = 1..length
             /\ \A i \in 1..length : i \in DOMAIN seq /\ head[i] = seq[i]
<1> DEFINE length == IF n < Len(seq) THEN n ELSE Len(seq)
<1>1. /\ Len(seq) \in Nat /\ length \in Nat /\ DOMAIN seq = 1..Len(seq)
      /\ length <= Len(seq) /\ \A i \in 1..length : seq[i] \in S
  OBVIOUS
<1>2. Take(seq, n) = SubSeq(seq, 1, length)
  BY DEF Take
<1> HIDE DEF length
<1>3. /\ SubSeq(seq, 1, length) \in Seq(S)
      /\ Len(SubSeq(seq, 1, length)) = (IF 1 <= length THEN length - 1 + 1 ELSE 0)
      /\ \A i \in 1..(length - 1 + 1) : SubSeq(seq, 1, length)[i] = seq[1 + i - 1]
  BY <1>1, SubSeqProperties
<1>4. /\ Take(seq, n) \in Seq(S) /\ Len(Take(seq, n)) = length
      /\ \A i \in 1..length : i \in DOMAIN seq /\ Take(seq, n)[i] = seq[i]
  BY <1>1, <1>2, <1>3
<1>5. DOMAIN Take(seq, n) = 1..length
  BY <1>4
<1>6. QED
  BY <1>4, <1>5 DEF length

\* The order of places.
Less == {p \in Nat \X Nat : p[1] < p[2]}
\* Less orders the places of a sequence.
LEMMA LessIsOrder ==
  ASSUME NEW T \in SUBSET Nat
  PROVE  IsOrder(T, Less) /\ \A i, j \in T : <<i, j>> \in Less <=> i < j
BY DEF IsOrder, Less

\* Among any places of a sequence there is a first one.
LEMMA FirstPlace ==
  ASSUME NEW n \in Nat, NEW T \in SUBSET (1..n), T # {}
  PROVE  \E i \in T : \A j \in T : i <= j
<1> DEFINE list == Listed(T, Less)
<1>1. IsFiniteSet(T) /\ T \subseteq Nat
  <2>1. IsFiniteSet(1..n)
    BY FS_Interval
  <2>2. IsFiniteSet(T)
    BY <2>1, FS_Subset
  <2>3. QED
    BY <2>2
<1>2. /\ list \in Seq(T) /\ Elements(list) = T
      /\ \A i, j \in DOMAIN list : i < j => <<list[i], list[j]>> \in Less
  BY <1>1, LessIsOrder, ListedInOrder
<1> HIDE DEF list
<1>3. 1 \in DOMAIN list /\ list[1] \in T /\ DOMAIN list = 1..Len(list) /\ Len(list) \in Nat
  BY <1>2 DEF Elements
<1>4. ASSUME NEW j \in T
      PROVE  list[1] <= j
  <2>1. PICK k \in DOMAIN list : j = list[k]
    BY <1>2 DEF Elements
  <2>2. k = 1 \/ 1 < k
    BY <1>3
  <2>3. CASE k = 1
    BY <1>1, <1>3, <2>1, <2>3
  <2>4. CASE 1 < k
    <3>1. <<list[1], j>> \in Less
      BY <1>2, <1>3, <2>1, <2>4
    <3>2. QED
      BY <3>1 DEF Less
  <2>5. QED
    BY <2>2, <2>3, <2>4
<1>5. QED
  BY <1>3, <1>4

Earlier(T, i) == {j \in T : j < i}

\* The representatives of a queue are one failure of each user.
LEMMA OnePerUser ==
  ASSUME NEW S, NEW queue \in Seq(S)
  PROVE  LET reps == Representatives(queue)
         IN  /\ reps \in Seq(S)
             /\ Elements(reps) \subseteq Elements(queue)
             /\ \A i, j \in DOMAIN reps : reps[i].user = reps[j].user => i = j
             /\ UsersOf(Elements(reps)) = UsersOf(Elements(queue))
<1> DEFINE isFirst == {i \in DOMAIN queue : \A j \in 1..(i - 1) : queue[j].user # queue[i].user}
           places == Listed(isFirst, Less)
           reps == Representatives(queue)
<1>1. /\ Len(queue) \in Nat /\ DOMAIN queue = 1..Len(queue)
      /\ isFirst \subseteq Nat /\ isFirst \subseteq DOMAIN queue
      /\ \A i \in DOMAIN queue : queue[i] \in S
  OBVIOUS
<1>2. \A i, j \in isFirst : queue[i].user = queue[j].user => i = j
  <2> SUFFICES ASSUME NEW i \in isFirst, NEW j \in isFirst, i < j
               PROVE  queue[i].user # queue[j].user
    BY <1>1
  <2>1. i \in 1..(j - 1)
    BY <1>1
  <2>2. QED
    BY <2>1
<1>3. ASSUME NEW k \in DOMAIN queue
      PROVE  \E i \in isFirst : queue[i].user = queue[k].user
  <2> DEFINE T == {i \in DOMAIN queue : queue[i].user = queue[k].user}
  <2>1. T \in SUBSET (1..Len(queue)) /\ T # {}
    BY <1>1
  <2>2. PICK i \in T : \A j \in T : i <= j
    <3> HIDE DEF T
    <3>1. QED
      BY <1>1, <2>1, FirstPlace
  <2>3. \A j \in 1..(i - 1) : j \in DOMAIN queue /\ ~ (i <= j)
    BY <1>1
  <2>4. i \in isFirst
    BY <2>2, <2>3
  <2>5. QED
    BY <2>4
<1>4. \A i \in isFirst : Earlier(isFirst, i) = Below(isFirst, Less, i)
  BY <1>1 DEF Earlier, Below, Less
<1>5. reps = [n \in 1..Cardinality(isFirst) |->
                queue[CHOOSE i \in isFirst : Cardinality(Earlier(isFirst, i)) = n - 1]]
  BY Zenon DEF Representatives, Earlier
<1>6. IsFiniteSet(isFirst)
  <2> DEFINE n == Len(queue)
  <2>1. n \in Nat /\ isFirst \in SUBSET (1..n)
    BY <1>1
  <2> HIDE DEF n, isFirst
  <2>2. IsFiniteSet(1..n)
    BY <2>1, FS_Interval
  <2>3. QED
    BY <2>1, <2>2, FS_Subset
<1> HIDE DEF isFirst, reps
<1>7. /\ places \in Seq(isFirst) /\ Len(places) = Cardinality(isFirst)
      /\ \A i, j \in DOMAIN places : i < j => <<places[i], places[j]>> \in Less
      /\ Elements(places) = isFirst
  BY <1>1, <1>6, LessIsOrder, ListedInOrder
<1>8. reps = [n \in 1..Cardinality(isFirst) |-> queue[places[n]]]
  <2> DEFINE chosen(n) == CHOOSE i \in isFirst : Cardinality(Earlier(isFirst, i)) = n - 1
  <2>1. \A n \in 1..Cardinality(isFirst) : places[n] = chosen(n)
    BY <1>4 DEF Listed
  <2>2. reps = [n \in 1..Cardinality(isFirst) |-> queue[chosen(n)]]
    BY <1>5, Zenon
  <2> HIDE DEF places, chosen
  <2>3. QED
    BY <2>1, <2>2
<1> HIDE DEF places
<1>9. /\ DOMAIN places = 1..Len(places) /\ Len(places) \in Nat
      /\ \A n \in DOMAIN places : places[n] \in isFirst /\ places[n] \in Nat
  <2>1. places \in Seq(isFirst)
    BY <1>7
  <2>2. DOMAIN places = 1..Len(places) /\ Len(places) \in Nat
    BY <2>1
  <2>3. \A n \in DOMAIN places : places[n] \in isFirst
    BY <2>1
  <2>4. QED
    BY <1>1, <2>2, <2>3
<1>10. /\ DOMAIN reps = DOMAIN places /\ reps \in Seq(S)
       /\ \A n \in DOMAIN reps : reps[n] = queue[places[n]]
  <2>1. reps = [n \in 1..Len(places) |-> queue[places[n]]]
    BY <1>7, <1>8
  <2>2. /\ DOMAIN reps = 1..Len(places)
        /\ \A n \in 1..Len(places) : reps[n] = queue[places[n]]
    BY <2>1
  <2>3. \A n \in 1..Len(places) : queue[places[n]] \in S
    BY <1>1, <1>9
  <2>4. reps \in [1..Len(places) -> S]
    BY <2>1, <2>3
  <2>5. reps \in Seq(S)
    BY <1>9, <2>4
  <2>6. QED
    BY <1>9, <2>2, <2>5
<1>11. \A i, j \in DOMAIN places : places[i] = places[j] => i = j
  <2> SUFFICES ASSUME NEW i \in DOMAIN places, NEW j \in DOMAIN places, i < j
               PROVE  places[i] # places[j]
    BY <1>9
  <2>1. <<places[i], places[j]>> \in Less
    BY <1>7
  <2>2. QED
    BY <2>1 DEF Less
<1>12. \A i, j \in DOMAIN reps : reps[i].user = reps[j].user => i = j
  BY <1>2, <1>9, <1>10, <1>11
<1>13. Elements(reps) \subseteq Elements(queue)
  BY <1>1, <1>9, <1>10 DEF Elements
<1>14. ASSUME NEW k \in DOMAIN queue
       PROVE  \E n \in DOMAIN reps : reps[n].user = queue[k].user
  <2>1. PICK i \in isFirst : queue[i].user = queue[k].user
    BY <1>3
  <2>2. PICK n \in DOMAIN places : places[n] = i
    BY <1>7 DEF Elements
  <2>3. QED
    BY <1>10, <2>1, <2>2
<1>15. UsersOf(Elements(reps)) = UsersOf(Elements(queue))
  BY <1>13, <1>14 DEF UsersOf, Elements
<1>16. QED
  BY <1>10, <1>12, <1>13, <1>15 DEF reps

\* The first failures of a sorted queue, as many as are earlier than t, are those.
LEMMA HeadIsEarlier ==
  ASSUME NEW S, Comparable(S), NEW seq \in Seq(S), IsSorted(seq), NEW t \in Int,
         NEW C, C = {f \in Elements(seq) : f.time < t},
         NEW i \in DOMAIN seq, i <= Cardinality(C)
  PROVE  seq[i] \in C
<1> SUFFICES ASSUME seq[i] \notin C PROVE FALSE
  OBVIOUS
<1> DEFINE n == Len(seq)
           head == SubSeq(seq, 1, i - 1)
<1>1. /\ n \in Nat /\ DOMAIN seq = 1..n /\ i \in 1..n /\ i - 1 \in 0..n /\ 1 \in 1..(n + 1)
      /\ \A j \in DOMAIN seq : seq[j] \in S /\ seq[j].time \in Int
  BY DEF Comparable
<1>2. ~ (seq[i].time < t)
  BY DEF Elements
<1>3. ASSUME NEW j \in DOMAIN seq, seq[j].time < t
      PROVE  j \in 1..(i - 1)
  <2>1. j # i
    BY <1>2, <1>3
  <2>2. ~ (i < j)
    BY <1>1, <1>2, <1>3 DEF IsSorted, Before
  <2>3. QED
    BY <1>1, <2>1, <2>2
<1>4. /\ head \in Seq(S) /\ IsSorted(head) /\ Len(head) = i - 1
      /\ Elements(head) = {seq[j] : j \in 1..(i - 1)}
  <2>1. /\ head \in Seq(S) /\ IsSorted(head)
        /\ Len(head) = (IF 1 <= i - 1 THEN i - 1 - 1 + 1 ELSE 0)
        /\ Elements(head) = {seq[j] : j \in 1..(i - 1)}
    <3> HIDE DEF head
    <3>1. i - 1 \in 0..Len(seq) /\ 1 \in 1..(Len(seq) + 1)
      BY <1>1
    <3> DEFINE last == i - 1
    <3> HIDE DEF last
    <3>2. last \in 0..Len(seq)
      BY <3>1 DEF last
    <3>3. /\ SubSeq(seq, 1, last) \in Seq(S) /\ IsSorted(SubSeq(seq, 1, last))
          /\ Len(SubSeq(seq, 1, last)) = (IF 1 <= last THEN last - 1 + 1 ELSE 0)
          /\ Elements(SubSeq(seq, 1, last)) = {seq[j] : j \in 1..last}
      BY <3>1, <3>2, PartIsSorted
    <3>4. QED
      BY <3>3 DEF last, head
  <2>2. QED
    BY <1>1, <2>1
<1> HIDE DEF n, head
<1>5. IsFiniteSet(Elements(head)) /\ Cardinality(Elements(head)) = i - 1
  BY <1>4, SortedCounts
<1>6. C \subseteq Elements(head)
  BY <1>3, <1>4 DEF Elements
<1>7. IsFiniteSet(C) /\ Cardinality(C) <= Cardinality(Elements(head))
  BY <1>5, <1>6, FS_Subset
<1>8. Cardinality(C) \in Nat
  BY <1>7, FS_CardinalityType
<1>9. QED
  BY <1>1, <1>5, <1>7, <1>8

\* What EvidenceSupportsFinding says of one finding, whose rule counted C.
Supports(rule, C, trigger, count, evidence) ==
  LET shown == Elements(evidence)
  IN  /\ trigger \in shown
      /\ shown \subseteq C \cup {trigger}
      /\ Cardinality(shown) = Len(evidence)
      /\ Len(evidence) <= EvidenceLimit
      /\ count <= Len(evidence) => shown = C \cup {trigger}
      /\ rule = "password_spray" =>
           Cardinality(UsersOf(shown)) >=
             (IF Cardinality(UsersOf(C)) < EvidenceLimit
              THEN Cardinality(UsersOf(C)) ELSE EvidenceLimit - 1)

\* A sample of the counted failures, with its trigger, supports the finding.
LEMMA SampleSupports ==
  ASSUME NEW S, NEW sample \in Seq(S), \A i, j \in DOMAIN sample : sample[i] = sample[j] => i = j,
         NEW C, Elements(sample) \subseteq C, NEW e \in S, Len(sample) < EvidenceLimit,
         NEW count, IsFiniteSet(C), Cardinality(C \cup {e}) = count,
         NEW rule,
         rule = "password_spray" =>
           Cardinality(UsersOf(Elements(sample))) =
             (IF Cardinality(UsersOf(C)) < EvidenceLimit
              THEN Cardinality(UsersOf(C)) ELSE EvidenceLimit - 1)
  PROVE  Supports(rule, C, e, count, IF \E i \in DOMAIN sample : sample[i] = e
                                     THEN sample ELSE Append(sample, e))
<1> DEFINE evidence == IF \E i \in DOMAIN sample : sample[i] = e THEN sample ELSE Append(sample, e)
           shown == Elements(evidence)
<1>1. Len(sample) \in Nat /\ DOMAIN sample = 1..Len(sample) /\ EvidenceLimit \in Nat
  BY LimitsAssumption
<1>2. /\ evidence \in Seq(S) /\ Len(evidence) <= EvidenceLimit
      /\ shown = Elements(sample) \cup {e}
      /\ \A i, j \in DOMAIN evidence : evidence[i] = evidence[j] => i = j
  <2>1. CASE \E i \in DOMAIN sample : sample[i] = e
    BY <1>1, <2>1 DEF Elements
  <2>2. CASE ~ \E i \in DOMAIN sample : sample[i] = e
    <3>1. evidence = Append(sample, e)
      BY <2>2
    <3> HIDE DEF evidence
    <3>2. /\ evidence \in Seq(S) /\ Len(evidence) = Len(sample) + 1
          /\ DOMAIN evidence = 1..(Len(sample) + 1)
          /\ evidence[Len(sample) + 1] = e
          /\ \A i \in DOMAIN sample : evidence[i] = sample[i]
      BY <1>1, <3>1
    <3>3. \A i \in DOMAIN evidence : i \in DOMAIN sample \/ i = Len(sample) + 1
      BY <1>1, <3>2
    <3>4. DOMAIN sample \subseteq DOMAIN evidence /\ Len(sample) + 1 \in DOMAIN evidence
      BY <1>1, <3>2
    <3>5. shown = Elements(sample) \cup {e}
      BY <3>2, <3>3, <3>4 DEF Elements
    <3>6. \A i, j \in DOMAIN evidence : evidence[i] = evidence[j] => i = j
      BY <2>2, <3>2, <3>3
    <3>7. Len(evidence) <= EvidenceLimit
      BY <1>1, <3>2
    <3>8. QED
      BY <3>2, <3>5, <3>6, <3>7
  <2>3. QED
    BY <2>1, <2>2
<1> HIDE DEF evidence
<1>3. IsFiniteSet(shown) /\ Cardinality(shown) = Len(evidence) /\ Len(evidence) \in Nat
  <2>1. IsFiniteSet(Elements(evidence)) /\ Cardinality(Elements(evidence)) = Len(evidence)
    BY <1>2, DistinctCounts
  <2>2. Len(evidence) \in Nat
    BY <1>2
  <2>3. QED
    BY <2>1, <2>2
<1>4. IsFiniteSet(C \cup {e}) /\ count \in Nat
  BY FS_AddElement, FS_CardinalityType
<1>5. shown \subseteq C \cup {e} /\ e \in shown
  BY <1>2
<1> HIDE DEF shown
<1>6. /\ Cardinality(shown) <= Cardinality(C \cup {e})
      /\ Cardinality(shown) = Cardinality(C \cup {e}) => shown = C \cup {e}
  BY <1>4, <1>5, FS_Subset
<1>7. count <= Len(evidence) => shown = C \cup {e}
  BY <1>3, <1>4, <1>6
<1>8. ASSUME rule = "password_spray"
      PROVE  Cardinality(UsersOf(shown)) >= Cardinality(UsersOf(Elements(sample)))
  <2>1. IsFiniteSet(UsersOf(shown))
    <3> DEFINE user == [f \in shown |-> f.user]
    <3>1. user \in Surjection(shown, UsersOf(shown))
      BY DEF Surjection, UsersOf
    <3> HIDE DEF user
    <3>2. QED
      BY <1>3, <3>1, FS_Surjection
  <2>2. UsersOf(Elements(sample)) \subseteq UsersOf(shown)
    BY <1>2 DEF UsersOf, shown
  <2>3. /\ IsFiniteSet(UsersOf(Elements(sample)))
        /\ Cardinality(UsersOf(Elements(sample))) <= Cardinality(UsersOf(shown))
    BY <2>1, <2>2, FS_Subset
  <2>4. Cardinality(UsersOf(Elements(sample))) \in Nat /\ Cardinality(UsersOf(shown)) \in Nat
    BY <2>1, <2>3, FS_CardinalityType
  <2>5. QED
    BY <2>3, <2>4
<1>9. Supports(rule, C, e, count, evidence)
  <2>1. rule = "password_spray" =>
          Cardinality(UsersOf(shown)) >=
            (IF Cardinality(UsersOf(C)) < EvidenceLimit
             THEN Cardinality(UsersOf(C)) ELSE EvidenceLimit - 1)
    BY <1>8
  <2>2. QED
    BY <1>2, <1>3, <1>5, <1>7, <2>1 DEF Supports, shown
<1>10. QED
  BY <1>9 DEF evidence

\* A sequence with one logon of each user has as many users as places.
LEMMA UsersCount ==
  ASSUME NEW S, NEW seq \in Seq(S), \A i, j \in DOMAIN seq : seq[i].user = seq[j].user => i = j
  PROVE  Cardinality(UsersOf(Elements(seq))) = Len(seq)
<1> DEFINE names == [i \in 1..Len(seq) |-> seq[i].user]
<1>1. Len(seq) \in Nat /\ DOMAIN seq = 1..Len(seq)
  OBVIOUS
<1>2. /\ names \in Seq({seq[i].user : i \in DOMAIN seq}) /\ Len(names) = Len(seq)
      /\ DOMAIN names = DOMAIN seq
      /\ \A i \in DOMAIN names : names[i] = seq[i].user
  BY <1>1
<1> HIDE DEF names
<1>3. \A i, j \in DOMAIN names : names[i] = names[j] => i = j
  BY <1>2
<1>4. Cardinality(Elements(names)) = Len(names)
  BY <1>2, <1>3, DistinctCounts
<1>5. Elements(names) = UsersOf(Elements(seq))
  BY <1>2 DEF Elements, UsersOf
<1>6. QED
  BY <1>2, <1>4, <1>5

\* The oldest of a sorted queue are none twice.
LEMMA HeadOfSorted ==
  ASSUME NEW S, Comparable(S), NEW queue \in Seq(S), IsSorted(queue), NEW n \in Nat
  PROVE  /\ Take(queue, n) \in Seq(S) /\ Len(Take(queue, n)) <= n
         /\ DOMAIN Take(queue, n) = 1..Len(Take(queue, n))
         /\ \A i \in DOMAIN Take(queue, n) : i \in DOMAIN queue /\ Take(queue, n)[i] = queue[i]
         /\ \A i, j \in DOMAIN Take(queue, n) : Take(queue, n)[i] = Take(queue, n)[j] => i = j
<1> DEFINE head == Take(queue, n)
           length == IF n < Len(queue) THEN n ELSE Len(queue)
<1>1. length \in Nat /\ length <= n /\ \A i \in DOMAIN queue : queue[i] \in S /\ i \in Nat
  OBVIOUS
<1> HIDE DEF length
<1>2. /\ head \in Seq(S) /\ Len(head) = length /\ DOMAIN head = 1..length
      /\ \A i \in 1..length : i \in DOMAIN queue /\ head[i] = queue[i]
  BY TakeIsHead DEF length
<1> HIDE DEF head
<1>3. \A i, j \in DOMAIN queue : queue[i] = queue[j] => ~ (i < j)
  BY <1>1, BeforeIsStrict DEF IsSorted
<1>4. \A i, j \in DOMAIN head : head[i] = head[j] => i = j
  BY <1>1, <1>2, <1>3
<1>5. QED
  BY <1>1, <1>2, <1>4 DEF head

\* The sample of the failures of one user, when the trigger is one of them.
LEMMA RepeatedSample ==
  ASSUME NEW S, Comparable(S), NEW queue \in Seq(S), IsSorted(queue),
         NEW e \in Elements(queue), e.status = 2
  PROVE  Supports("repeated_failures", Elements(queue), e, Len(queue),
                  Sample("repeated_failures", e, queue, Len(queue)))
<1> DEFINE n == IF Len(queue) < EvidenceLimit THEN Len(queue) ELSE EvidenceLimit - 1
           sample == Take(queue, n)
           C == Elements(queue)
           rule == "repeated_failures"
<1>1. n \in Nat /\ n < EvidenceLimit /\ EvidenceLimit \in Nat
  BY LimitsAssumption
<1>2. Sample(rule, e, queue, Len(queue)) = IF \E i \in DOMAIN sample : sample[i] = e
                                           THEN sample ELSE Append(sample, e)
  <2>1. Len(queue) - 0 = Len(queue)
    OBVIOUS
  <2>2. QED
    BY <2>1 DEF Sample
<1>3. IsFiniteSet(C) /\ Cardinality(C) = Len(queue) /\ C \subseteq S /\ C \cup {e} = C
  BY SortedCounts
<1> HIDE DEF n, sample
<1>4. /\ sample \in Seq(S) /\ Len(sample) <= n
      /\ \A i \in DOMAIN sample : i \in DOMAIN queue /\ sample[i] = queue[i]
      /\ \A i, j \in DOMAIN sample : sample[i] = sample[j] => i = j
  BY <1>1, HeadOfSorted DEF sample
<1>5. Elements(sample) \subseteq C /\ Len(sample) < EvidenceLimit
  BY <1>1, <1>4 DEF Elements
<1>6. e \in S
  BY <1>3
<1> HIDE DEF C
<1>7. Supports(rule, C, e, Len(queue), IF \E i \in DOMAIN sample : sample[i] = e
                                       THEN sample ELSE Append(sample, e))
  BY <1>3, <1>4, <1>5, <1>6, SampleSupports
<1>8. QED
  BY <1>2, <1>7 DEF C

\* The sample of the failures of a scope: one of each user.
LEMMA SpraySample ==
  ASSUME NEW S, Comparable(S), NEW queue \in Seq(S), IsSorted(queue),
         NEW e \in Elements(queue)
  PROVE  Supports("password_spray", Elements(queue), e, Len(queue),
                  Sample("password_spray", e, queue, Len(queue)))
<1> DEFINE reps == Representatives(queue)
           n == EvidenceLimit - 1
           length == IF n < Len(reps) THEN n ELSE Len(reps)
           sample == Take(reps, n)
           C == Elements(queue)
           rule == "password_spray"
<1>1. n \in Nat /\ n < EvidenceLimit /\ EvidenceLimit \in Nat
  BY LimitsAssumption
<1>2. Sample(rule, e, queue, Len(queue)) = IF \E i \in DOMAIN sample : sample[i] = e
                                           THEN sample ELSE Append(sample, e)
  BY DEF Sample
<1>3. IsFiniteSet(C) /\ Cardinality(C) = Len(queue) /\ C \subseteq S /\ C \cup {e} = C
  BY SortedCounts
<1>4. /\ reps \in Seq(S) /\ Elements(reps) \subseteq C
      /\ \A i, j \in DOMAIN reps : reps[i].user = reps[j].user => i = j
      /\ UsersOf(Elements(reps)) = UsersOf(C)
  BY OnePerUser
<1> HIDE DEF reps, C, sample
<1>5. /\ sample \in Seq(S) /\ Len(sample) = length /\ DOMAIN sample = 1..length
      /\ \A i \in 1..length : i \in DOMAIN reps /\ sample[i] = reps[i]
  <2> HIDE DEF n
  <2>1. QED
    BY <1>1, <1>4, TakeIsHead DEF sample
<1>6. /\ Len(reps) \in Nat /\ length \in Nat /\ length <= n /\ length <= Len(reps)
      /\ Len(sample) < EvidenceLimit
  BY <1>1, <1>4, <1>5
<1> HIDE DEF length
<1>7. \A i, j \in DOMAIN sample : sample[i].user = sample[j].user => i = j
  BY <1>4, <1>5
<1>8. Elements(sample) \subseteq C
  BY <1>4, <1>5 DEF Elements
<1>9. Cardinality(UsersOf(C)) = Len(reps)
  BY <1>4, UsersCount
<1>10. Cardinality(UsersOf(Elements(sample))) = length
  BY <1>5, <1>7, UsersCount
<1>11. Cardinality(UsersOf(Elements(sample))) =
         (IF Cardinality(UsersOf(C)) < EvidenceLimit
          THEN Cardinality(UsersOf(C)) ELSE EvidenceLimit - 1)
  BY <1>1, <1>6, <1>9, <1>10 DEF length
<1>12. e \in S
  BY <1>3 DEF C
<1>13. Supports(rule, C, e, Len(queue), IF \E i \in DOMAIN sample : sample[i] = e
                                        THEN sample ELSE Append(sample, e))
  BY <1>3, <1>5, <1>6, <1>7, <1>8, <1>11, <1>12, SampleSupports
<1>14. QED
  BY <1>2, <1>13 DEF C

\* The sample of the failures of one user before a success.
LEMMA SuccessSample ==
  ASSUME NEW S, Comparable(S), NEW queue \in Seq(S), IsSorted(queue), NEW e \in S, e.status = 1,
         NEW C, C = {f \in Elements(queue) : f.time < e.time},
         NEW count, count = Cardinality(C) + 1
  PROVE  Supports("success_after_failures", C, e, count,
                  Sample("success_after_failures", e, queue, count))
<1> DEFINE matching == Cardinality(C)
           n == IF matching < EvidenceLimit THEN matching ELSE EvidenceLimit - 1
           sample == Take(queue, n)
           rule == "success_after_failures"
<1>1. /\ IsFiniteSet(C) /\ matching \in Nat /\ e.time \in Int
      /\ e \notin C /\ Cardinality(C \cup {e}) = count
  <2>1. IsFiniteSet(Elements(queue)) /\ C \subseteq Elements(queue)
    BY SortedCounts
  <2>2. IsFiniteSet(C)
    BY <2>1, FS_Subset
  <2>3. e.time \in Int /\ ~ (e.time < e.time)
    BY DEF Comparable
  <2>4. QED
    BY <2>2, <2>3, FS_CardinalityType, FS_AddElement
<1>2. Sample(rule, e, queue, count) = IF \E i \in DOMAIN sample : sample[i] = e
                                      THEN sample ELSE Append(sample, e)
  <2>1. count - 1 = matching
    BY <1>1
  <2> HIDE DEF matching
  <2>2. QED
    BY <2>1 DEF Sample
<1>3. n \in Nat /\ n < EvidenceLimit /\ n <= matching /\ EvidenceLimit \in Nat
  BY <1>1, LimitsAssumption
<1> HIDE DEF n, sample
<1>4. /\ sample \in Seq(S) /\ Len(sample) <= n /\ Len(sample) \in Nat
      /\ DOMAIN sample = 1..Len(sample)
      /\ \A i \in DOMAIN sample : i \in DOMAIN queue /\ sample[i] = queue[i]
      /\ \A i, j \in DOMAIN sample : sample[i] = sample[j] => i = j
  BY <1>3, HeadOfSorted DEF sample
<1>5. ASSUME NEW i \in DOMAIN sample
      PROVE  sample[i] \in C
  <2>1. i \in DOMAIN queue /\ i <= matching
    BY <1>1, <1>3, <1>4
  <2>2. queue[i] \in C
    BY <1>1, <2>1, HeadIsEarlier
  <2>3. QED
    BY <1>4, <2>2
<1>6. Elements(sample) \subseteq C /\ Len(sample) < EvidenceLimit
  BY <1>3, <1>4, <1>5 DEF Elements
<1>7. Supports(rule, C, e, count, IF \E i \in DOMAIN sample : sample[i] = e
                                  THEN sample ELSE Append(sample, e))
  BY <1>1, <1>4, <1>6, SampleSupports
<1>8. QED
  BY <1>2, <1>7

\* Every finding has evidence that supports it.
Supported(found, S) ==
  \A f \in found : Supports(f.identity.rule, Counted(f.identity.rule, S, f.trigger),
                            f.trigger, f.count, f.evidence)

\* EvidenceSupportsFinding, finding by finding.
LEMMA SupportedFindings == Supported(findings, Judged) <=> EvidenceSupportsFinding
BY DEF Supported, Supports, EvidenceSupportsFinding, Judged, Elements, UsersOf

\* emit adds one finding with the sample of its rule.
LEMMA EmitSupports ==
  ASSUME NEW S, NEW found, Supported(found, S), NEW rule, NEW e, NEW queue, NEW count,
         Supports(rule, Counted(rule, S, e), e, count, Sample(rule, e, queue, count))
  PROVE  Supported(Emit(found, rule, e, queue, count), S)
<1> DEFINE id == Identity(rule, e)
           sample == Sample(rule, e, queue, count)
           f0 == [identity |-> id, count |-> count, first |-> queue[1].time, last |-> e.time,
                  trigger |-> e, evidence |-> sample]
<1>1. Emit(found, rule, e, queue, count) = found \/
      Emit(found, rule, e, queue, count) = found \cup {f0}
  BY DEF Emit
<1>2. id.rule = rule
  BY DEF Identity
<1> HIDE DEF id, sample
<1>3. f0.identity.rule = rule /\ f0.trigger = e /\ f0.count = count /\ f0.evidence = sample
  BY <1>2
<1> HIDE DEF f0
<1>4. Supports(f0.identity.rule, Counted(f0.identity.rule, S, f0.trigger),
               f0.trigger, f0.count, f0.evidence)
  BY <1>3, Zenon DEF sample
<1>5. QED
  BY <1>1, <1>4 DEF Supported

\* What a failure finds is supported.
LEMMA FailureSupported ==
  ASSUME LoopInv, Supported(findings, Judged), NEW e, Failure(e)
  PROVE  Supported(findings', Judged)
<1> DEFINE purged == Purge(e)
           recent == [queue |-> Append(purged.queue, e),
                      byTime |-> [purged.byTime EXCEPT ![e.time] = @ + 1],
                      all |-> Append(purged.all, e),
                      byUser |-> [purged.byUser EXCEPT ![e.user] = @ + 1]]
           repeated == IF Len(recent.queue) >= FailureThreshold
                       THEN Emit(findings, "repeated_failures", e, recent.queue, Len(recent.queue))
                       ELSE findings
           spray == IF Cardinality({u \in Users : recent.byUser[u] > 0}) >= SprayThreshold
                    THEN Emit(repeated, "password_spray", e, recent.all, Len(recent.all))
                    ELSE repeated
<1>1. /\ Looking(e) /\ e.status = 2 /\ e.time < End
      /\ findings' = IF e.time < Start THEN findings ELSE spray
  BY DEF Failure
<1>2. ProgressInv /\ QueuesInv /\ CountersInv
  BY DEF LoopInv
<1>3. Holds(purged, PairWindow(e), ScopeWindow(e))
  BY <1>1, <1>2, PurgeStep
<1>4. Holds(recent, PairWindow(e) \cup {e}, ScopeWindow(e) \cup {e})
  <2> HIDE DEF purged
  <2>1. QED
    BY <1>1, <1>2, <1>3, AppendStep
<1> HIDE DEF recent
<1>5. Comparable(Judged)
  BY <1>1, <1>2, JudgedBehind
<1>6. /\ recent.queue \in Seq(Judged) /\ IsSorted(recent.queue)
      /\ Elements(recent.queue) = PairWindow(e) \cup {e}
      /\ recent.all \in Seq(Judged) /\ IsSorted(recent.all)
      /\ Elements(recent.all) = ScopeWindow(e) \cup {e}
  BY <1>4 DEF Holds
<1>7. CASE e.time < Start
  BY <1>1, <1>7
<1>8. CASE ~ (e.time < Start)
  <2>1. InRange(e)
    BY <1>1, <1>2, <1>8, JudgedBehind, RangeAssumption DEF InRange, Comparable
  <2>2. /\ Counted("repeated_failures", Judged, e) = Elements(recent.queue)
        /\ Counted("password_spray", Judged, e) = Elements(recent.all)
    <3>1. {f \in {e} : f.status = 2} = {e}
      BY <1>1
    <3>2. QED
      BY <1>1, <1>2, <1>6, <2>1, <3>1, CountedAreHeld
  <2>3. e \in Elements(recent.queue) /\ e \in Elements(recent.all)
    BY <1>6
  <2>4. Supported(repeated, Judged)
    <3>1. Supports("repeated_failures", Elements(recent.queue), e, Len(recent.queue),
                   Sample("repeated_failures", e, recent.queue, Len(recent.queue)))
      BY <1>1, <1>5, <1>6, <2>3, RepeatedSample
    <3>2. QED
      BY <2>2, <3>1, EmitSupports
  <2> HIDE DEF repeated
  <2>5. Supported(spray, Judged)
    <3>1. Supports("password_spray", Elements(recent.all), e, Len(recent.all),
                   Sample("password_spray", e, recent.all, Len(recent.all)))
      BY <1>5, <1>6, <2>3, SpraySample
    <3>2. QED
      BY <2>2, <2>4, <3>1, EmitSupports
  <2>6. QED
    BY <1>1, <1>8, <2>5
<1>9. QED
  BY <1>7, <1>8

\* What a success finds is supported.
LEMMA SuccessSupported ==
  ASSUME LoopInv, Supported(findings, Judged), NEW e, Success(e)
  PROVE  Supported(findings', Judged)
<1> DEFINE recent == Purge(e)
           earlier == Len(recent.queue) - recent.byTime[e.time]
           found == Emit(findings, "success_after_failures", e, recent.queue, earlier + 1)
           C == Counted("success_after_failures", Judged, e)
<1>1. /\ Looking(e) /\ e.status = 1 /\ e.time < End
      /\ findings' = IF e.time >= Start /\ earlier >= FailureThreshold THEN found ELSE findings
  BY DEF Success
<1>2. ProgressInv /\ QueuesInv /\ CountersInv
  BY DEF LoopInv
<1>3. Holds(recent, PairWindow(e), ScopeWindow(e))
  BY <1>1, <1>2, PurgeStep
<1> HIDE DEF recent
<1>4. Comparable(Judged) /\ e \in Judged
  BY <1>1, <1>2, JudgedBehind
<1>5. /\ recent.queue \in Seq(Judged) /\ IsSorted(recent.queue)
      /\ Elements(recent.queue) = PairWindow(e)
  BY <1>3 DEF Holds
<1>6. CASE ~ (e.time >= Start)
  BY <1>1, <1>6
<1>7. CASE e.time >= Start
  <2>1. InRange(e)
    BY <1>1, <1>2, <1>7, JudgedBehind, RangeAssumption DEF InRange, Comparable
  <2>2. C = {f \in Elements(recent.queue) : f.time < e.time}
    <3> DEFINE new == {f \in {e} : f.status = 2}
    <3>1. C = {f \in PairWindow(e) \cup new : f.time < e.time}
      BY <1>1, <1>2, <2>1, CountedAreHeld
    <3>2. new = {}
      BY <1>1
    <3> HIDE DEF new
    <3>3. QED
      BY <1>5, <3>1, <3>2
  <2>3. earlier + 1 = Cardinality(C) + 1
    <3>1. earlier + 1 = Finding("success_after_failures", Judged, e).count
      BY <1>1, <1>2, <1>3, <2>1, SuccessJudged
    <3>2. QED
      BY <1>1, <3>1, FindingCount
  <2> HIDE DEF C, earlier
  <2>4. Supports("success_after_failures", C, e, earlier + 1,
                 Sample("success_after_failures", e, recent.queue, earlier + 1))
    BY <1>1, <1>4, <1>5, <2>2, <2>3, SuccessSample
  <2>5. Supported(found, Judged)
    BY <2>4, EmitSupports DEF C
  <2>6. QED
    BY <1>1, <2>5
<1>8. QED
  BY <1>6, <1>7

\* The evidence of a finding was sampled when its trigger was looked at and stays with it;
\* what the rule counted for that trigger does not change.
LEMMA SupportedStep == LoopInv /\ Supported(findings, Judged) /\ [Next]_vars => Supported(findings, Judged)'
<1> SUFFICES ASSUME LoopInv, Supported(findings, Judged), [Next]_vars
             PROVE  Supported(findings', Judged')
  BY DEF Supported
<1>1. Judged' = Judged
  <2>1. input' = input
    BY DEF Next, Looking, Skip, Failure, Success, RefuseInput, Finish, vars, queues
  <2>2. QED
    BY <2>1 DEF Judged, Eligible
<1>2. Supported(findings', Judged)
  <2>1. CASE findings' = findings
    BY <2>1
  <2>2. ASSUME NEW e \in input, Failure(e) \/ Success(e)
        PROVE  Supported(findings', Judged)
    BY <2>2, FailureSupported, SuccessSupported
  <2>3. QED
    BY <2>1, <2>2 DEF Next, Skip, RefuseInput, Finish, vars
<1>3. QED
  BY <1>1, <1>2

\* The evidence supports its finding (EvidenceSupportsFinding): whatever the limit, it is the
\* trigger and failures the rule counted, none twice; all of them when the count says so; and
\* the evidence of a spray shows as many of the users as fit beside the trigger.
THEOREM EvidenceSupports == Spec => []EvidenceSupportsFinding
<1>1. Init => LoopInv /\ Supported(findings, Judged)
  BY LoopInit DEF Init, Supported
<1>2. LoopInv /\ Supported(findings, Judged) /\ [Next]_vars => (LoopInv /\ Supported(findings, Judged))'
  BY LoopStep, SupportedStep
<1>3. LoopInv /\ Supported(findings, Judged) => EvidenceSupportsFinding
  BY SupportedFindings
<1>4. QED
  BY <1>1, <1>2, <1>3, PTL DEF Spec
===============================================================================
