--------------------------- MODULE RunPayloadProofs ---------------------------
(***************************************************************************)
(* Proofs about RunPayload, for documents of every length and any budget:  *)
(* every record is one event, the events are the stack traces, the budget  *)
(* is exact, and what the verdicts on the events promise.                  *)
(***************************************************************************)
EXTENDS RunPayload, FiniteSetTheorems, FunctionTheorems, SequenceTheorems,
        NaturalsInduction, WellFoundedInduction, TLAPS

(***************************************************************************)
(* The members of a finite set of numbers in their order.                  *)
(***************************************************************************)

\* A set of naturals that is not empty has a least element.
LEMMA LeastNatural ==
  ASSUME NEW T \in SUBSET Nat, T # {}
  PROVE  \E m \in T : \A k \in T : m <= k
<1>1. \E m \in T : \A k \in T : <<k, m>> \notin OpToRel(<, Nat)
  BY NatLessThanWellFounded, WFMin
<1>2. PICK m \in T : \A k \in T : <<k, m>> \notin OpToRel(<, Nat)
  BY <1>1
<1>3. \A k \in T : ~ (k < m)
  BY <1>2 DEF OpToRel
<1> QED BY <1>3

Below(S, i) == {j \in S : j < i}

\* A larger member has more members below it.
LEMMA Ranks ==
  ASSUME NEW S \in SUBSET Nat, IsFiniteSet(S)
  PROVE  /\ Cardinality(S) \in Nat
         /\ \A i \in S : Cardinality(Below(S, i)) \in 0..(Cardinality(S) - 1)
         /\ \A i, j \in S : i < j => Cardinality(Below(S, i)) < Cardinality(Below(S, j))
<1>1. Cardinality(S) \in Nat
  BY FS_CardinalityType
<1>2. ASSUME NEW T \in SUBSET S, NEW i \in T
      PROVE  /\ Below(S, i) \subseteq T => Cardinality(Below(S, i)) < Cardinality(T)
             /\ Cardinality(T) \in Nat /\ Cardinality(Below(S, i)) \in Nat
             /\ Cardinality(T) <= Cardinality(S)
  <2>1. IsFiniteSet(T) /\ Cardinality(T) \in Nat /\ Cardinality(T) <= Cardinality(S)
    BY FS_Subset, FS_CardinalityType
  <2>2. IsFiniteSet(Below(S, i)) /\ Cardinality(Below(S, i)) \in Nat
    BY FS_Subset, FS_CardinalityType DEF Below
  <2>3. Below(S, i) \subseteq T => Cardinality(Below(S, i)) <= Cardinality(T)
    BY <2>1, FS_Subset
  <2>4. ~ (i \in Below(S, i))
    BY DEF Below
  <2>5. Below(S, i) \subseteq T /\ Cardinality(Below(S, i)) = Cardinality(T) => Below(S, i) = T
    BY <2>1, FS_Subset
  <2> QED BY <2>1, <2>2, <2>3, <2>4, <2>5
<1>3. ASSUME NEW i \in S
      PROVE  Cardinality(Below(S, i)) \in 0..(Cardinality(S) - 1)
  <2>1. Below(S, i) \subseteq S
    BY DEF Below
  <2> QED BY <1>1, <1>2, <2>1
<1>4. ASSUME NEW i \in S, NEW j \in S, i < j
      PROVE  Cardinality(Below(S, i)) < Cardinality(Below(S, j))
  <2>1. \A x \in S : x < i => x < j
    BY <1>4
  <2>2. Below(S, i) \subseteq Below(S, j) /\ i \in Below(S, j) /\ Below(S, j) \in SUBSET S
    BY <1>4, <2>1 DEF Below
  <2> QED BY <1>2, <2>2
<1> QED BY <1>1, <1>3, <1>4

\* InOrder enumerates a set of numbers, the smaller before the larger.
LEMMA Ordered ==
  ASSUME NEW S \in SUBSET Nat, IsFiniteSet(S)
  PROVE  /\ Cardinality(S) \in Nat
         /\ DOMAIN InOrder(S) = 1..Cardinality(S)
         /\ \A k \in 1..Cardinality(S) : /\ InOrder(S)[k] \in S
                                         /\ Cardinality(Below(S, InOrder(S)[k])) = k - 1
         /\ \A i \in S : \E k \in 1..Cardinality(S) : InOrder(S)[k] = i
         /\ \A k, l \in 1..Cardinality(S) : k < l => InOrder(S)[k] < InOrder(S)[l]
<1> DEFINE n == Cardinality(S)
           Rank == [i \in S |-> Cardinality(Below(S, i))]
<1>1. n \in Nat /\ Rank \in [S -> 0..(n - 1)]
  BY Ranks
<1>2. \A i, j \in S : i < j => Rank[i] < Rank[j]
  BY Ranks
<1>3. \A i, j \in S : Rank[i] = Rank[j] => i = j
  <2> SUFFICES ASSUME NEW i \in S, NEW j \in S, Rank[i] = Rank[j], i # j PROVE FALSE
    OBVIOUS
  <2>1. i < j \/ j < i
    OBVIOUS
  <2>2. Rank[i] \in Nat /\ Rank[j] \in Nat
    BY <1>1
  <2> QED BY <1>2, <2>1, <2>2
<1>4. Rank \in Surjection(S, 0..(n - 1))
  <2>1. Rank \in Injection(S, 0..(n - 1))
    BY <1>1, <1>3 DEF Injection, IsInjective
  <2>2. IsFiniteSet(0..(n - 1)) /\ Cardinality(0..(n - 1)) = n
    <3>1. PICK m \in Int : m = n - 1
      BY <1>1
    <3>2. IsFiniteSet(0..m) /\ Cardinality(0..m) = IF 0 > m THEN 0 ELSE m - 0 + 1
      BY FS_Interval
    <3> HIDE DEF n
    <3>3. m >= -1
      BY <1>1, <3>1
    <3>4. (IF 0 > m THEN 0 ELSE m - 0 + 1) = n
      BY <1>1, <3>1, <3>3
    <3> QED BY <3>1, <3>2, <3>4
  <2> QED BY <2>1, <2>2, FS_Injection
<1>5. \A r \in 0..(n - 1) : \E i \in S : Rank[i] = r
  BY <1>4 DEF Surjection
<1>6. ASSUME NEW k \in 1..n
      PROVE  InOrder(S)[k] \in S /\ Rank[InOrder(S)[k]] = k - 1
  <2>1. k - 1 \in 0..(n - 1)
    BY <1>1
  <2>2. \E i \in S : Cardinality({j \in S : j < i}) = k - 1
    BY <1>5, <2>1 DEF Below
  <2>3. InOrder(S)[k] = CHOOSE i \in S : Cardinality({j \in S : j < i}) = k - 1
    BY DEF InOrder
  <2>4. InOrder(S)[k] \in S /\ Cardinality({j \in S : j < InOrder(S)[k]}) = k - 1
    BY <2>2, <2>3
  <2> QED BY <2>4 DEF Below
<1>7. ASSUME NEW i \in S PROVE \E k \in 1..n : InOrder(S)[k] = i
  <2>1. Rank[i] \in 0..(n - 1)
    BY <1>1
  <2> HIDE DEF Rank, n
  <2>2. Rank[i] + 1 \in 1..n /\ Rank[i] + 1 - 1 = Rank[i]
    BY <1>1, <2>1
  <2> DEFINE k == Rank[i] + 1
  <2>3. k \in 1..n /\ k - 1 = Rank[i]
    BY <1>1, <2>1, <2>2
  <2> HIDE DEF k
  <2>4. InOrder(S)[k] \in S /\ Rank[InOrder(S)[k]] = k - 1
    BY <1>6, <2>3
  <2> QED BY <1>3, <2>3, <2>4
<1>8. ASSUME NEW k \in 1..n, NEW l \in 1..n, k < l
      PROVE  InOrder(S)[k] < InOrder(S)[l]
  <2> DEFINE a == InOrder(S)[k]  b == InOrder(S)[l]
  <2>1. a \in S /\ b \in S /\ Rank[a] = k - 1 /\ Rank[b] = l - 1
    BY <1>6
  <2>2. a # b
    BY <1>8, <2>1
  <2> HIDE DEF a, b, Rank
  <2>3. ~ (b < a)
    BY <1>1, <1>2, <1>8, <2>1
  <2>4. a < b
    BY <2>1, <2>2, <2>3
  <2> QED BY <2>4 DEF a, b
<1>9. DOMAIN InOrder(S) = 1..n
  BY DEF InOrder
<1>10. \A k \in 1..n : InOrder(S)[k] \in S /\ Cardinality(Below(S, InOrder(S)[k])) = k - 1
  BY <1>6
<1> QED BY <1>1, <1>7, <1>8, <1>9, <1>10

\* e enumerates S, the smaller before the larger.
Enumerates(e, n, S) ==
  /\ \A k \in 1..n : e[k] \in S
  /\ \A i \in S : \E k \in 1..n : e[k] = i
  /\ \A k, l \in 1..n : k < l => e[k] < e[l]

\* It is the only enumeration in order.
LEMMA OnlyOrder ==
  ASSUME NEW S \in SUBSET Nat, IsFiniteSet(S), NEW n \in Nat, NEW e, Enumerates(e, n, S)
  PROVE  n = Cardinality(S) /\ \A k \in 1..n : InOrder(S)[k] = e[k]
<1>1. ASSUME NEW m \in 0..n, NEW T, T = {e[k] : k \in 1..m}
      PROVE  Cardinality(T) = m
  <2> DEFINE f == [k \in 1..m |-> e[k]]
  <2>1. f \in [1..m -> T] /\ \A t \in T : \E k \in 1..m : f[k] = t
    BY <1>1
  <2>2. \A k, l \in 1..m : f[k] = f[l] => k = l
    <3> SUFFICES ASSUME NEW k \in 1..m, NEW l \in 1..m, e[k] = e[l], k # l PROVE FALSE
      OBVIOUS
    <3>1. k \in 1..n /\ l \in 1..n
      OBVIOUS
    <3>2. e[k] \in S /\ e[l] \in S /\ (k < l => e[k] < e[l]) /\ (l < k => e[l] < e[k])
      BY <3>1 DEF Enumerates
    <3>3. PICK a \in Nat : a = e[k]
      BY <3>2
    <3>4. k < l \/ l < k
      OBVIOUS
    <3>5. a < a
      BY <3>2, <3>3, <3>4
    <3> QED BY <3>5
  <2>3. f \in Bijection(1..m, T)
    BY <2>1, <2>2 DEF Bijection, Injection, Surjection, IsInjective
  <2>4. IsFiniteSet(1..m) /\ Cardinality(1..m) = m
    BY FS_Interval
  <2>5. ExistsBijection(1..m, T)
    BY <2>3 DEF ExistsBijection
  <2> QED BY <2>4, <2>5, FS_Bijection
<1>2. S = {e[k] : k \in 1..n}
  BY DEF Enumerates
<1>3. n = Cardinality(S)
  BY <1>1, <1>2
<1>4. ASSUME NEW k \in 1..n PROVE InOrder(S)[k] = e[k]
  <2>1. e[k] \in S /\ \A l \in 1..n : e[l] \in S
    BY DEF Enumerates
  <2>2. Below(S, e[k]) \subseteq {e[l] : l \in 1..(k - 1)}
    <3> SUFFICES ASSUME NEW x \in S, x < e[k] PROVE x \in {e[l] : l \in 1..(k - 1)}
      BY DEF Below
    <3>1. PICK l \in 1..n : e[l] = x
      BY DEF Enumerates
    <3>2. k < l => e[k] < x
      BY <3>1 DEF Enumerates
    <3>4. PICK a \in Nat, b \in Nat : a = x /\ b = e[k]
      BY <2>1
    <3>5. ~ (b < a) /\ a # b
      BY <3>4
    <3>6. l # k /\ ~ (k < l)
      BY <3>1, <3>2, <3>4, <3>5
    <3>3. l \in 1..(k - 1)
      BY <3>6
    <3> QED BY <3>1, <3>3
  <2>3. {e[l] : l \in 1..(k - 1)} \subseteq Below(S, e[k])
    <3> SUFFICES ASSUME NEW l \in 1..(k - 1) PROVE e[l] \in S /\ e[l] < e[k]
      BY DEF Below
    <3>1. l \in 1..n /\ l < k
      OBVIOUS
    <3> QED BY <3>1 DEF Enumerates
  <2>4. Cardinality(Below(S, e[k])) = k - 1
    <3>1. k - 1 \in 0..n /\ Below(S, e[k]) = {e[l] : l \in 1..(k - 1)}
      BY <2>2, <2>3
    <3> QED BY <1>1, <3>1
  <2>5. InOrder(S)[k] \in S /\ Cardinality(Below(S, InOrder(S)[k])) = k - 1
    BY <1>3, Ordered
  <2> DEFINE a == InOrder(S)[k]  b == e[k]
  <2>6. a \in S /\ b \in S /\ Cardinality(Below(S, a)) = Cardinality(Below(S, b))
    BY <2>1, <2>4, <2>5
  <2> HIDE DEF a, b
  <2>7. ~ (a < b) /\ ~ (b < a)
    BY <2>6, Ranks
  <2>8. a = b
    BY <2>6, <2>7
  <2> QED BY <2>8 DEF a, b
<1> QED BY <1>3, <1>4

-------------------------------------------------------------------------------
(***************************************************************************)
(* The loop over the lines.                                                *)
(***************************************************************************)

LinesOk ==
  /\ Len(lines) \in Nat /\ DOMAIN lines = 1..Len(lines)
  /\ \A i \in 1..Len(lines) :
       /\ lines[i].text \in BOOLEAN /\ lines[i].trails \in BOOLEAN /\ lines[i].head \in BOOLEAN
       /\ lines[i].head => lines[i].text

\* A stack trace is open before line n.
OpenBefore(n) ==
  \E j \in 1..(n - 1) :
    /\ lines[j].head
    /\ \A k \in (j + 1)..(n - 1) : lines[k].trails \/ ~ lines[k].text

LEMMA OpenNext ==
  ASSUME NEW n \in 1..Len(lines), Len(lines) \in Nat
  PROVE  OpenBefore(n + 1) <=> \/ lines[n].head
                               \/ OpenBefore(n) /\ (lines[n].trails \/ ~ lines[n].text)
<1> DEFINE Goes(k) == lines[k].trails \/ ~ lines[k].text
<1>1. n + 1 - 1 = n
  OBVIOUS
<1>2. OpenBefore(n + 1) <=> \E j \in 1..n : lines[j].head /\ \A k \in (j + 1)..n : Goes(k)
  BY <1>1 DEF OpenBefore
<1>3. OpenBefore(n) <=> \E j \in 1..(n - 1) : lines[j].head /\ \A k \in (j + 1)..(n - 1) : Goes(k)
  BY DEF OpenBefore
<1> HIDE DEF Goes
<1>4. ASSUME NEW j \in 1..n
      PROVE  j = n \/ (j \in 1..(n - 1) /\ n \in (j + 1)..n
                       /\ (j + 1)..n = (j + 1)..(n - 1) \cup {n})
  OBVIOUS
<1>5. ASSUME lines[n].head PROVE OpenBefore(n + 1)
  <2>1. n \in 1..n /\ (n + 1)..n = {}
    OBVIOUS
  <2> QED BY <1>2, <1>5, <2>1
<1>6. ASSUME OpenBefore(n), Goes(n) PROVE OpenBefore(n + 1)
  <2>1. PICK j \in 1..(n - 1) : lines[j].head /\ \A k \in (j + 1)..(n - 1) : Goes(k)
    BY <1>3, <1>6
  <2>2. j \in 1..n /\ (j + 1)..n = (j + 1)..(n - 1) \cup {n}
    OBVIOUS
  <2>3. \A k \in (j + 1)..n : Goes(k)
    BY <1>6, <2>1, <2>2
  <2> QED BY <1>2, <2>1, <2>2, <2>3
<1>7. ASSUME OpenBefore(n + 1), ~ lines[n].head PROVE OpenBefore(n) /\ Goes(n)
  <2>1. PICK j \in 1..n : lines[j].head /\ \A k \in (j + 1)..n : Goes(k)
    BY <1>2, <1>7
  <2>2. j \in 1..(n - 1) /\ n \in (j + 1)..n /\ (j + 1)..n = (j + 1)..(n - 1) \cup {n}
    BY <1>4, <1>7, <2>1
  <2> QED BY <1>3, <2>1, <2>2
<1>8. Goes(n) <=> (lines[n].trails \/ ~ lines[n].text)
  BY DEF Goes
<1> QED BY <1>5, <1>6, <1>7, <1>8

LEMMA InTraceIs ==
  ASSUME NEW n
  PROVE  Loop!InTrace(n) <=> lines[n].trails /\ OpenBefore(n)
BY DEF Loop!InTrace, OpenBefore

\* What the loop keeps of a logical event.
Parts == [offset : Nat, lines : Seq(Nat)]

\* The lines below n that belong to the event.
Covers(part, n) ==
  /\ Len(part.lines) # 0 /\ part.lines[1] = part.offset
  /\ \A p \in 1..Len(part.lines) :
       part.lines[p] \in Loop!Extent(part.offset) /\ part.lines[p] < n
  /\ \A k \in Loop!Extent(part.offset) : k < n => \E p \in 1..Len(part.lines) : part.lines[p] = k
  /\ \A p, q \in 1..Len(part.lines) : p < q => part.lines[p] < part.lines[q]

\* The events of the lines below n.
Grouped(all, n) ==
  /\ all \in Seq(Parts)
  /\ \A m \in 1..Len(all) : all[m].offset \in Loop!Beginnings /\ all[m].offset < n
  /\ \A b \in Loop!Beginnings : b < n => \E m \in 1..Len(all) : all[m].offset = b
  /\ \A m, k \in 1..Len(all) : m < k => all[m].offset < all[k].offset
  /\ \A m \in 1..Len(all) : Covers(all[m], n)

LEMMA GroupedParts ==
  ASSUME NEW all, NEW n, Grouped(all, n)
  PROVE  \A m \in 1..Len(all) : /\ all[m] \in Parts /\ all[m].offset \in Nat
                                 /\ all[m].lines \in Seq(Nat)
<1>1. all \in Seq(Parts)
  BY DEF Grouped
<1>2. \A m \in 1..Len(all) : all[m] \in Parts
  BY <1>1
<1>3. \A part \in Parts : part.offset \in Nat /\ part.lines \in Seq(Nat)
  BY DEF Parts
<1> QED BY <1>2, <1>3

\* A line outside every trace leaves the events before it as they are.
LEMMA CoversNext ==
  ASSUME LinesOk, NEW n \in 1..Len(lines), NEW part \in Parts, Covers(part, n),
         n \notin Loop!Extent(part.offset)
  PROVE  Covers(part, n + 1)
<1>1. \A p \in 1..Len(part.lines) : part.lines[p] \in Nat
  BY DEF Parts
<1>2. \A p \in 1..Len(part.lines) :
        part.lines[p] \in Loop!Extent(part.offset) /\ part.lines[p] < n + 1
  BY <1>1 DEF Covers, LinesOk
<1>3. \A k \in Loop!Extent(part.offset) :
        k < n + 1 => \E p \in 1..Len(part.lines) : part.lines[p] = k
  <2> SUFFICES ASSUME NEW k \in Loop!Extent(part.offset), k < n + 1
               PROVE  \E p \in 1..Len(part.lines) : part.lines[p] = k
    OBVIOUS
  <2>1. k \in Int /\ n \in Int /\ k # n
    BY DEF Loop!Extent, Parts, LinesOk
  <2>2. k < n
    BY <2>1
  <2> QED BY <2>2 DEF Covers
<1> QED BY <1>2, <1>3 DEF Covers

\* A line without text that continues nothing.
LEMMA GroupedSkip ==
  ASSUME LinesOk, NEW n \in 1..Len(lines), NEW all, Grouped(all, n),
         ~ Loop!InTrace(n), ~ lines[n].text
  PROVE  Grouped(all, n + 1)
<1>0. n \in Nat /\ DOMAIN lines = 1..Len(lines) /\ Len(lines) \in Nat
  BY DEF LinesOk
<1>1. \A m \in 1..Len(all) : all[m] \in Parts /\ all[m].offset \in Nat
  BY GroupedParts
<1>2. \A m \in 1..Len(all) : all[m].offset \in Loop!Beginnings /\ all[m].offset < n + 1
  <2> SUFFICES ASSUME NEW m \in 1..Len(all)
               PROVE  all[m].offset \in Loop!Beginnings /\ all[m].offset < n + 1
    OBVIOUS
  <2>1. all[m].offset \in Loop!Beginnings /\ all[m].offset < n
    BY DEF Grouped
  <2> QED BY <1>0, <1>1, <2>1
<1>3. n \notin Loop!Beginnings
  BY DEF Loop!Beginnings
<1>4. ASSUME NEW b \in Loop!Beginnings, b < n + 1 PROVE \E m \in 1..Len(all) : all[m].offset = b
  <2>1. b \in Nat
    BY <1>0 DEF Loop!Beginnings
  <2>2. b < n
    BY <1>0, <1>3, <1>4, <2>1
  <2> QED BY <2>2 DEF Grouped
<1>5. ASSUME NEW m \in 1..Len(all) PROVE Covers(all[m], n + 1)
  <2>1. all[m].offset < n /\ all[m] \in Parts /\ Covers(all[m], n)
    BY <1>1 DEF Grouped
  <2>2. n \notin Loop!Extent(all[m].offset)
    BY <2>1 DEF Loop!Extent
  <2> QED BY <2>1, <2>2, CoversNext
<1> QED BY <1>2, <1>4, <1>5 DEF Grouped

\* What Append does, without the set of the elements.
LEMMA Appended ==
  ASSUME NEW S, NEW s \in Seq(S), NEW x \in S
  PROVE  /\ Append(s, x) \in Seq(S) /\ Len(s) \in Nat /\ Len(Append(s, x)) = Len(s) + 1
         /\ \A m \in 1..(Len(s) + 1) : m \in 1..Len(s) \/ m = Len(s) + 1
         /\ \A m \in 1..Len(s) : m \in 1..(Len(s) + 1) /\ Append(s, x)[m] = s[m]
         /\ Len(s) + 1 \in 1..(Len(s) + 1) /\ Append(s, x)[Len(s) + 1] = x
BY AppendProperties

\* A line that begins an event.
LEMMA GroupedStart ==
  ASSUME LinesOk, NEW n \in 1..Len(lines), NEW all, Grouped(all, n),
         ~ Loop!InTrace(n), lines[n].text
  PROVE  Grouped(Append(all, [offset |-> n, lines |-> <<n>>]), n + 1)
<1> DEFINE part == [offset |-> n, lines |-> <<n>>]
           more == Append(all, part)
<1>0. n \in Nat /\ DOMAIN lines = 1..Len(lines) /\ Len(lines) \in Nat /\ n < n + 1
  BY DEF LinesOk
<1>1. part \in Parts /\ all \in Seq(Parts)
  BY <1>0 DEF Grouped, Parts
<1>2. \A m \in 1..Len(all) : all[m] \in Parts /\ all[m].offset \in Nat
  BY GroupedParts
<1>3. /\ more \in Seq(Parts) /\ Len(more) = Len(all) + 1 /\ Len(all) \in Nat
      /\ \A m \in 1..Len(more) : m \in 1..Len(all) \/ m = Len(all) + 1
      /\ \A m \in 1..Len(all) : m \in 1..Len(more) /\ more[m] = all[m]
      /\ Len(all) + 1 \in 1..Len(more) /\ more[Len(all) + 1] = part
  BY <1>1, Appended
<1>4. n \in Loop!Beginnings
  BY <1>0 DEF Loop!Beginnings
<1>5. part.offset = n /\ part.lines = <<n>>
  OBVIOUS
<1>6. Covers(part, n + 1)
  <2>1. Len(part.lines) = 1 /\ part.lines[1] = n
    OBVIOUS
  <2>2. n \in Loop!Extent(n)
    BY DEF Loop!Extent
  <2>3. ASSUME NEW k \in Loop!Extent(n), k < n + 1 PROVE k = n
    <3>1. k \in Int /\ (k = n \/ n < k)
      BY <1>0 DEF Loop!Extent
    <3> QED BY <1>0, <2>3, <3>1
  <2>4. 1..1 = {1}
    OBVIOUS
  <2> HIDE DEF part
  <2> QED BY <1>0, <1>5, <2>1, <2>2, <2>3, <2>4 DEF Covers
<1>7. ASSUME NEW m \in 1..Len(all) PROVE Covers(all[m], n + 1) /\ all[m].offset < n
  <2>1. all[m].offset < n /\ all[m] \in Parts /\ Covers(all[m], n)
    BY <1>2 DEF Grouped
  <2>2. n \notin Loop!Extent(all[m].offset)
    BY <2>1 DEF Loop!Extent
  <2> QED BY <2>1, <2>2, CoversNext
<1> HIDE DEF more, part
<1>8. \A m \in 1..Len(more) : more[m].offset \in Loop!Beginnings /\ more[m].offset < n + 1
  <2>1. ASSUME NEW m \in 1..Len(all) PROVE all[m].offset \in Loop!Beginnings /\ all[m].offset < n + 1
    <3>1. all[m].offset < n /\ all[m].offset \in Nat /\ all[m].offset \in Loop!Beginnings
      BY <1>2 DEF Grouped
    <3> QED BY <1>0, <3>1
  <2> QED BY <1>0, <1>3, <1>4, <1>5, <2>1
<1>9. ASSUME NEW b \in Loop!Beginnings, b < n + 1 PROVE \E m \in 1..Len(more) : more[m].offset = b
  <2>1. b \in Nat /\ (b < n \/ b = n)
    BY <1>0, <1>9 DEF Loop!Beginnings
  <2>2. CASE b = n
    BY <1>3, <1>5, <2>2
  <2>3. CASE b < n
    <3>1. PICK m \in 1..Len(all) : all[m].offset = b
      BY <2>3 DEF Grouped
    <3> QED BY <1>3, <3>1
  <2> QED BY <2>1, <2>2, <2>3
<1>10. \A m, k \in 1..Len(more) : m < k => more[m].offset < more[k].offset
  <2> SUFFICES ASSUME NEW m \in 1..Len(more), NEW k \in 1..Len(more), m < k
               PROVE  more[m].offset < more[k].offset
    OBVIOUS
  <2>1. m \in 1..Len(all)
    BY <1>3
  <2>2. CASE k \in 1..Len(all)
    <3>1. all[m].offset < all[k].offset
      BY <2>1, <2>2 DEF Grouped
    <3> QED BY <1>3, <2>1, <2>2, <3>1
  <2>3. CASE k = Len(all) + 1
    BY <1>3, <1>5, <1>7, <2>1, <2>3
  <2> QED BY <1>3, <2>2, <2>3
<1>11. \A m \in 1..Len(more) : Covers(more[m], n + 1)
  BY <1>3, <1>6, <1>7
<1>12. Grouped(more, n + 1)
  BY <1>3, <1>8, <1>9, <1>10, <1>11 DEF Grouped
<1> QED BY <1>12 DEF more, part
\* A line that continues the event that is open.
LEMMA GroupedContinue ==
  ASSUME LinesOk, NEW n \in 1..Len(lines), NEW all \in Seq(Parts),
         NEW o \in Nat, NEW c \in Seq(Nat), c # <<>>,
         Grouped(Append(all, [offset |-> o, lines |-> c]), n), Loop!InTrace(n)
  PROVE  Grouped(Append(all, [offset |-> o, lines |-> Append(c, n)]), n + 1)
<1> DEFINE old == [offset |-> o, lines |-> c]
           part == [offset |-> o, lines |-> Append(c, n)]
           before == Append(all, old)
           after == Append(all, part)
           d == Append(c, n)
           N == Len(all) + 1
<1>0. n \in Nat /\ DOMAIN lines = 1..Len(lines) /\ Len(lines) \in Nat /\ n < n + 1
  BY DEF LinesOk
<1>1. /\ d \in Seq(Nat) /\ Len(c) \in Nat /\ Len(d) = Len(c) + 1
      /\ \A m \in 1..Len(d) : m \in 1..Len(c) \/ m = Len(c) + 1
      /\ \A m \in 1..Len(c) : m \in 1..Len(d) /\ d[m] = c[m]
      /\ Len(c) + 1 \in 1..Len(d) /\ d[Len(c) + 1] = n
  BY <1>0, Appended
<1> HIDE DEF d
<1>2. old \in Parts /\ part \in Parts /\ old.offset = o /\ old.lines = c
      /\ part.offset = o /\ part.lines = d
  BY <1>1 DEF Parts, d
<1>3. /\ before \in Seq(Parts) /\ Len(before) = N /\ Len(all) \in Nat
      /\ \A m \in 1..N : m \in 1..Len(all) \/ m = N
      /\ \A m \in 1..Len(all) : m \in 1..N /\ before[m] = all[m]
      /\ N \in 1..N /\ before[N] = old
  BY <1>2, Appended
<1>4. /\ after \in Seq(Parts) /\ Len(after) = N
      /\ \A m \in 1..Len(all) : after[m] = all[m]
      /\ after[N] = part
  BY <1>2, Appended
<1>5. Grouped(before, n)
  OBVIOUS
<1> HIDE DEF before, after, part, old, N
<1>6. \A m \in 1..N : before[m].offset \in Nat /\ before[m] \in Parts
  BY <1>3, <1>5, GroupedParts
<1>7. \A m \in 1..N : after[m].offset = before[m].offset
  BY <1>2, <1>3, <1>4
<1>8. n \notin Loop!Beginnings
  BY DEF Loop!Beginnings
<1>9. \A m \in 1..N : after[m].offset \in Loop!Beginnings /\ after[m].offset < n + 1
  <2> SUFFICES ASSUME NEW m \in 1..N
               PROVE  before[m].offset \in Loop!Beginnings /\ before[m].offset < n + 1
    BY <1>7
  <2>1. before[m].offset < n /\ before[m].offset \in Nat /\ before[m].offset \in Loop!Beginnings
    BY <1>3, <1>5, <1>6 DEF Grouped
  <2> QED BY <1>0, <2>1
<1>10. ASSUME NEW b \in Loop!Beginnings, b < n + 1 PROVE b < n /\ \E m \in 1..N : after[m].offset = b
  <2>1. b \in Nat /\ b < n
    BY <1>0, <1>8, <1>10 DEF Loop!Beginnings
  <2>2. PICK m \in 1..N : before[m].offset = b
    BY <1>3, <1>5, <2>1 DEF Grouped
  <2> QED BY <1>7, <2>1, <2>2
<1>11. \A m, k \in 1..N : m < k => before[m].offset < before[k].offset
  BY <1>3, <1>5 DEF Grouped
<1>12. \A m, k \in 1..N : m < k => after[m].offset < after[k].offset
  BY <1>7, <1>11
<1>13. ASSUME NEW m \in 1..Len(all) PROVE Covers(after[m], n + 1)
  <2>1. m \in 1..N /\ before[m] = all[m] /\ m < N
    BY <1>3 DEF N
  <2>2. before[m].offset < o /\ o \in Loop!Beginnings /\ o < n /\ Covers(before[m], n)
    BY <1>2, <1>3, <1>5, <1>11, <2>1 DEF Grouped
  <2>3. n \notin Loop!Extent(before[m].offset)
    <3> SUFFICES ASSUME n \in Loop!Extent(before[m].offset) PROVE FALSE
      OBVIOUS
    <3>1. before[m].offset < n
      BY <1>5, <1>3, <2>1 DEF Grouped
    <3>2. before[m].offset # n
      BY <1>0, <1>6, <2>1, <3>1
    <3>3. o <= before[m].offset \/ n < o
      BY <2>2, <3>2 DEF Loop!Extent
    <3> QED BY <1>0, <1>6, <2>1, <2>2, <3>3
  <2>4. Covers(before[m], n + 1)
    BY <1>6, <2>1, <2>2, <2>3, CoversNext
  <2> QED BY <1>4, <2>1, <2>4
<1>14. Covers(part, n + 1)
  <2>1. Covers(old, n) /\ o < n /\ o \in Loop!Beginnings
    BY <1>2, <1>3, <1>5 DEF Grouped
  <2>2. Len(c) # 0 /\ c[1] = o /\ 1 \in 1..Len(c)
    BY <1>1, <1>2, <2>1 DEF Covers
  <2>3. n \in Loop!Extent(o)
    <3>1. \A b \in Loop!Beginnings : b <= o \/ n < b
      <4> SUFFICES ASSUME NEW b \in Loop!Beginnings, ~ (n < b) PROVE b <= o
        OBVIOUS
      <4>1. b \in Nat /\ b < n + 1
        BY <1>0 DEF Loop!Beginnings
      <4>2. PICK m \in 1..N : after[m].offset = b
        BY <1>10, <4>1
      <4>3. m = N \/ m < N
        BY <1>3 DEF N
      <4>4. before[N].offset = o
        BY <1>2, <1>3
      <4>5. b = o \/ b < o
        BY <1>3, <1>7, <1>11, <4>2, <4>3, <4>4
      <4> QED BY <4>1, <4>5
    <3> QED BY <1>0, <2>1, <3>1 DEF Loop!Extent
  <2>4. \A p \in 1..Len(c) : c[p] \in Nat /\ c[p] \in Loop!Extent(o) /\ c[p] < n
    <3>1. \A p \in 1..Len(c) : c[p] \in Nat
      OBVIOUS
    <3>2. \A p \in 1..Len(c) : c[p] \in Loop!Extent(o) /\ c[p] < n
      BY <1>2, <2>1 DEF Covers
    <3> QED BY <3>1, <3>2
  <2>5. \A p \in 1..Len(d) : d[p] \in Loop!Extent(o) /\ d[p] < n + 1
    <3> SUFFICES ASSUME NEW p \in 1..Len(d) PROVE d[p] \in Loop!Extent(o) /\ d[p] < n + 1
      OBVIOUS
    <3>1. CASE p \in 1..Len(c)
      <4>1. d[p] = c[p] /\ c[p] \in Nat /\ c[p] \in Loop!Extent(o) /\ c[p] < n
        BY <1>1, <2>4, <3>1
      <4>2. c[p] < n + 1
        BY <1>0, <4>1
      <4> QED BY <4>1, <4>2
    <3>2. CASE p = Len(c) + 1
      BY <1>0, <1>1, <2>3, <3>2
    <3> QED BY <1>1, <3>1, <3>2
  <2>6. ASSUME NEW k \in Loop!Extent(o), k < n + 1 PROVE \E p \in 1..Len(d) : d[p] = k
    <3>1. k \in Nat /\ (k < n \/ k = n)
      BY <1>0, <2>6 DEF Loop!Extent
    <3>2. CASE k = n
      BY <1>1, <3>2
    <3>3. CASE k < n
      <4>1. PICK p \in 1..Len(c) : c[p] = k
        BY <1>2, <2>1, <3>3 DEF Covers
      <4> QED BY <1>1, <4>1
    <3> QED BY <3>1, <3>2, <3>3
  <2>7. \A p, q \in 1..Len(c) : p < q => c[p] < c[q]
    BY <1>2, <2>1 DEF Covers
  <2>8. \A p, q \in 1..Len(d) : p < q => d[p] < d[q]
    <3> SUFFICES ASSUME NEW p \in 1..Len(d), NEW q \in 1..Len(d), p < q PROVE d[p] < d[q]
      OBVIOUS
    <3>1. p \in 1..Len(c) /\ (q \in 1..Len(c) \/ q = Len(c) + 1)
      BY <1>1
    <3>2. CASE q \in 1..Len(c)
      BY <1>1, <2>7, <3>1, <3>2
    <3>3. CASE q = Len(c) + 1
      BY <1>1, <2>4, <3>1, <3>3
    <3> QED BY <3>1, <3>2, <3>3
  <2>9. Len(d) # 0 /\ d[1] = o
    BY <1>1, <2>2
  <2> QED BY <1>2, <2>5, <2>6, <2>8, <2>9 DEF Covers
<1>15. \A m \in 1..N : Covers(after[m], n + 1)
  BY <1>3, <1>4, <1>13, <1>14
<1>16. Grouped(after, n + 1)
  BY <1>4, <1>9, <1>10, <1>12, <1>15 DEF Grouped
<1> QED BY <1>16 DEF after, part, d
\* The events of all lines.
LEMMA GroupedAll ==
  ASSUME LinesOk, NEW all, Grouped(all, Len(lines) + 1)
  PROVE  /\ Loop!Beginnings \in SUBSET Nat /\ IsFiniteSet(Loop!Beginnings)
         /\ Len(all) = Cardinality(Loop!Beginnings)
         /\ \A m \in 1..Len(all) : all[m].offset = InOrder(Loop!Beginnings)[m]
         /\ {e.offset : e \in Range(all)} = Loop!Beginnings
         /\ \A e \in Range(all) :
              /\ Range(e.lines) = Loop!Extent(e.offset)
              /\ \A m, n \in DOMAIN e.lines : m < n => e.lines[m] < e.lines[n]
<1>0. DOMAIN lines = 1..Len(lines) /\ Len(lines) \in Nat
  BY DEF LinesOk
<1>1. Loop!Beginnings \subseteq 1..Len(lines) /\ Loop!Beginnings \in SUBSET Nat
  BY <1>0 DEF Loop!Beginnings
<1>2. IsFiniteSet(Loop!Beginnings)
  <2>1. IsFiniteSet(1..Len(lines))
    BY <1>0, FS_Interval
  <2> QED BY <1>1, <2>1, FS_Subset
<1>3. all \in Seq(Parts) /\ Len(all) \in Nat /\ DOMAIN all = 1..Len(all)
  BY DEF Grouped
<1> DEFINE e == [m \in 1..Len(all) |-> all[m].offset]
<1>4. \A b \in Loop!Beginnings : b < Len(lines) + 1
  BY <1>0, <1>1
<1>5. Enumerates(e, Len(all), Loop!Beginnings)
  BY <1>4 DEF Grouped, Enumerates
<1>6. Len(all) = Cardinality(Loop!Beginnings)
      /\ \A m \in 1..Len(all) : InOrder(Loop!Beginnings)[m] = e[m]
  BY <1>1, <1>2, <1>3, <1>5, OnlyOrder
<1>7. {part.offset : part \in Range(all)} = Loop!Beginnings
  <2>1. Range(all) = {all[m] : m \in 1..Len(all)}
    BY <1>3 DEF Range
  <2>2. \A m \in 1..Len(all) : all[m].offset \in Loop!Beginnings
    BY DEF Grouped
  <2>3. \A b \in Loop!Beginnings : \E m \in 1..Len(all) : all[m].offset = b
    BY <1>4 DEF Grouped
  <2> QED BY <2>1, <2>2, <2>3
<1>8. ASSUME NEW part \in Range(all)
      PROVE  /\ Range(part.lines) = Loop!Extent(part.offset)
             /\ \A m, n \in DOMAIN part.lines : m < n => part.lines[m] < part.lines[n]
  <2>1. PICK m \in 1..Len(all) : part = all[m]
    BY <1>3 DEF Range
  <2>2. Covers(part, Len(lines) + 1) /\ part.lines \in Seq(Nat)
    BY <2>1, GroupedParts DEF Grouped
  <2>3. DOMAIN part.lines = 1..Len(part.lines)
    BY <2>2
  <2>4. \A k \in Loop!Extent(part.offset) : k < Len(lines) + 1
    <3>1. part.offset \in 1..Len(lines)
      BY <1>1, <2>1 DEF Grouped
    <3>2. Loop!Extent(part.offset) \subseteq 1..Len(lines)
      BY <1>0, <3>1 DEF Loop!Extent
    <3> QED BY <1>0, <3>2
  <2>5. Range(part.lines) = Loop!Extent(part.offset)
    BY <2>2, <2>3, <2>4 DEF Covers, Range
  <2> QED BY <2>2, <2>3, <2>5 DEF Covers
<1> QED BY <1>1, <1>2, <1>6, <1>7, <1>8

-------------------------------------------------------------------------------
(***************************************************************************)
(* The lines that a document is read as.                                   *)
(***************************************************************************)

\* A record of a document.
RecordOk(r) ==
  /\ DOMAIN r = {"reads", "form", "body", "json", "text", "trails", "head"}
  /\ r.text \in BOOLEAN /\ r.trails \in BOOLEAN /\ r.head \in BOOLEAN
  /\ r.head => r.text
  /\ "rfc5424" \in r.reads => r.body.ts # ""
  /\ "rfc3164" \in r.reads /\ "rfc5424" \notin r.reads => r.body.ts \in {"date", "no date"}

LEMMA RecordsOk ==
  ASSUME document \in Documents
  PROVE  /\ Len(records) \in Nat /\ DOMAIN records = 1..Len(records)
         /\ \A i \in 1..Len(records) :
              /\ RecordOk(records[i])
              /\ document.text # "lines" => records[i].text
              /\ document.text = "table" => records[i].json \in {"row", "blank", "ragged"}
<1>1. records \in Seq(Range(records))
  BY DocumentsAssumption DEF records
<1>2. Len(records) \in Nat /\ DOMAIN records = 1..Len(records)
  BY <1>1
<1>3. ASSUME NEW i \in 1..Len(records)
      PROVE  /\ RecordOk(records[i])
             /\ document.text # "lines" => records[i].text
             /\ document.text = "table" => records[i].json \in {"row", "blank", "ragged"}
  <2>1. i \in DOMAIN document.records /\ records[i] = document.records[i]
    BY <1>2 DEF records
  <2> DEFINE r == document.records[i]
  <2>2. /\ DOMAIN r = {"reads", "form", "body", "json", "text", "trails", "head"}
        /\ {r.text, r.trails, r.head} \subseteq BOOLEAN
        /\ r.head => r.text
        /\ document.text # "lines" => r.text /\ ~ r.trails /\ ~ r.head
        /\ document.text = "table" => r.json \in {"row", "blank", "ragged"}
        /\ "rfc5424" \in r.reads => r.body.ts # ""
        /\ "rfc3164" \in r.reads /\ "rfc5424" \notin r.reads => r.body.ts \in {"date", "no date"}
    BY <2>1, DocumentsAssumption, Zenon
  <2> HIDE DEF r
  <2>3. RecordOk(r)
    BY <2>2 DEF RecordOk
  <2> QED BY <2>1, <2>2, <2>3 DEF r
<1> QED BY <1>2, <1>3

\* What a dictionary over another has.
LEMMA Over ==
  ASSUME NEW f, NEW g
  PROVE  /\ DOMAIN (f ++ g) = DOMAIN f \cup DOMAIN g
         /\ \A x \in DOMAIN f : (f ++ g)[x] = f[x]
         /\ \A x \in DOMAIN g \ DOMAIN f : (f ++ g)[x] = g[x]
BY DEF ++

LEMMA MadeIs ==
  ASSUME NEW r
  PROVE  /\ Made(r).text = TRUE /\ Made(r).trails = FALSE /\ Made(r).head = FALSE
         /\ "body" \in DOMAIN r => Made(r).body = r.body
         /\ "reads" \in DOMAIN r => Made(r).reads = r.reads
         /\ "form" \in DOMAIN r => Made(r).form = r.form
BY DEF Made, ++

\* The places among the records.
LEMMA Places ==
  ASSUME document \in Documents, NEW S \in SUBSET (DOMAIN records)
  PROVE  /\ S \in SUBSET Nat /\ IsFiniteSet(S) /\ Cardinality(S) \in Nat
         /\ Len(RecordsAt(S)) = Cardinality(S)
         /\ DOMAIN RecordsAt(S) = 1..Cardinality(S)
         /\ \A k \in 1..Cardinality(S) : /\ InOrder(S)[k] \in S
                                         /\ RecordsAt(S)[k] = records[InOrder(S)[k]]
<1>1. Len(records) \in Nat /\ DOMAIN records = 1..Len(records)
  BY RecordsOk
<1>2. S \in SUBSET Nat
  BY <1>1
<1>3. IsFiniteSet(S)
  <2>1. IsFiniteSet(1..Len(records))
    BY <1>1, FS_Interval
  <2> QED BY <1>1, <2>1, FS_Subset
<1>4. Cardinality(S) \in Nat /\ \A k \in 1..Cardinality(S) : InOrder(S)[k] \in S
  BY <1>2, <1>3, Ordered
<1>5. RecordsAt(S) = [k \in 1..Cardinality(S) |-> records[InOrder(S)[k]]]
  BY DEF RecordsAt
<1>6. Len(RecordsAt(S)) = Cardinality(S)
  BY <1>4, <1>5
<1> QED BY <1>2, <1>3, <1>4, <1>5, <1>6

TextPlaces == {i \in DOMAIN records : records[i].text}
RowPlaces == {i \in DOMAIN records : records[i].json # "blank"}

\* A line made for a record.
MadeOk(l, body) ==
  /\ l.text = TRUE /\ l.trails = FALSE /\ l.head = FALSE
  /\ l.body = body
  /\ "rfc5424" \in l.reads => l.body.ts # ""
  /\ "rfc3164" \in l.reads /\ "rfc5424" \notin l.reads => l.body.ts \in {"date", "no date"}

\* The lines of a document that is one value or table are made for its records, in their
\* order; a container without records is one.
LEMMA MadeLines ==
  ASSUME document \in Documents, NEW format \in {"json", "xml", "csv"}
  PROVE  LET places == CASE format = "json" -> TextPlaces
                         [] format = "xml" -> DOMAIN records
                         [] format = "csv" -> RowPlaces
             made == LinesOf(format)
         IN \/ /\ format = "xml" /\ records = <<>>
               /\ DOMAIN made = 1..1 /\ Len(made) = 1 /\ MadeOk(made[1], <<>>)
            \/ /\ format = "xml" => records # <<>>
               /\ Len(made) = Cardinality(places) /\ DOMAIN made = 1..Cardinality(places)
               /\ \A k \in 1..Cardinality(places) :
                    MadeOk(made[k], records[InOrder(places)[k]].body)
<1> DEFINE places == CASE format = "json" -> TextPlaces
                       [] format = "xml" -> DOMAIN records
                       [] format = "csv" -> RowPlaces
<1>0. Len(records) \in Nat /\ DOMAIN records = 1..Len(records)
      /\ \A i \in 1..Len(records) : RecordOk(records[i])
  BY RecordsOk
<1>1. \A i \in DOMAIN records : MadeOk(Made(records[i]), records[i].body)
  <2> SUFFICES ASSUME NEW i \in DOMAIN records PROVE MadeOk(Made(records[i]), records[i].body)
    OBVIOUS
  <2> DEFINE r == records[i]
  <2>1. RecordOk(r)
    BY <1>0
  <2> HIDE DEF r
  <2>2. "body" \in DOMAIN r /\ "reads" \in DOMAIN r
    BY <2>1 DEF RecordOk
  <2>3. Made(r).body = r.body /\ Made(r).reads = r.reads
        /\ Made(r).text = TRUE /\ Made(r).trails = FALSE /\ Made(r).head = FALSE
    BY <2>2, MadeIs
  <2> DEFINE l == Made(r)
  <2> HIDE DEF l
  <2>5. l.body = r.body /\ l.reads = r.reads
        /\ l.text = TRUE /\ l.trails = FALSE /\ l.head = FALSE
    BY <2>3 DEF l
  <2>6. /\ "rfc5424" \in l.reads => l.body.ts # ""
        /\ "rfc3164" \in l.reads /\ "rfc5424" \notin l.reads => l.body.ts \in {"date", "no date"}
    BY <2>1, <2>5 DEF RecordOk
  <2>7. MadeOk(l, r.body)
    BY <2>5, <2>6 DEF MadeOk
  <2>4. MadeOk(Made(r), r.body)
    BY <2>7 DEF l
  <2> QED BY <2>4 DEF r
<1>2. CASE format = "xml" /\ records = <<>>
  <2>1. LinesOf(format) = [i \in DOMAIN <<Childless>> |-> Made(<<Childless>>[i])]
    BY <1>2 DEF LinesOf
  <2>2. DOMAIN <<Childless>> = 1..1 /\ <<Childless>>[1] = Childless
    OBVIOUS
  <2>3. LinesOf(format) = [i \in 1..1 |-> Made(<<Childless>>[i])]
    BY <2>1, <2>2
  <2>4. Len(LinesOf(format)) = 1 /\ DOMAIN LinesOf(format) = 1..1
    BY <2>3
  <2>5. LinesOf(format)[1] = Made(Childless)
    BY <2>2, <2>3
  <2>6. DOMAIN Childless = {"reads", "form", "body", "json"}
        /\ Childless.body = <<>> /\ Childless.reads = {"xml"}
    BY DEF Childless
  <2>7. Made(Childless).body = <<>> /\ Made(Childless).reads = {"xml"}
        /\ Made(Childless).text = TRUE /\ Made(Childless).trails = FALSE /\ Made(Childless).head = FALSE
    BY <2>6, MadeIs
  <2>8. MadeOk(Made(Childless), <<>>)
    BY <2>7 DEF MadeOk
  <2> QED BY <1>2, <2>4, <2>5, <2>8
<1>3. CASE ~ (format = "xml" /\ records = <<>>)
  <2>1. places \in SUBSET (DOMAIN records)
    BY DEF TextPlaces, RowPlaces
  <2> DEFINE n == Cardinality(places)
  <2>2. n \in Nat /\ \A k \in 1..n : InOrder(places)[k] \in places
                                    /\ InOrder(places)[k] \in DOMAIN records
    BY <2>1, Places
  <2>3. /\ Len(LinesOf(format)) = n /\ DOMAIN LinesOf(format) = 1..n
        /\ \A k \in 1..n : LinesOf(format)[k] = Made(records[InOrder(places)[k]])
    <3>1. CASE format \in {"json", "csv"}
      <4>1. LinesOf(format) = [i \in DOMAIN RecordsAt(places) |-> Made(RecordsAt(places)[i])]
        BY <3>1 DEF LinesOf, Texts, Rows, TextPlaces, RowPlaces
      <4>2. DOMAIN RecordsAt(places) = 1..n
        BY <2>1, Places
      <4>3. LinesOf(format) = [i \in 1..n |-> Made(RecordsAt(places)[i])]
        BY <4>1, <4>2
      <4>4. Len(LinesOf(format)) = n /\ DOMAIN LinesOf(format) = 1..n
        BY <2>2, <4>3
      <4>5. \A k \in 1..n : RecordsAt(places)[k] = records[InOrder(places)[k]]
        BY <2>1, Places
      <4>6. \A k \in 1..n : LinesOf(format)[k] = Made(RecordsAt(places)[k])
        BY <4>3
      <4> QED BY <4>4, <4>5, <4>6
    <3>2. CASE format = "xml"
      <4>1. LinesOf(format) = [i \in DOMAIN records |-> Made(records[i])] /\ places = 1..Len(records)
        BY <1>0, <1>3, <3>2 DEF LinesOf
      <4>2. Enumerates([k \in 1..Len(records) |-> k], Len(records), places)
        BY <4>1 DEF Enumerates
      <4>3. IsFiniteSet(places) /\ places \in SUBSET Nat
        BY <2>1, Places
      <4>4. Len(records) = n /\ \A k \in 1..Len(records) : InOrder(places)[k] = k
        BY <1>0, <4>2, <4>3, OnlyOrder
      <4>5. LinesOf(format) = [i \in 1..n |-> Made(records[i])]
        BY <1>0, <4>1, <4>4
      <4>6. Len(LinesOf(format)) = n /\ DOMAIN LinesOf(format) = 1..n
        BY <2>2, <4>5
      <4> QED BY <4>4, <4>5, <4>6
    <3> QED BY <3>1, <3>2
  <2>4. \A k \in 1..n : MadeOk(LinesOf(format)[k], records[InOrder(places)[k]].body)
    BY <1>1, <2>2, <2>3
  <2> QED BY <1>3, <2>3, <2>4
<1> QED BY <1>2, <1>3

LEMMA SameDocument ==
  ASSUME document' = document
  PROVE  /\ Format' = Format
         /\ \A f : LinesOf(f)' = LinesOf(f)
         /\ \A f : Malformed(f)' <=> Malformed(f)
         /\ \A f : OverBudget(f)' <=> OverBudget(f)
<1>1. records' = records
  BY DEF records
<1>2. Texts' = Texts /\ Rows' = Rows
  BY <1>1 DEF Texts, Rows, RecordsAt
<1>3. Ragged' = Ragged /\ RowsRead' = RowsRead
  BY <1>2 DEF Ragged, RowsRead
<1>4. (DecodeJson' = DecodeJson) /\ (DecodesAsXml' <=> DecodesAsXml) /\ (StartsLikeJson' <=> StartsLikeJson)
  BY <1>2 DEF DecodeJson, AnyLineRefused, DecodesAsXml, StartsLikeJson
<1>5. Format' = Format
  <2>1. LooksLikeXml' <=> LooksLikeXml
    BY <1>2 DEF LooksLikeXml
  <2> QED BY <1>4, <2>1 DEF Format, LooksLikeTable
<1>6. \A f : LinesOf(f)' = LinesOf(f)
  BY <1>1, <1>2 DEF LinesOf
<1>7. \A f : Malformed(f)' <=> Malformed(f)
  BY <1>3, <1>4 DEF Malformed
<1>8. \A f : OverBudget(f)' <=> OverBudget(f)
  BY <1>3, <1>6, <1>7 DEF OverBudget
<1> QED BY <1>5, <1>6, <1>7, <1>8

LEMMA SameLines ==
  ASSUME lines' = lines
  PROVE  /\ Loop!Beginnings' = Loop!Beginnings
         /\ \A n : OpenBefore(n)' <=> OpenBefore(n)
         /\ \A all, n : Grouped(all, n)' <=> Grouped(all, n)
         /\ LinesOk' <=> LinesOk
<1>1. \A i : Loop!InTrace(i)' <=> Loop!InTrace(i)
  BY DEF Loop!InTrace
<1>2. Loop!Beginnings' = Loop!Beginnings
  BY <1>1 DEF Loop!Beginnings
<1>3. \A i : Loop!Extent(i)' = Loop!Extent(i)
  BY <1>1, <1>2 DEF Loop!Extent
<1>4. \A part, n : Covers(part, n)' <=> Covers(part, n)
  BY <1>3 DEF Covers
<1>5. \A all, n : Grouped(all, n)' <=> Grouped(all, n)
  BY <1>2, <1>4 DEF Grouped
<1>6. \A n : OpenBefore(n)' <=> OpenBefore(n)
  BY DEF OpenBefore
<1>7. LinesOk' <=> LinesOk
  BY DEF LinesOk
<1> QED BY <1>2, <1>5, <1>6, <1>7
\* Before the loop.
NotBegun ==
  /\ lines = <<>> /\ index = 1 /\ events = <<>> /\ chunks = <<>> /\ accepts = FALSE
  /\ ended = "no" /\ offset \in Nat

\* In it, and after it.
Grouping ==
  /\ index \in 1..(Len(lines) + 1) /\ accepts \in BOOLEAN /\ offset \in Nat
  /\ chunks \in Seq(Nat) /\ events \in Seq(Parts)
  /\ ended \in {"no", "returned", "raised"}
  /\ Grouped(Loop!Closed, index) /\ Len(Loop!Closed) <= MaxEvents
  /\ ended = "no" => (accepts => chunks # <<>>) /\ (accepts <=> OpenBefore(index))
  /\ ended = "returned" => index = Len(lines) + 1 /\ chunks = <<>>
  /\ ended = "raised" => Cardinality(Loop!Beginnings) > MaxEvents

\* The lines of the format that run_payload settled on.
Begun ==
  /\ ~ OverBudget(Format) /\ ~ Malformed(Format)
  /\ lines = LinesOf(Format) /\ LinesOk
  /\ Grouping

Inv ==
  /\ document \in Documents
  /\ \/ reading = "no" /\ NotBegun /\ output = <<>>
     \/ reading = "raised" /\ NotBegun /\ OverBudget(Format) /\ output = <<>>
     \/ reading = "refused" /\ NotBegun /\ ~ OverBudget(Format) /\ Malformed(Format)
          /\ output = Rejected(Format)
     \/ reading = Format /\ Begun /\ output = <<>>
     \/ reading = "raised" /\ Begun /\ ended = "raised" /\ output = <<>>
     \/ reading = "done" /\ Begun /\ ended = "returned"
          /\ output = [i \in DOMAIN events |->
                         Event(lines[events[i].lines[1]], Format, events[i].offset)]

LEMMA Formats ==
  /\ Format \in {"unknown", "json", "xml", "csv", "none"}
  /\ Malformed("unknown")
  /\ ~ Malformed("none") /\ ~ OverBudget("none")
BY DEF Format, Malformed, OverBudget

LEMMA LinesAreLines ==
  ASSUME document \in Documents, ~ Malformed(Format), lines = LinesOf(Format)
  PROVE  LinesOk
<1>1. CASE Format \in {"json", "xml", "csv"}
  <2>1. \E n \in Nat : /\ Len(lines) = n /\ DOMAIN lines = 1..n
                       /\ \A k \in 1..n : \E body : MadeOk(lines[k], body)
    <3> DEFINE places == CASE Format = "json" -> TextPlaces
                           [] Format = "xml" -> DOMAIN records
                           [] Format = "csv" -> RowPlaces
    <3>1. places \in SUBSET (DOMAIN records)
      BY <1>1 DEF TextPlaces, RowPlaces
    <3>2. Cardinality(places) \in Nat
      BY <3>1, Places
    <3>3. \/ DOMAIN lines = 1..1 /\ Len(lines) = 1 /\ MadeOk(lines[1], <<>>)
          \/ /\ Len(lines) = Cardinality(places) /\ DOMAIN lines = 1..Cardinality(places)
             /\ \A k \in 1..Cardinality(places) :
                  MadeOk(lines[k], records[InOrder(places)[k]].body)
      BY <1>1, MadeLines, Zenon
    <3> HIDE DEF places
    <3>4. \A k \in 1..1 : k = 1
      OBVIOUS
    <3> QED BY <3>2, <3>3, <3>4
  <2>2. PICK n \in Nat : /\ Len(lines) = n /\ DOMAIN lines = 1..n
                        /\ \A k \in 1..n : \E body : MadeOk(lines[k], body)
    BY <2>1
  <2>3. \A k \in 1..n : lines[k].text = TRUE /\ lines[k].trails = FALSE /\ lines[k].head = FALSE
    BY <2>2 DEF MadeOk
  <2> QED BY <2>2, <2>3 DEF LinesOk
<1>2. CASE Format = "none"
  <2>1. lines = records
    BY <1>2 DEF LinesOf
  <2> QED BY <2>1, RecordsOk DEF LinesOk, RecordOk
<1> QED BY <1>1, <1>2, Formats

LEMMA InitInv == Init => Inv
BY DEF Init, Inv, NotBegun, Loop!Init

\* Begun is about the lines, which do not change any more, and the loop.
LEMMA StaysBegun ==
  ASSUME Begun, document' = document, lines' = lines, Grouping'
  PROVE  Begun'
BY SameDocument, SameLines DEF Begun

\* The lines that Split takes.
Taken == document \in Documents /\ ~ Malformed(Format) /\ lines = LinesOf(Format)

LEMMA TakenLines == Taken => LinesOk
BY LinesAreLines DEF Taken

LEMMA StartGrouping ==
  ASSUME LinesOk, index = 1, events = <<>>, chunks = <<>>, accepts = FALSE, ended = "no",
         offset \in Nat
  PROVE  Grouping
<1>0. Len(lines) \in Nat /\ DOMAIN lines = 1..Len(lines)
  BY DEF LinesOk
<1>1. ~ OpenBefore(1)
  BY DEF OpenBefore
<1>2. \A b \in Loop!Beginnings : ~ (b < 1)
  BY <1>0 DEF Loop!Beginnings
<1>3. <<>> \in Seq(Parts) /\ <<>> \in Seq(Nat) /\ Len(<<>>) = 0 /\ 1..0 = {}
  OBVIOUS
<1>4. Grouped(<<>>, 1)
  BY <1>2, <1>3 DEF Grouped
<1>5. Loop!Closed = <<>>
  BY DEF Loop!Closed
<1>6. 0 <= MaxEvents
  BY BudgetAssumption
<1>7. index \in 1..(Len(lines) + 1)
  BY <1>0
<1>8. Grouped(Loop!Closed, index) /\ Len(Loop!Closed) <= MaxEvents
  BY <1>3, <1>4, <1>5, <1>6
<1>9. accepts \in BOOLEAN /\ ~ accepts /\ (accepts <=> OpenBefore(index))
  BY <1>1
<1> QED BY <1>3, <1>7, <1>8, <1>9 DEF Grouping

Starting ==
  LinesOk /\ index = 1 /\ events = <<>> /\ chunks = <<>> /\ accepts = FALSE /\ ended = "no"
    /\ offset \in Nat

LEMMA Starts == Starting => Grouping
BY StartGrouping DEF Starting

LEMMA SplitInv ==
  ASSUME Inv, Split
  PROVE  Inv'
<1>1. document \in Documents /\ NotBegun /\ output = <<>>
  BY Formats DEF Inv, Split
<1>2. document' = document /\ lines' = LinesOf(Format) /\ reading' = Format /\ output' = <<>>
      /\ ~ OverBudget(Format) /\ ~ Malformed(Format)
      /\ index' = 1 /\ events' = <<>> /\ chunks' = <<>> /\ accepts' = FALSE /\ ended' = "no"
      /\ offset' \in Nat
  BY <1>1 DEF Split, NotBegun
<1>3. Taken'
  <2>1. document' \in Documents /\ ~ Malformed(Format)' /\ lines' = LinesOf(Format)'
    BY <1>1, <1>2, SameDocument
  <2> QED BY <2>1 DEF Taken
<1>4. LinesOk'
  BY <1>3, TakenLines, PTL
<1>5. Starting'
  BY <1>2, <1>4 DEF Starting
<1>6. Grouping'
  BY <1>5, Starts, PTL
<1>7. ~ OverBudget(Format)' /\ ~ Malformed(Format)' /\ lines' = LinesOf(Format)' /\ Format' = Format
  BY <1>2, SameDocument
<1>8. Begun'
  BY <1>4, <1>6, <1>7 DEF Begun
<1> QED BY <1>1, <1>2, <1>7, <1>8 DEF Inv
\* The number of events is at most that of the lines that begin one.
LEMMA GroupedSome ==
  ASSUME LinesOk, NEW n, NEW all, Grouped(all, n)
  PROVE  Len(all) <= Cardinality(Loop!Beginnings)
<1>0. Len(lines) \in Nat /\ DOMAIN lines = 1..Len(lines)
  BY DEF LinesOk
<1>1. IsFiniteSet(Loop!Beginnings)
  <2>1. IsFiniteSet(1..Len(lines)) /\ Loop!Beginnings \subseteq 1..Len(lines)
    BY <1>0, FS_Interval DEF Loop!Beginnings
  <2> QED BY <2>1, FS_Subset
<1>2. Len(all) \in Nat
  BY DEF Grouped
<1> DEFINE f == [m \in 1..Len(all) |-> all[m].offset]
<1>3. f \in [1..Len(all) -> Loop!Beginnings]
  BY DEF Grouped
<1>4. \A m, k \in 1..Len(all) : f[m] = f[k] => m = k
  <2> SUFFICES ASSUME NEW m \in 1..Len(all), NEW k \in 1..Len(all), f[m] = f[k], m # k
               PROVE  FALSE
    OBVIOUS
  <2>1. m < k \/ k < m
    BY <1>2
  <2>2. (m < k => all[m].offset < all[k].offset) /\ (k < m => all[k].offset < all[m].offset)
    BY DEF Grouped
  <2>3. PICK a \in Nat : a = all[m].offset
    BY GroupedParts
  <2>4. a < a
    BY <2>1, <2>2, <2>3
  <2> QED BY <2>4
<1>5. f \in Injection(1..Len(all), Loop!Beginnings)
  BY <1>3, <1>4 DEF Injection, IsInjective
<1>6. Cardinality(1..Len(all)) <= Cardinality(Loop!Beginnings)
  BY <1>1, <1>5, FS_Injection
<1>7. Cardinality(1..Len(all)) = Len(all)
  <2>1. PICK m \in Nat : m = Len(all)
    BY <1>2
  <2>2. Cardinality(1..m) = IF 1 > m THEN 0 ELSE m - 1 + 1
    BY FS_Interval
  <2>3. (IF 1 > m THEN 0 ELSE m - 1 + 1) = m
    OBVIOUS
  <2> QED BY <2>1, <2>2, <2>3
<1> QED BY <1>6, <1>7

\* Closing an event again adds nothing.
LEMMA ClosedIs ==
  ASSUME Grouping
  PROVE  /\ chunks = <<>> => Loop!Closed = events
         /\ chunks # <<>> => Loop!Closed = Append(events, [offset |-> offset, lines |-> chunks])
         /\ Loop!Closed \in Seq(Parts)
BY DEF Loop!Closed, Grouping, Grouped

LEMMA ContinueGroups ==
  ASSUME LinesOk, Grouping, Loop!Continue
  PROVE  Grouping'
<1>0. Len(lines) \in Nat /\ DOMAIN lines = 1..Len(lines)
  BY DEF LinesOk
<1>1. /\ index \in 1..Len(lines) /\ ended = "no" /\ accepts /\ chunks # <<>> /\ lines[index].trails
      /\ chunks' = Append(chunks, index) /\ index' = index + 1 /\ lines' = lines
      /\ events' = events /\ offset' = offset /\ accepts' = accepts /\ ended' = ended
  BY <1>0 DEF Grouping, Loop!Continue, Loop!Looking, Loop!Continuation
<1>2. OpenBefore(index) /\ Loop!InTrace(index)
  BY <1>1, InTraceIs DEF Grouping
<1>3. /\ events \in Seq(Parts) /\ offset \in Nat /\ chunks \in Seq(Nat) /\ index \in Nat
      /\ Grouped(Append(events, [offset |-> offset, lines |-> chunks]), index)
  <2>1. events \in Seq(Parts) /\ offset \in Nat /\ chunks \in Seq(Nat) /\ Grouped(Loop!Closed, index)
    BY DEF Grouping
  <2>2. index \in Nat
    BY <1>0, <1>1
  <2>3. Loop!Closed = Append(events, [offset |-> offset, lines |-> chunks])
    BY <1>1, ClosedIs
  <2> QED BY <2>1, <2>2, <2>3
<1>4. Grouped(Append(events, [offset |-> offset, lines |-> Append(chunks, index)]), index + 1)
  BY <1>1, <1>2, <1>3, GroupedContinue
<1>5. chunks' \in Seq(Nat) /\ chunks' # <<>>
  BY <1>1, <1>3
<1>6. Loop!Closed' = Append(events, [offset |-> offset, lines |-> Append(chunks, index)])
  BY <1>1, <1>5 DEF Loop!Closed
<1>7. Grouped(Loop!Closed, index)'
  BY <1>1, <1>4, <1>6, SameLines
<1>8. OpenBefore(index + 1)
  BY <1>0, <1>1, <1>2, OpenNext
<1>9. OpenBefore(index)'
  BY <1>1, <1>8, SameLines
<1>10. Len(Loop!Closed') <= MaxEvents
  <2>1. [offset |-> offset, lines |-> chunks] \in Parts
        /\ [offset |-> offset, lines |-> Append(chunks, index)] \in Parts
    BY <1>1, <1>3, <1>5 DEF Parts
  <2>2. Len(Loop!Closed') = Len(events) + 1 /\ Len(Loop!Closed) = Len(events) + 1
    BY <1>1, <1>3, <1>6, <2>1, ClosedIs, Appended
  <2> QED BY <2>2 DEF Grouping
<1>11. index' \in 1..(Len(lines') + 1)
  BY <1>0, <1>1
<1>12. accepts' /\ accepts' \in BOOLEAN /\ ended' = "no"
  BY <1>1 DEF Grouping
<1> QED BY <1>1, <1>3, <1>5, <1>7, <1>9, <1>10, <1>11, <1>12 DEF Grouping
LEMMA SkipGroups ==
  ASSUME LinesOk, Grouping, Loop!SkipBlank
  PROVE  Grouping'
<1>0. Len(lines) \in Nat /\ DOMAIN lines = 1..Len(lines)
  BY DEF LinesOk
<1>1. /\ index \in 1..Len(lines) /\ ended = "no" /\ ~ lines[index].text
      /\ ~ (accepts /\ chunks # <<>> /\ lines[index].trails)
      /\ index' = index + 1 /\ lines' = lines /\ chunks' = chunks
      /\ events' = events /\ offset' = offset /\ accepts' = accepts /\ ended' = ended
  BY <1>0 DEF Grouping, Loop!SkipBlank, Loop!Looking, Loop!Continuation
<1>2. (accepts => chunks # <<>>) /\ (accepts <=> OpenBefore(index))
  BY <1>1 DEF Grouping
<1>3. ~ Loop!InTrace(index)
  BY <1>1, <1>2, InTraceIs
<1>4. Grouped(Loop!Closed, index + 1)
  BY <1>1, <1>3, GroupedSkip DEF Grouping
<1>5. Loop!Closed' = Loop!Closed
  BY <1>1 DEF Loop!Closed
<1>6. Grouped(Loop!Closed, index)'
  BY <1>1, <1>4, <1>5, SameLines
<1>7. ~ lines[index].head
  BY <1>1 DEF LinesOk
<1>8. OpenBefore(index + 1) <=> OpenBefore(index)
  BY <1>0, <1>1, <1>7, OpenNext
<1>9. OpenBefore(index)' <=> OpenBefore(index + 1)
  BY <1>1, SameLines
<1>10. index' \in 1..(Len(lines') + 1)
  BY <1>0, <1>1
<1>11. accepts' \in BOOLEAN /\ (accepts' <=> accepts)
  BY <1>1 DEF Grouping
<1>12. (accepts' => chunks' # <<>>) /\ (accepts' <=> OpenBefore(index)')
  BY <1>1, <1>2, <1>8, <1>9, <1>11
<1> QED BY <1>1, <1>5, <1>6, <1>10, <1>11, <1>12 DEF Grouping

LEMMA StartGroups ==
  ASSUME LinesOk, Grouping, Loop!StartEvent
  PROVE  Grouping'
<1>0. Len(lines) \in Nat /\ DOMAIN lines = 1..Len(lines)
  BY DEF LinesOk
<1>1. /\ index \in 1..Len(lines) /\ ended = "no" /\ lines[index].text
      /\ ~ (accepts /\ chunks # <<>> /\ lines[index].trails)
      /\ Len(Loop!Closed) + 1 <= MaxEvents
      /\ index' = index + 1 /\ lines' = lines /\ chunks' = <<index>>
      /\ events' = Loop!Closed /\ offset' = index /\ accepts' = lines[index].head /\ ended' = ended
  BY <1>0 DEF Grouping, Loop!StartEvent, Loop!Looking, Loop!Continuation, Loop!WithinBudget
<1>2. (accepts => chunks # <<>>) /\ (accepts <=> OpenBefore(index))
  BY <1>1 DEF Grouping
<1>3. ~ Loop!InTrace(index)
  BY <1>1, <1>2, InTraceIs
<1>4. Grouped(Append(Loop!Closed, [offset |-> index, lines |-> <<index>>]), index + 1)
  BY <1>1, <1>3, GroupedStart DEF Grouping
<1>5. chunks' # <<>> /\ chunks' \in Seq(Nat) /\ index \in Nat
  BY <1>0, <1>1
<1>6. Loop!Closed' = Append(Loop!Closed, [offset |-> index, lines |-> <<index>>])
  <2>1. Loop!Closed' = Append(events', [offset |-> offset', lines |-> chunks'])
    BY <1>5 DEF Loop!Closed
  <2> QED BY <1>1, <2>1
<1>7. Grouped(Loop!Closed, index)'
  BY <1>1, <1>4, <1>6, SameLines
<1>8. lines[index].head \in BOOLEAN
  BY <1>1 DEF LinesOk
<1>9. OpenBefore(index + 1) <=> lines[index].head
  <2>1. OpenBefore(index) /\ (lines[index].trails \/ ~ lines[index].text) => FALSE
    BY <1>1, <1>2
  <2> QED BY <1>0, <1>1, <2>1, OpenNext
<1>10. OpenBefore(index)' <=> OpenBefore(index + 1)
  BY <1>1, SameLines
<1>11. Len(Loop!Closed') <= MaxEvents
  <2>1. [offset |-> index, lines |-> <<index>>] \in Parts /\ Loop!Closed \in Seq(Parts)
    BY <1>1, <1>5, ClosedIs DEF Parts
  <2>2. Len(Loop!Closed') = Len(Loop!Closed) + 1
    BY <1>6, <2>1, Appended
  <2> QED BY <1>1, <2>2
<1>12. index' \in 1..(Len(lines') + 1)
  BY <1>0, <1>1
<1>13. accepts' \in BOOLEAN /\ (accepts' <=> OpenBefore(index)')
  BY <1>1, <1>8, <1>9, <1>10
<1>14. events' \in Seq(Parts) /\ offset' \in Nat
  BY <1>1, <1>5, ClosedIs
<1> QED BY <1>1, <1>5, <1>7, <1>11, <1>12, <1>13, <1>14 DEF Grouping

LEMMA ExceedGroups ==
  ASSUME LinesOk, Grouping, Loop!ExceedBudget
  PROVE  Grouping'
<1>0. Len(lines) \in Nat /\ DOMAIN lines = 1..Len(lines)
  BY DEF LinesOk
<1>1. /\ index \in 1..Len(lines) /\ ended = "no" /\ lines[index].text
      /\ ~ (accepts /\ chunks # <<>> /\ lines[index].trails)
      /\ ~ (Len(Loop!Closed) + 1 <= MaxEvents)
      /\ index' = index /\ lines' = lines /\ chunks' = chunks
      /\ events' = events /\ offset' = offset /\ accepts' = accepts /\ ended' = "raised"
  BY <1>0 DEF Grouping, Loop!ExceedBudget, Loop!Looking, Loop!Continuation, Loop!WithinBudget
<1>2. (accepts => chunks # <<>>) /\ (accepts <=> OpenBefore(index))
  BY <1>1 DEF Grouping
<1>3. ~ Loop!InTrace(index)
  BY <1>1, <1>2, InTraceIs
<1>4. Grouped(Append(Loop!Closed, [offset |-> index, lines |-> <<index>>]), index + 1)
  BY <1>1, <1>3, GroupedStart DEF Grouping
<1>5. Cardinality(Loop!Beginnings) > MaxEvents
  <2>0. index \in Nat
    BY <1>0, <1>1
  <2>1. [offset |-> index, lines |-> <<index>>] \in Parts /\ Loop!Closed \in Seq(Parts)
    BY <2>0, ClosedIs DEF Parts
  <2>2. Len(Append(Loop!Closed, [offset |-> index, lines |-> <<index>>])) = Len(Loop!Closed) + 1
        /\ Len(Loop!Closed) \in Nat
    BY <2>1, Appended
  <2>3. Len(Loop!Closed) + 1 <= Cardinality(Loop!Beginnings)
    BY <1>4, <2>2, GroupedSome
  <2>4. Cardinality(Loop!Beginnings) \in Nat
    <3>1. IsFiniteSet(1..Len(lines)) /\ Loop!Beginnings \subseteq 1..Len(lines)
      BY <1>0, FS_Interval DEF Loop!Beginnings
    <3> QED BY <3>1, FS_Subset, FS_CardinalityType
  <2> QED BY <1>1, <2>2, <2>3, <2>4, BudgetAssumption
<1>6. Loop!Closed' = Loop!Closed
  BY <1>1 DEF Loop!Closed
<1>7. Grouped(Loop!Closed, index)'
  BY <1>1, <1>6, SameLines DEF Grouping
<1>8. Cardinality(Loop!Beginnings') > MaxEvents
  BY <1>1, <1>5, SameLines
<1> QED BY <1>1, <1>6, <1>7, <1>8 DEF Grouping

LEMMA ReturnGroups ==
  ASSUME LinesOk, Grouping, Loop!Return
  PROVE  Grouping'
<1>0. Len(lines) \in Nat
  BY DEF LinesOk
<1>1. /\ index = Len(lines) + 1 /\ ended = "no"
      /\ index' = index /\ lines' = lines /\ chunks' = <<>>
      /\ events' = Loop!Closed /\ offset' = offset /\ accepts' = accepts /\ ended' = "returned"
  BY <1>0 DEF Grouping, Loop!Return
<1>2. Loop!Closed' = Loop!Closed
  <2>1. Loop!Closed' = events'
    BY <1>1 DEF Loop!Closed
  <2> QED BY <1>1, <2>1
<1>3. Grouped(Loop!Closed, index)'
  BY <1>1, <1>2, SameLines DEF Grouping
<1>4. events' \in Seq(Parts) /\ chunks' \in Seq(Nat)
  BY <1>1, ClosedIs
<1> QED BY <1>1, <1>2, <1>3, <1>4 DEF Grouping

\* Before run takes the lines.
LEMMA NotYet ==
  ASSUME Inv, reading = "no"
  PROVE  document \in Documents /\ NotBegun /\ output = <<>>
BY Formats DEF Inv

LEMMA NextInv == Inv /\ [Next]_vars => Inv'
<1> SUFFICES ASSUME Inv, [Next]_vars PROVE Inv'
  OBVIOUS
<1>0. document' = document
  BY DEF Next, vars, Exceed, Refuse, Split, Group, NormalizeEvents, Raise
<1>1. CASE Exceed
  <2>1. document \in Documents /\ NotBegun /\ output = <<>> /\ OverBudget(Format)
        /\ reading' = "raised" /\ output' = output
        /\ lines' = lines /\ index' = index /\ events' = events /\ chunks' = chunks
        /\ offset' = offset /\ accepts' = accepts /\ ended' = ended
    BY <1>1, NotYet DEF Exceed, loop
  <2>2. NotBegun'
    BY <2>1 DEF NotBegun
  <2>3. OverBudget(Format)'
    BY <1>0, <2>1, SameDocument
  <2> QED BY <1>0, <2>1, <2>2, <2>3 DEF Inv
<1>2. CASE Refuse
  <2>1. document \in Documents /\ NotBegun /\ ~ OverBudget(Format) /\ Malformed(Format)
        /\ reading' = "refused" /\ output' = Rejected(Format)
        /\ lines' = lines /\ index' = index /\ events' = events /\ chunks' = chunks
        /\ offset' = offset /\ accepts' = accepts /\ ended' = ended
    BY <1>2, NotYet DEF Refuse, loop
  <2>2. NotBegun'
    BY <2>1 DEF NotBegun
  <2>3. ~ OverBudget(Format)' /\ Malformed(Format)' /\ Rejected(Format)' = Rejected(Format)
    BY <1>0, <2>1, SameDocument DEF Rejected
  <2> QED BY <1>0, <2>1, <2>2, <2>3 DEF Inv
<1>3. CASE Split
  BY <1>3, SplitInv
<1>4. CASE Group
  <2>1. /\ document \in Documents /\ reading = Format /\ Begun /\ output = <<>>
        /\ Loop!Next /\ reading' = reading /\ output' = output
    BY <1>4 DEF Group, Inv
  <2>2. Grouping'
    <3>1. LinesOk /\ Grouping
      BY <2>1 DEF Begun
    <3> QED BY <2>1, <3>1, ContinueGroups, SkipGroups, StartGroups, ExceedGroups, ReturnGroups
            DEF Loop!Next
  <2>3. lines' = lines
    BY <2>1 DEF Loop!Next, Loop!Continue, Loop!SkipBlank, Loop!StartEvent, Loop!ExceedBudget, Loop!Return
  <2>4. Begun'
    BY <1>0, <2>1, <2>2, <2>3, StaysBegun
  <2>5. Format' = Format
    BY <1>0, SameDocument
  <2> QED BY <1>0, <2>1, <2>4, <2>5 DEF Inv
<1>5. ASSUME UNCHANGED loop, Begun PROVE Begun'
  <2>1. lines' = lines /\ index' = index /\ events' = events /\ chunks' = chunks
        /\ offset' = offset /\ accepts' = accepts /\ ended' = ended
    BY <1>5 DEF loop
  <2>2. Loop!Closed' = Loop!Closed
    BY <2>1 DEF Loop!Closed
  <2>3. Grouping'
    BY <1>5, <2>1, <2>2, SameLines DEF Grouping, Begun
  <2> QED BY <1>0, <1>5, <2>1, <2>3, StaysBegun
<1>6. CASE NormalizeEvents
  <2>1. /\ document \in Documents /\ reading = Format /\ Begun /\ ended = "returned"
        /\ reading' = "done" /\ UNCHANGED loop
        /\ output' = [i \in DOMAIN events |->
                       Event(lines[events[i].lines[1]], Format, events[i].offset)]
    BY <1>6 DEF NormalizeEvents, Inv
  <2>2. Begun' /\ Format' = Format /\ ended' = ended /\ events' = events /\ lines' = lines
    BY <1>0, <1>5, <2>1, SameDocument DEF loop
  <2>3. output' = [i \in DOMAIN events' |->
                    Event(lines'[events'[i].lines[1]], Format', events'[i].offset)]
    BY <2>1, <2>2
  <2>4. (reading = "done" /\ Begun /\ ended = "returned"
          /\ output = [i \in DOMAIN events |->
                         Event(lines[events[i].lines[1]], Format, events[i].offset)])'
    BY <2>1, <2>2, <2>3 DEF Event
  <2> QED BY <1>0, <2>1, <2>4 DEF Inv
<1>7. CASE Raise
  <2>1. /\ document \in Documents /\ reading = Format /\ Begun /\ output = <<>>
        /\ ended = "raised" /\ reading' = "raised" /\ output' = output /\ UNCHANGED loop
    BY <1>7 DEF Raise, Inv, NotBegun
  <2>2. Begun' /\ ended' = ended
    BY <1>5, <2>1 DEF loop
  <2> QED BY <1>0, <2>1, <2>2 DEF Inv
<1>8. CASE UNCHANGED vars
  <2>1. reading' = reading /\ output' = output /\ UNCHANGED loop
        /\ lines' = lines /\ index' = index /\ events' = events /\ chunks' = chunks
        /\ offset' = offset /\ accepts' = accepts /\ ended' = ended
    BY <1>8 DEF vars, loop
  <2>2. NotBegun => NotBegun'
    BY <2>1 DEF NotBegun
  <2>3. Begun => Begun'
    BY <1>5, <2>1
  <2>4. Format' = Format /\ (OverBudget(Format)' <=> OverBudget(Format))
        /\ (Malformed(Format)' <=> Malformed(Format)) /\ Rejected(Format)' = Rejected(Format)
    BY <1>0, SameDocument DEF Rejected
  <2>5. [i \in DOMAIN events |-> Event(lines[events[i].lines[1]], Format, events[i].offset)]'
          = [i \in DOMAIN events |-> Event(lines[events[i].lines[1]], Format, events[i].offset)]
    BY <2>1, <2>4 DEF Event
  <2> QED BY <1>0, <2>1, <2>2, <2>3, <2>4, <2>5 DEF Inv
<1> QED BY <1>1, <1>2, <1>3, <1>4, <1>6, <1>7, <1>8 DEF Next

\* The invariant holds throughout.
THEOREM Invariant == Spec => []Inv
<1>1. Init => Inv
  BY InitInv
<1>2. Inv /\ [Next]_vars => Inv'
  BY NextInv
<1> QED BY <1>1, <1>2, PTL DEF Spec

THEOREM Traces == Spec => []EventsAreTraces
<1>1. Inv => EventsAreTraces
  <2> SUFFICES ASSUME Inv, ended = "returned" PROVE Loop!EventsAreTraces
    BY DEF EventsAreTraces, Loop!EventsAreTraces
  <2>1. LinesOk /\ Grouping
    BY DEF Inv, NotBegun, Begun
  <2>2. Grouped(events, Len(lines) + 1)
    BY <2>1, ClosedIs DEF Grouping
  <2>3. /\ Len(events) = Cardinality(Loop!Beginnings)
        /\ {e.offset : e \in Range(events)} = Loop!Beginnings
        /\ \A e \in Range(events) :
             /\ Range(e.lines) = Loop!Extent(e.offset)
             /\ \A m, n \in DOMAIN e.lines : m < n => e.lines[m] < e.lines[n]
    BY <2>1, <2>2, GroupedAll
  <2>4. \A S : Loop!Cardinality(S) = Cardinality(S)
    BY DEF Loop!Cardinality, Cardinality, Loop!IsFiniteSet, IsFiniteSet
  <2>5. \A f : Loop!Range(f) = Range(f)
    BY DEF Loop!Range, Range
  <2> QED BY <2>3, <2>4, <2>5 DEF Loop!EventsAreTraces
<1> QED BY <1>1, Invariant, PTL

-------------------------------------------------------------------------------
(***************************************************************************)
(* The budget.                                                             *)
(***************************************************************************)

\* The rows of a table before the first that is ragged.
GoodRows ==
  {i \in DOMAIN records : records[i].json = "row" /\ \A j \in 1..i : records[j].json # "ragged"}

LEMMA Table ==
  ASSUME document \in Documents, document.text = "table"
  PROVE  /\ Held = GoodRows
         /\ RowsRead \in Nat /\ Cardinality(GoodRows) = RowsRead
         /\ Ragged = {} => /\ GoodRows = RowPlaces /\ RowsRead = Cardinality(RowPlaces)
                           /\ \A i \in DOMAIN records : records[i].json # "ragged"
<1> DEFINE o == InOrder(RowPlaces)
           n == Cardinality(RowPlaces)
<1>0. Len(records) \in Nat /\ DOMAIN records = 1..Len(records)
      /\ \A i \in 1..Len(records) : records[i].json \in {"row", "blank", "ragged"}
  BY RecordsOk
<1>1. RowPlaces \in SUBSET (DOMAIN records)
  BY DEF RowPlaces
<1>2. /\ RowPlaces \in SUBSET Nat /\ IsFiniteSet(RowPlaces) /\ n \in Nat
      /\ Len(Rows) = n /\ DOMAIN Rows = 1..n
      /\ \A k \in 1..n : o[k] \in RowPlaces /\ Rows[k] = records[o[k]]
  BY <1>1, Places DEF Rows, RowPlaces
<1>3. /\ \A i \in RowPlaces : \E k \in 1..n : o[k] = i
      /\ \A k, l \in 1..n : k < l => o[k] < o[l]
  BY <1>2, Ordered
<1> HIDE DEF o, n
<1>4. Held = GoodRows
  BY DEF Held, GoodRows
<1>5. GoodRows \subseteq RowPlaces /\ GoodRows \in SUBSET Nat /\ IsFiniteSet(GoodRows)
  <2>1. GoodRows \subseteq RowPlaces
    BY DEF GoodRows, RowPlaces
  <2> QED BY <1>2, <2>1, FS_Subset
<1>6. Ragged = {k \in 1..n : records[o[k]].json = "ragged"}
  BY <1>2 DEF Ragged
<1>7. ASSUME NEW i \in DOMAIN records, records[i].json = "ragged"
      PROVE  \E k \in Ragged : o[k] = i
  <2>1. i \in RowPlaces
    BY <1>7 DEF RowPlaces
  <2>2. PICK k \in 1..n : o[k] = i
    BY <1>3, <2>1
  <2> QED BY <1>6, <1>7, <2>2
<1>8. CASE Ragged = {}
  <2>1. \A i \in DOMAIN records : records[i].json # "ragged"
    BY <1>7, <1>8
  <2>2. GoodRows = RowPlaces
    BY <1>0, <2>1 DEF GoodRows, RowPlaces
  <2>3. RowsRead = n
    BY <1>2, <1>8 DEF RowsRead
  <2> QED BY <1>2, <1>4, <2>1, <2>2, <2>3 DEF n
<1>9. CASE Ragged # {}
  <2>1. Ragged \in SUBSET Nat
    BY <1>2, <1>6
  <2>2. \E r \in Ragged : \A j \in Ragged : r <= j
    BY <1>9, <2>1, LeastNatural
  <2>3. PICK r : r \in Ragged /\ (\A j \in Ragged : r <= j) /\ RowsRead = r - 1
    BY <1>9, <2>2 DEF RowsRead
  <2>4. r \in 1..n /\ r - 1 \in Nat /\ records[o[r]].json = "ragged"
    BY <1>2, <1>6, <2>3
  <2>5. ASSUME NEW k \in 1..(r - 1) PROVE o[k] \in GoodRows
    <3>1. k \in 1..n /\ k < r /\ o[k] \in RowPlaces /\ o[k] \in DOMAIN records
      BY <1>1, <1>2, <2>4
    <3>2. ASSUME NEW j \in 1..o[k], records[j].json = "ragged" PROVE FALSE
      <4>1. o[k] \in 1..Len(records)
        BY <1>0, <3>1
      <4>2. j \in DOMAIN records
        BY <1>0, <4>1
      <4>3. PICK l \in Ragged : o[l] = j
        BY <1>7, <3>2, <4>2
      <4>4. l \in 1..n /\ r <= l
        BY <1>6, <2>3, <4>3
      <4>5. k < l
        BY <2>4, <3>1, <4>4
      <4>6. o[k] < j
        BY <1>3, <3>1, <4>3, <4>4, <4>5
      <4> QED BY <4>1, <4>6
    <3>3. records[o[k]].json # "blank" /\ records[o[k]].json # "ragged"
      <4>1. o[k] \in 1..o[k]
        BY <1>0, <3>1
      <4> QED BY <3>1, <3>2, <4>1 DEF RowPlaces
    <3>4. records[o[k]].json = "row"
      BY <1>0, <3>1, <3>3
    <3> QED BY <3>1, <3>2, <3>4 DEF GoodRows
  <2>6. ASSUME NEW i \in GoodRows PROVE \E k \in 1..(r - 1) : o[k] = i
    <3>1. PICK k \in 1..n : o[k] = i
      BY <1>3, <1>5
    <3>2. i \in Nat /\ o[r] \in Nat /\ o[r] \in DOMAIN records
      BY <1>1, <1>2, <1>5, <2>4
    <3>3. ~ (o[r] \in 1..i)
      BY <2>4 DEF GoodRows
    <3>4. i < o[r]
      BY <1>0, <3>2, <3>3
    <3>5. k # r /\ ~ (r < k)
      <4>1. k = r => o[r] = i
        BY <3>1
      <4>2. r < k => o[r] < i
        BY <1>3, <2>4, <3>1
      <4> QED BY <3>2, <3>4, <4>1, <4>2
    <3>6. k \in 1..(r - 1)
      BY <2>4, <3>5
    <3> QED BY <3>1, <3>6
  <2>7. \A k \in 1..(r - 1) : k \in 1..n
    BY <1>2, <2>4
  <2>8. Enumerates(o, r - 1, GoodRows)
    BY <1>3, <2>5, <2>6, <2>7 DEF Enumerates
  <2>9. r - 1 = Cardinality(GoodRows)
    BY <1>5, <2>4, <2>8, OnlyOrder
  <2> QED BY <1>4, <1>9, <2>3, <2>4, <2>9
<1> QED BY <1>8, <1>9

\* The text of a document of each format.
LEMMA TextOfFormat ==
  ASSUME document \in Documents
  PROVE  /\ Format = "json" => document.text \in {"list", "lines"}
         /\ Format = "xml" /\ ~ Malformed(Format) => document.text \in {"events", "element"}
         /\ Format = "csv" => document.text \in {"table", "headless"}
         /\ Format = "csv" /\ ~ Malformed(Format) => document.text = "table" /\ Ragged = {}
         /\ Format = "none" => document.text = "lines"
         /\ document.text = "table" /\ ~ document.xml_name => Format = "csv"
         /\ document.text = "lines" /\ ~ document.xml_name =>
              Format \in {"json", "none"} \/ (Texts # <<>> /\ Texts[1].json = "tag")
<1>1. document.text \in {"binary", "lines", "list", "events", "element", "deep", "table", "headless"}
  BY DocumentsAssumption
<1>2. document.text = "list" => StartsLikeJson /\ DecodeJson # "error"
  BY DEF StartsLikeJson, DecodeJson
<1>3. StartsLikeJson => document.text \in {"list", "lines"}
  BY DEF StartsLikeJson
<1>4. Format = "json" => StartsLikeJson
  BY DEF Format
<1>5. Format = "csv" => document.text \in {"table", "headless"}
  BY DEF Format, LooksLikeTable
<1>6. Format = "none" => document.text = "lines"
  BY <1>1, <1>2, Zenon DEF Format, LooksLikeXml, LooksLikeTable
<1>7. Format = "xml" /\ ~ Malformed(Format) => document.text \in {"events", "element"}
  BY DEF Malformed, DecodesAsXml
<1>8. Format = "csv" /\ ~ Malformed(Format) => document.text = "table" /\ Ragged = {}
  BY <1>5 DEF Malformed
<1>9. document.text = "table" /\ ~ document.xml_name => Format = "csv"
  BY <1>3 DEF Format, LooksLikeXml, LooksLikeTable
<1>10. document.text = "lines" /\ ~ document.xml_name =>
         Format \in {"json", "none"} \/ (Texts # <<>> /\ Texts[1].json = "tag")
  BY DEF Format, LooksLikeXml, LooksLikeTable
<1> QED BY <1>3, <1>4, <1>5, <1>6, <1>7, <1>8, <1>9, <1>10
\* Lines made for records begin an event each, and are no more than the budget.
LEMMA MadeEvents ==
  ASSUME document \in Documents, Begun, Format # "none"
  PROVE  /\ Format \in {"json", "xml", "csv"}
         /\ Loop!Beginnings = 1..Len(lines) /\ Len(lines) \in Nat /\ Len(lines) <= MaxEvents
<1>1. LinesOk /\ ~ Malformed(Format) /\ ~ OverBudget(Format) /\ lines = LinesOf(Format)
  BY DEF Begun
<1>2. Format \in {"json", "xml", "csv"}
  BY <1>1, Formats
<1> DEFINE places == CASE Format = "json" -> TextPlaces
                       [] Format = "xml" -> DOMAIN records
                       [] Format = "csv" -> RowPlaces
<1>3. places \in SUBSET (DOMAIN records)
  BY <1>2 DEF TextPlaces, RowPlaces
<1>4. \/ DOMAIN lines = 1..1 /\ Len(lines) = 1 /\ MadeOk(lines[1], <<>>)
      \/ /\ Len(lines) = Cardinality(places) /\ DOMAIN lines = 1..Cardinality(places)
         /\ \A k \in 1..Cardinality(places) : MadeOk(lines[k], records[InOrder(places)[k]].body)
  BY <1>1, <1>2, MadeLines, Zenon
<1>5. DOMAIN lines = 1..Len(lines) /\ Len(lines) \in Nat
  BY <1>1 DEF LinesOk
<1>6. \A k \in 1..Len(lines) : lines[k].text = TRUE /\ lines[k].trails = FALSE
  <2> HIDE DEF places
  <2>1. \A k \in 1..1 : k = 1
    OBVIOUS
  <2> QED BY <1>4, <2>1 DEF MadeOk
<1>7. Loop!Beginnings = 1..Len(lines)
  BY <1>5, <1>6 DEF Loop!Beginnings, Loop!InTrace
<1>8. Len(lines) <= MaxEvents
  <2>1. CASE Format \in {"json", "xml"}
    <3>1. ~ (Len(lines) > MaxEvents)
      BY <1>1, <2>1 DEF OverBudget
    <3> QED BY <1>5, <3>1, BudgetAssumption
  <2>2. CASE Format = "csv"
    <3>1. document.text = "table" /\ Ragged = {}
      BY <1>1, <2>2, TextOfFormat
    <3>2. RowsRead \in Nat /\ RowsRead = Cardinality(RowPlaces)
      BY <3>1, Table
    <3>3. ~ (RowsRead > MaxEvents)
      BY <1>1, <2>2, <3>1 DEF OverBudget
    <3>4. Len(lines) = Cardinality(RowPlaces)
      BY <1>1, <2>2, MadeLines
    <3> QED BY <3>2, <3>3, <3>4, BudgetAssumption
  <2> QED BY <1>2, <2>1, <2>2
<1> QED BY <1>2, <1>5, <1>7, <1>8

\* The places that Held picks where the document is no table.
LEMMA HeldIs ==
  ASSUME document \in Documents
  PROVE  /\ document.text = "table" => Held = GoodRows
         /\ document.text # "table" /\ ~ (document.text = "lines" /\ lines = records) =>
              Held = TextPlaces
         /\ reading \in {"none", "done", "raised"} /\ document.text = "lines" /\ lines = records =>
              Held = Loop!Beginnings
         /\ document.text \in {"events", "element"} => Held = DOMAIN records
<1>1. document.text = "table" => Held = GoodRows
  BY Table
<1>2. document.text # "table" /\ ~ (document.text = "lines" /\ lines = records) => Held = TextPlaces
  BY DEF Held, TextPlaces
<1>3. reading \in {"none", "done", "raised"} /\ document.text = "lines" /\ lines = records =>
        Held = Loop!Beginnings
  BY DEF Held
<1>4. document.text # "lines" => TextPlaces = DOMAIN records
  BY RecordsOk DEF TextPlaces
<1> QED BY <1>1, <1>2, <1>3, <1>4

\* The budget is exact for every reading: no document is refused for its size unless it
\* holds more than max_events records, and no more are normalized of one that is not.
THEOREM Budget == Spec => []BudgetIsExact
<1>1. ASSUME Inv, reading = "raised" PROVE Cardinality(Held) > MaxEvents
  <2>0. document \in Documents
    BY <1>1 DEF Inv
  <2>1. CASE NotBegun /\ OverBudget(Format)
    <3>1. CASE Format = "json"
      <4>1. Len(LinesOf("json")) > MaxEvents
        BY <2>1, <3>1 DEF OverBudget
      <4>2. Len(LinesOf("json")) = Cardinality(TextPlaces)
        BY <2>0, MadeLines
      <4>3. lines # records
        <5>1. SUFFICES ASSUME records = <<>> PROVE FALSE
          BY <2>1 DEF NotBegun
        <5>2. TextPlaces = {}
          BY <5>1 DEF TextPlaces
        <5>3. Len(LinesOf("json")) = 0
          BY <4>2, <5>2, FS_EmptySet
        <5> QED BY <4>1, <5>3, BudgetAssumption
      <4>4. Held = TextPlaces
        BY <2>0, <3>1, <4>3, HeldIs, TextOfFormat
      <4> QED BY <4>1, <4>2, <4>4
    <3>2. CASE Format = "xml"
      <4>1. Len(LinesOf("xml")) > MaxEvents /\ ~ Malformed(Format)
        BY <2>1, <3>2 DEF OverBudget
      <4>2. Len(LinesOf("xml")) = 1 \/ Len(LinesOf("xml")) = Cardinality(DOMAIN records)
        BY <2>0, MadeLines
      <4>3. Len(LinesOf("xml")) # 1
        <5>1. ~ (1 > MaxEvents)
          BY BudgetAssumption
        <5> QED BY <4>1, <5>1
      <4>4. Held = DOMAIN records
        BY <2>0, <3>2, <4>1, HeldIs, TextOfFormat
      <4> QED BY <4>1, <4>2, <4>3, <4>4
    <3>3. CASE Format = "csv"
      <4>1. document.text = "table" /\ RowsRead > MaxEvents
        BY <2>1, <3>3 DEF OverBudget
      <4> QED BY <2>0, <4>1, Table
    <3>4. Format \in {"json", "xml", "csv"}
      BY <2>1 DEF OverBudget
    <3> QED BY <3>1, <3>2, <3>3, <3>4
  <2>2. CASE Begun /\ ended = "raised"
    <3>1. Cardinality(Loop!Beginnings) > MaxEvents
      BY <2>2 DEF Begun, Grouping
    <3>2. Format = "none"
      <4> SUFFICES ASSUME Format # "none" PROVE FALSE
        OBVIOUS
      <4>1. Loop!Beginnings = 1..Len(lines) /\ Len(lines) \in Nat /\ Len(lines) <= MaxEvents
        BY <2>0, <2>2, MadeEvents
      <4>2. Cardinality(1..Len(lines)) = Len(lines)
        BY <4>1, FS_Interval
      <4> QED BY <3>1, <4>1, <4>2, BudgetAssumption
    <3>3. lines = records /\ document.text = "lines"
      BY <2>0, <2>2, <3>2, TextOfFormat DEF Begun, LinesOf
    <3>4. Held = Loop!Beginnings
      BY <1>1, <2>0, <3>3, HeldIs
    <3> QED BY <3>1, <3>4
  <2> QED BY <1>1, <2>1, <2>2, Formats DEF Inv
<1>2. ASSUME Inv, reading = "done" PROVE Len(output) <= MaxEvents
  <2>1. /\ Begun /\ ended = "returned"
        /\ output = [i \in DOMAIN events |->
                       Event(lines[events[i].lines[1]], Format, events[i].offset)]
    BY <1>2, Formats DEF Inv
  <2>2. Loop!Closed = events /\ Len(Loop!Closed) <= MaxEvents /\ events \in Seq(Parts)
    BY <2>1, ClosedIs DEF Begun, Grouping
  <2>3. DOMAIN events = 1..Len(events) /\ Len(events) \in Nat
    BY <2>2
  <2>4. output = [i \in 1..Len(events) |->
                   Event(lines[events[i].lines[1]], Format, events[i].offset)]
    BY <2>1, <2>3
  <2>5. Len(output) = Len(events)
    BY <2>3, <2>4
  <2> QED BY <2>2, <2>5
<1>3. ASSUME Inv, reading = "refused", document.text = "table", ~ document.xml_name
      PROVE  Cardinality(Held) <= MaxEvents
  <2>1. document \in Documents /\ ~ OverBudget(Format)
    BY <1>3, Formats DEF Inv
  <2>2. Format = "csv"
    BY <1>3, <2>1, TextOfFormat
  <2>3. ~ (RowsRead > MaxEvents)
    BY <1>3, <2>1, <2>2 DEF OverBudget
  <2> QED BY <1>3, <2>1, <2>3, Table, BudgetAssumption
<1>4. Inv => BudgetIsExact
  BY <1>1, <1>2, <1>3 DEF BudgetIsExact
<1> QED BY <1>4, Invariant, PTL
-------------------------------------------------------------------------------
(***************************************************************************)
(* The records and the events.                                             *)
(***************************************************************************)

\* The numbers from one in their order.
LEMMA OrderOfAll ==
  ASSUME NEW n \in Nat
  PROVE  Cardinality(1..n) = n /\ \A k \in 1..n : InOrder(1..n)[k] = k
<1>1. Enumerates([k \in 1..n |-> k], n, 1..n)
  BY DEF Enumerates
<1>2. IsFiniteSet(1..n) /\ 1..n \in SUBSET Nat
  BY FS_Interval
<1> QED BY <1>1, <1>2, OnlyOrder

\* Every record is one event, in the order of the records and at an offset of its own; what
\* spoils the other records is a value or a table that cannot be read, and lines of which
\* the first begins with a tag or repeats a key.
THEOREM Records == Spec => []EveryRecordIsOneEvent
<1>1. ASSUME Inv, reading = "done"
      PROVE  /\ \/ records = <<>> /\ LooksLikeXml /\ Len(output) = 1
                \/ [i \in DOMAIN output |-> output[i].record.body]
                     = [i \in DOMAIN HeldInOrder |-> records[HeldInOrder[i]].body]
             /\ \A i, j \in DOMAIN output : i < j => output[i].offset < output[j].offset
             /\ document.text = "table" => \A i \in DOMAIN records : records[i].json # "ragged"
  <2>1. /\ Begun /\ ended = "returned" /\ document \in Documents
        /\ output = [i \in DOMAIN events |->
                       Event(lines[events[i].lines[1]], Format, events[i].offset)]
    BY <1>1, Formats DEF Inv
  <2>2. LinesOk /\ Grouping /\ ~ Malformed(Format) /\ lines = LinesOf(Format)
    BY <2>1 DEF Begun
  <2>3. Grouped(events, Len(lines) + 1) /\ events \in Seq(Parts)
    BY <2>1, <2>2, ClosedIs DEF Grouping
  <2> DEFINE B == Loop!Beginnings
             n == Len(events)
  <2>4. /\ B \in SUBSET Nat /\ IsFiniteSet(B) /\ n = Cardinality(B) /\ n \in Nat
        /\ DOMAIN events = 1..n
        /\ \A m \in 1..n : events[m].offset = InOrder(B)[m]
    BY <2>2, <2>3, GroupedAll
  <2>5. \A m \in 1..n : events[m].lines[1] = events[m].offset
    BY <2>3 DEF Grouped, Covers
  <2>6. DOMAIN output = 1..n /\ Len(output) = n
        /\ \A m \in 1..n : /\ output[m].offset = InOrder(B)[m]
                           /\ output[m].record = lines[InOrder(B)[m]]
    <3>1. output = [i \in 1..n |-> Event(lines[events[i].lines[1]], Format, events[i].offset)]
      BY <2>1, <2>4
    <3>2. DOMAIN output = 1..n /\ Len(output) = n
      BY <2>4, <3>1
    <3>3. ASSUME NEW m \in 1..n
          PROVE  output[m].offset = InOrder(B)[m] /\ output[m].record = lines[InOrder(B)[m]]
      <4>1. output[m] = Event(lines[InOrder(B)[m]], Format, InOrder(B)[m])
        BY <2>4, <2>5, <3>1
      <4> QED BY <4>1 DEF Event
    <3> QED BY <3>2, <3>3
  <2> HIDE DEF B, n
  <2>7. \A i, j \in DOMAIN output : i < j => output[i].offset < output[j].offset
    BY <2>4, <2>6, Ordered
  <2>8. Format # "unknown"
    BY <2>2, Formats
  <2>9. document.text = "table" => \A i \in DOMAIN records : records[i].json # "ragged"
    <3> SUFFICES ASSUME document.text = "table"
                 PROVE  \A i \in DOMAIN records : records[i].json # "ragged"
      OBVIOUS
    <3>1. Format = "csv"
      BY <2>1, <2>2, <2>8, Formats, TextOfFormat
    <3>2. Ragged = {}
      BY <2>1, <2>2, <3>1, TextOfFormat
    <3> QED BY <2>1, <3>2, Table
  <2> DEFINE Same(S) ==
        /\ Held = S /\ n = Cardinality(S)
        /\ \A k \in 1..n : lines[InOrder(B)[k]].body = records[InOrder(S)[k]].body
  <2>10. (records = <<>> /\ LooksLikeXml /\ n = 1) \/ \E S : Same(S)
    <3>1. CASE Format = "none"
      <4>1. lines = records /\ document.text = "lines"
        BY <2>1, <2>2, <3>1, TextOfFormat DEF LinesOf
      <4>2. Held = B
        BY <1>1, <2>1, <4>1, HeldIs DEF B
      <4>3. Same(B)
        BY <2>4, <4>1, <4>2
      <4> QED BY <4>3
    <3>2. CASE Format # "none"
      <4>1. Format \in {"json", "xml", "csv"} /\ B = 1..Len(lines) /\ Len(lines) \in Nat
        BY <2>1, <3>2, MadeEvents DEF B
      <4>2. n = Len(lines) /\ \A k \in 1..n : InOrder(B)[k] = k
        BY <2>4, <4>1, OrderOfAll
      <4> DEFINE Bodies(S) ==
            /\ Len(lines) = Cardinality(S)
            /\ \A k \in 1..Cardinality(S) : MadeOk(lines[k], records[InOrder(S)[k]].body)
      <4>3. ASSUME NEW S, Bodies(S), Held = S PROVE Same(S)
        <5>1. \A k \in 1..n : lines[k].body = records[InOrder(S)[k]].body
          BY <4>2, <4>3 DEF MadeOk
        <5> QED BY <4>2, <4>3, <5>1
      <4>4. CASE Format = "json"
        <5>1. Bodies(TextPlaces)
          BY <2>1, <2>2, <4>4, MadeLines
        <5>2. Held = TextPlaces
          <6>1. CASE document.text = "lines" /\ lines = records
            <7>1. Held = B
              BY <1>1, <2>1, <6>1, HeldIs DEF B
            <7>2. \A k \in 1..Len(lines) : lines[k].text
              BY <5>1 DEF MadeOk
            <7>3. DOMAIN records = 1..Len(lines)
              BY <2>2, <6>1 DEF LinesOk
            <7>4. TextPlaces = 1..Len(lines)
              BY <6>1, <7>2, <7>3 DEF TextPlaces
            <7> QED BY <4>1, <7>1, <7>4
          <6>2. CASE ~ (document.text = "lines" /\ lines = records)
            BY <2>1, <4>4, <6>2, HeldIs, TextOfFormat
          <6> QED BY <6>1, <6>2
        <5> QED BY <4>3, <5>1, <5>2
      <4>5. CASE Format = "xml"
        <5>1. (records = <<>> /\ Len(lines) = 1) \/ Bodies(DOMAIN records)
          BY <2>1, <2>2, <4>5, MadeLines
        <5>2. Held = DOMAIN records
          BY <2>1, <2>2, <4>5, HeldIs, TextOfFormat
        <5>3. LooksLikeXml
          BY <4>5 DEF Format
        <5> QED BY <4>2, <4>3, <5>1, <5>2, <5>3
      <4>6. CASE Format = "csv"
        <5>1. Bodies(RowPlaces)
          BY <2>1, <2>2, <4>6, MadeLines
        <5>2. document.text = "table" /\ Ragged = {}
          BY <2>1, <2>2, <4>6, TextOfFormat
        <5>3. Held = RowPlaces
          BY <2>1, <5>2, Table
        <5> QED BY <4>3, <5>1, <5>3
      <4> QED BY <4>1, <4>4, <4>5, <4>6
    <3> QED BY <3>1, <3>2
  <2>11. ASSUME NEW S, Same(S)
         PROVE  [i \in DOMAIN output |-> output[i].record.body]
                  = [i \in DOMAIN HeldInOrder |-> records[HeldInOrder[i]].body]
    <3>1. HeldInOrder = InOrder(S) /\ DOMAIN InOrder(S) = 1..n
      BY <2>11 DEF HeldInOrder, InOrder
    <3>2. \A k \in 1..n : output[k].record.body = records[InOrder(S)[k]].body
      BY <2>6, <2>11
    <3> QED BY <2>6, <3>1, <3>2
  <2> HIDE DEF Same
  <2>12. \/ records = <<>> /\ LooksLikeXml /\ Len(output) = 1
         \/ [i \in DOMAIN output |-> output[i].record.body]
              = [i \in DOMAIN HeldInOrder |-> records[HeldInOrder[i]].body]
    BY <2>6, <2>10, <2>11
  <2> QED BY <2>7, <2>9, <2>12
<1>2. ASSUME Inv, reading = "refused", document.text = "lines", ~ document.xml_name
      PROVE  Len(Texts) = 1 \/ Texts[1].json \in {"ambiguous", "tag"}
  <2> SUFFICES ASSUME Texts[1].json # "tag"
               PROVE  Len(Texts) = 1 \/ Texts[1].json = "ambiguous"
    OBVIOUS
  <2>1. document \in Documents /\ Malformed(Format)
    BY <1>2, Formats DEF Inv
  <2>2. Format \in {"json", "none"}
    BY <1>2, <2>1, TextOfFormat
  <2>3. Format = "json" /\ DecodeJson = "refused"
    BY <2>1, <2>2 DEF Malformed
  <2>4. Texts # <<>>
    BY <1>2, <2>3 DEF Format, StartsLikeJson
  <2>5. Texts[1].json = "ambiguous" \/ ~ (Len(Texts) > 1)
    BY <1>2, <2>3 DEF DecodeJson
  <2>6. Len(Texts) \in Nat /\ (Len(Texts) = 0 => Texts = <<>>)
    <3>1. TextPlaces \in SUBSET (DOMAIN records)
      BY DEF TextPlaces
    <3>2. Cardinality(TextPlaces) \in Nat /\ Len(RecordsAt(TextPlaces)) = Cardinality(TextPlaces)
          /\ RecordsAt(TextPlaces)
               = [k \in 1..Cardinality(TextPlaces) |-> records[InOrder(TextPlaces)[k]]]
      BY <2>1, <3>1, Places DEF RecordsAt
    <3>3. Cardinality(TextPlaces) = 0 => RecordsAt(TextPlaces) = <<>>
      BY <3>2
    <3> QED BY <3>2, <3>3 DEF Texts, TextPlaces
  <2>7. PICK m \in Nat : m = Len(Texts)
    BY <2>6
  <2>8. m # 0
    BY <2>4, <2>6, <2>7
  <2>9. m = 1 \/ m > 1
    BY <2>8
  <2> QED BY <2>5, <2>7, <2>9
<1>3. Inv => EveryRecordIsOneEvent
  BY <1>1, <1>2 DEF EveryRecordIsOneEvent
<1> QED BY <1>3, Invariant, PTL

-------------------------------------------------------------------------------
(***************************************************************************)
(* The verdicts.  They are functions of one record, so that nothing here   *)
(* depends on the steps.                                                   *)
(***************************************************************************)

\* No port, or the number of one.
PortOk(value) == Empty(value) \/ (value \in DOMAIN IntOf /\ IntOf[value] \in Ports)

\* What normalize tells of an event that it accepts.
Accepts(p, e) ==
  /\ p.parsed /\ p.class \in DOMAIN ClassCategories
  /\ \/ p.time = "" /\ p.missing_ok /\ e.time_source = "collector"
     \/ p.time \in Instants /\ e.time_source = "source"
  /\ e.timestamp = Time(p.time, p.missing_ok).instant
  /\ p.src_ip \in {"ip", "", "null"} /\ p.dst_ip \in {"ip", "", "null"}
  /\ e.src_ip = Ip(p.src_ip).ip /\ e.dst_ip = Ip(p.dst_ip).ip
  /\ PortOk(p.src_port) /\ PortOk(p.dst_port)
  /\ e.src_port = Port(p.src_port).port /\ e.dst_port = Port(p.dst_port).port
  /\ p.activity > 0 /\ e.severity_id \in 0..6
  /\ e.format = p.format /\ e.class_uid = p.class /\ e.activity_id = p.activity
  /\ e.type_uid = IF p.activity = 0 THEN 0 ELSE p.class * 100 + p.activity
  /\ e.status = IF p.status # "default" THEN p.status
                ELSE IF p.class = 2004 THEN "New" ELSE "Success"
  /\ e.status_id = IF e.status \in DOMAIN StatusIds(p.class)
                   THEN StatusIds(p.class)[e.status] ELSE 99
  /\ e.user = p.user /\ e.metadata = p.metadata

\* An empty text is no instant, and neither are words.
LEMMA InstantsAre ==
  /\ "zoned" \in Instants /\ "" \notin Instants
  /\ Epochs \subseteq DOMAIN Digits /\ "zoned" \notin DOMAIN Digits /\ "date" \notin DOMAIN Digits
<1>1. Epochs \subseteq DOMAIN Digits
  BY DEF Epochs
<1>2. "zoned" \notin DOMAIN Digits /\ "date" \notin DOMAIN Digits /\ "" \notin DOMAIN Digits
  BY DEF Digits
<1> QED BY <1>1, <1>2 DEF Instants

LEMMA Normal ==
  ASSUME NEW p, Normalize(p).parse_success
  PROVE  Accepts(p, Normalize(p))
<1> DEFINE e == Normalize(p)
           errors == Time(p.time, p.missing_ok).errors \cup Ip(p.src_ip).errors
                       \cup Ip(p.dst_ip).errors \cup Port(p.src_port).errors
                       \cup Port(p.dst_port).errors \cup ClassErrors(p)
                       \cup (IF p.severity \in DOMAIN SeverityIds THEN {} ELSE {"severity"})
<1>1. /\ e.parse_success = ParseSuccess(p, errors)
      /\ e.time_source = Time(p.time, p.missing_ok).source
      /\ e.src_ip = Ip(p.src_ip).ip /\ e.dst_ip = Ip(p.dst_ip).ip
      /\ e.severity_id = IF p.severity \in DOMAIN SeverityIds THEN SeverityIds[p.severity] ELSE 0
      /\ e.format = p.format /\ e.class_uid = p.class /\ e.activity_id = p.activity
      /\ e.type_uid = IF p.activity = 0 THEN 0 ELSE p.class * 100 + p.activity
      /\ e.status = IF p.status # "default" THEN p.status
                    ELSE IF p.class = 2004 THEN "New"
                    ELSE IF ParseSuccess(p, errors) THEN "Success" ELSE "Failure"
      /\ e.status_id = IF e.status \in DOMAIN StatusIds(p.class)
                       THEN StatusIds(p.class)[e.status] ELSE 99
      /\ e.user = p.user /\ e.metadata = p.metadata
  <2>1. e.parse_success = ParseSuccess(p, errors)
    BY DEF Normalize
  <2>2. e.time_source = Time(p.time, p.missing_ok).source
    BY DEF Normalize
  <2>3. e.src_ip = Ip(p.src_ip).ip /\ e.dst_ip = Ip(p.dst_ip).ip
    BY DEF Normalize
  <2>4. e.severity_id = IF p.severity \in DOMAIN SeverityIds THEN SeverityIds[p.severity] ELSE 0
    BY DEF Normalize
  <2>5. e.format = p.format /\ e.class_uid = p.class /\ e.activity_id = p.activity
    BY DEF Normalize
  <2>6. e.type_uid = IF p.activity = 0 THEN 0 ELSE p.class * 100 + p.activity
    BY DEF Normalize
  <2>7. e.status = IF p.status # "default" THEN p.status
                   ELSE IF p.class = 2004 THEN "New"
                   ELSE IF ParseSuccess(p, errors) THEN "Success" ELSE "Failure"
    BY DEF Normalize
  <2>8. e.status_id = IF e.status \in DOMAIN StatusIds(p.class)
                      THEN StatusIds(p.class)[e.status] ELSE 99
    BY DEF Normalize
  <2>9. e.user = p.user /\ e.metadata = p.metadata
    BY DEF Normalize
  <2> HIDE DEF e, errors
  <2> QED BY <2>1, <2>2, <2>3, <2>4, <2>5, <2>6, <2>7, <2>8, <2>9, Zenon
<1>2. p.parsed /\ errors = {} /\ p.class > 0 /\ p.activity > 0 /\ ParseSuccess(p, errors)
  BY <1>1 DEF ParseSuccess
<1>3. \/ p.time = "" /\ p.missing_ok /\ e.time_source = "collector"
      \/ p.time \in Instants /\ e.time_source = "source"
  <2>1. Time(p.time, p.missing_ok).errors = {}
    BY <1>2
  <2>2. CASE p.time = "" /\ p.missing_ok
    <3>1. Time(p.time, p.missing_ok).source = "collector"
      BY <2>2, InstantsAre DEF Time
    <3>2. e.time_source = "collector"
      BY <1>1, <3>1
    <3> QED BY <2>2, <3>2, Zenon
  <2>3. CASE p.time \in Instants
    <3>1. Time(p.time, p.missing_ok).source = "source"
      BY <2>3, InstantsAre DEF Time
    <3> QED BY <1>1, <2>3, <3>1
  <2>4. CASE ~ (p.time = "" /\ p.missing_ok) /\ p.time \notin Instants
    <3>1. Time(p.time, p.missing_ok).errors = {"time"}
      BY <2>4 DEF Time
    <3> QED BY <2>1, <3>1
  <2> QED BY <2>2, <2>3, <2>4
<1>4. ASSUME NEW v, Ip(v).errors = {} PROVE v \in {"ip", "", "null"}
  BY <1>4 DEF Ip, Empty
<1>5. p.src_ip \in {"ip", "", "null"} /\ p.dst_ip \in {"ip", "", "null"}
  <2>1. Ip(p.src_ip).errors = {} /\ Ip(p.dst_ip).errors = {}
    BY <1>2
  <2> QED BY <1>4, <2>1
<1>6. ASSUME NEW v, Port(v).errors = {} PROVE PortOk(v)
  <2> SUFFICES ASSUME ~ PortOk(v) PROVE FALSE
    OBVIOUS
  <2>1. ~ (v \in DOMAIN IntOf /\ IntOf[v] \in Ports) /\ ~ Empty(v)
    BY DEF PortOk
  <2>2. Port(v) = [port |-> NoPort, errors |-> {"port"}]
    BY <2>1 DEF Port
  <2>3. Port(v).errors = {"port"}
    BY <2>2
  <2> QED BY <1>6, <2>3
<1>7. PortOk(p.src_port) /\ PortOk(p.dst_port)
  <2>1. Port(p.src_port).errors = {} /\ Port(p.dst_port).errors = {}
    BY <1>2
  <2> QED BY <1>6, <2>1
<1>8. p.class \in DOMAIN ClassCategories
  <2>1. ClassErrors(p) = {}
    BY <1>2
  <2> QED BY <1>2, <2>1 DEF ClassErrors
<1>9. e.severity_id \in 0..6
  <2>1. p.severity \in DOMAIN SeverityIds
    BY <1>2
  <2>2. \A s \in DOMAIN SeverityIds : SeverityIds[s] \in 0..6
    BY DEF SeverityIds
  <2> QED BY <1>1, <2>1, <2>2
<1>10. e.src_port = Port(p.src_port).port /\ e.dst_port = Port(p.dst_port).port
  BY DEF Normalize
<1>15. e.timestamp = Time(p.time, p.missing_ok).instant
  BY DEF Normalize
<1> HIDE DEF e, errors
<1>11. e.status = IF p.status # "default" THEN p.status
                  ELSE IF p.class = 2004 THEN "New" ELSE "Success"
  BY <1>1, <1>2
<1>12. p.parsed /\ p.activity > 0
  BY <1>2
<1>13. /\ e.src_ip = Ip(p.src_ip).ip /\ e.dst_ip = Ip(p.dst_ip).ip
       /\ e.format = p.format /\ e.class_uid = p.class /\ e.activity_id = p.activity
       /\ e.type_uid = IF p.activity = 0 THEN 0 ELSE p.class * 100 + p.activity
       /\ e.status_id = IF e.status \in DOMAIN StatusIds(p.class)
                        THEN StatusIds(p.class)[e.status] ELSE 99
       /\ e.user = p.user /\ e.metadata = p.metadata
  BY <1>1, Zenon
<1>14. Accepts(p, e)
  BY <1>3, <1>5, <1>7, <1>8, <1>9, <1>10, <1>11, <1>12, <1>13, <1>15,
     Zenon DEF Accepts
<1> QED BY <1>14 DEF e
-------------------------------------------------------------------------------
(***************************************************************************)
(* The interchange record.                                                 *)
(***************************************************************************)

Identifiers ==
  {"class_uid", "category_uid", "activity_id", "type_uid", "severity_id", "status_id", "unmapped"}

\* What an event adds to the attributes that every record has.
Added(e) ==
  (IF e.src_ip = "" /\ e.src_port = NoPort THEN {} ELSE {"src_endpoint"})
    \cup (IF e.dst_ip = "" /\ e.dst_port = NoPort THEN {} ELSE {"dst_endpoint"})
    \cup (IF e.user # "" THEN {"actor"} ELSE {})
    \cup (CASE e.class_uid = 2004 -> {"finding_info", "is_alert"}
            [] e.class_uid = 6003 -> {"actor", "api"}
            [] OTHER -> {})

\* The classes that parsers give.
FindingClass(class) == class = 2004
LogonClass(class) == class = 3002
NetworkClass(class) == class = 4001
HttpClass(class) == class = 4002
ApiClass(class) == class = 6003
ErrorClass(class) == class = 6008

LEMMA NoneIs == DOMAIN None = {}
BY DEF None

LEMMA EndpointIs ==
  ASSUME NEW attribute, NEW ip, NEW port
  PROVE  DOMAIN EndpointOf(attribute, ip, port) =
           IF ip = "" /\ port = NoPort THEN {} ELSE {attribute}
BY NoneIs DEF EndpointOf

\* The attributes of an interchange record, and where its identifiers come from.
LEMMA InterchangeIs ==
  ASSUME NEW e
  PROVE  /\ DOMAIN Interchange(e) = BaseAttributes \cup Added(e)
         /\ Interchange(e)["class_uid"] = e.class_uid
         /\ Interchange(e)["activity_id"] = e.activity_id
         /\ Interchange(e)["type_uid"] = e.type_uid
         /\ Interchange(e)["severity_id"] = e.severity_id
         /\ Interchange(e)["status_id"] = e.status_id
         /\ Interchange(e)["unmapped"] = e.metadata
         /\ e.user # "" => Interchange(e)["actor"] = e.user
<1> DEFINE common == [a \in CommonAttributes |-> "text"]
           ids == [class_uid |-> e.class_uid, category_uid |-> e.category_uid,
                   activity_id |-> e.activity_id, type_uid |-> e.type_uid,
                   severity_id |-> e.severity_id, status_id |-> e.status_id,
                   unmapped |-> e.metadata]
           src == EndpointOf("src_endpoint", e.src_ip, e.src_port)
           dst == EndpointOf("dst_endpoint", e.dst_ip, e.dst_port)
           actor == IF e.user # "" THEN [actor |-> e.user] ELSE None
           own == CASE e.class_uid = 2004 -> [finding_info |-> "text", is_alert |-> TRUE]
                    [] e.class_uid = 6003 -> [actor |-> "unknown", api |-> "text"]
                    [] OTHER -> None
           one == common ++ ids
           two == one ++ src
           three == two ++ dst
           four == three ++ actor
           five == four ++ own
<1>1. Interchange(e) = five
  BY DEF Interchange
<1>2. /\ DOMAIN ids = Identifiers
      /\ ids["class_uid"] = e.class_uid /\ ids["activity_id"] = e.activity_id
      /\ ids["type_uid"] = e.type_uid /\ ids["severity_id"] = e.severity_id
      /\ ids["status_id"] = e.status_id /\ ids["unmapped"] = e.metadata
  BY DEF Identifiers
<1>3. DOMAIN common = CommonAttributes
  OBVIOUS
<1>4. DOMAIN src = IF e.src_ip = "" /\ e.src_port = NoPort THEN {} ELSE {"src_endpoint"}
  BY EndpointIs
<1>5. DOMAIN dst = IF e.dst_ip = "" /\ e.dst_port = NoPort THEN {} ELSE {"dst_endpoint"}
  BY EndpointIs
<1>6. /\ DOMAIN actor = IF e.user # "" THEN {"actor"} ELSE {}
      /\ e.user # "" => actor["actor"] = e.user
  BY NoneIs
<1>7. DOMAIN own = CASE e.class_uid = 2004 -> {"finding_info", "is_alert"}
                     [] e.class_uid = 6003 -> {"actor", "api"}
                     [] OTHER -> {}
  <2>1. CASE e.class_uid = 2004
    <3>1. own = [finding_info |-> "text", is_alert |-> TRUE]
      BY <2>1
    <3> HIDE DEF own
    <3> QED BY <2>1, <3>1
  <2>2. CASE e.class_uid = 6003
    <3>1. own = [actor |-> "unknown", api |-> "text"]
      BY <2>2
    <3> HIDE DEF own
    <3> QED BY <2>2, <3>1
  <2>3. CASE e.class_uid # 2004 /\ e.class_uid # 6003
    <3>1. own = None
      BY <2>3
    <3> HIDE DEF own
    <3> QED BY <2>3, <3>1, NoneIs
  <2> QED BY <2>1, <2>2, <2>3
<1> HIDE DEF common, ids, src, dst, actor, own
<1>8. /\ DOMAIN one = DOMAIN common \cup DOMAIN ids
      /\ \A x \in DOMAIN ids \ DOMAIN common : one[x] = ids[x]
  BY Over
<1> HIDE DEF one
<1>9. DOMAIN two = DOMAIN one \cup DOMAIN src /\ \A x \in DOMAIN one : two[x] = one[x]
  BY Over
<1> HIDE DEF two
<1>10. DOMAIN three = DOMAIN two \cup DOMAIN dst /\ \A x \in DOMAIN two : three[x] = two[x]
  BY Over
<1> HIDE DEF three
<1>11. /\ DOMAIN four = DOMAIN three \cup DOMAIN actor
       /\ \A x \in DOMAIN three : four[x] = three[x]
       /\ \A x \in DOMAIN actor \ DOMAIN three : four[x] = actor[x]
  BY Over
<1> HIDE DEF four
<1>12. DOMAIN five = DOMAIN four \cup DOMAIN own /\ \A x \in DOMAIN four : five[x] = four[x]
  BY Over
<1> HIDE DEF five
<1>13. DOMAIN one = BaseAttributes
  BY <1>2, <1>3, <1>8 DEF BaseAttributes, Identifiers
<1>14. DOMAIN five = BaseAttributes \cup Added(e)
  <2>1. DOMAIN five = BaseAttributes \cup (DOMAIN src \cup DOMAIN dst \cup DOMAIN actor \cup DOMAIN own)
    BY <1>9, <1>10, <1>11, <1>12, <1>13
  <2>2. Added(e) = DOMAIN src \cup DOMAIN dst \cup DOMAIN actor \cup DOMAIN own
    BY <1>4, <1>5, <1>6, <1>7, Zenon DEF Added
  <2> QED BY <2>1, <2>2
<1>15. \A x \in Identifiers : x \notin CommonAttributes
  BY DEF Identifiers, CommonAttributes
<1>16. \A x \in Identifiers : five[x] = ids[x]
  BY <1>2, <1>3, <1>8, <1>9, <1>10, <1>11, <1>12, <1>15
<1>17. /\ five["class_uid"] = ids["class_uid"] /\ five["activity_id"] = ids["activity_id"]
       /\ five["type_uid"] = ids["type_uid"] /\ five["severity_id"] = ids["severity_id"]
       /\ five["status_id"] = ids["status_id"] /\ five["unmapped"] = ids["unmapped"]
  BY <1>16 DEF Identifiers
<1>18. e.user # "" => five["actor"] = e.user
  <2>1. "actor" \notin DOMAIN src /\ "actor" \notin DOMAIN dst
    <3>1. DOMAIN src = {} \/ DOMAIN src = {"src_endpoint"}
      BY <1>4, Zenon
    <3>2. DOMAIN dst = {} \/ DOMAIN dst = {"dst_endpoint"}
      BY <1>5, Zenon
    <3> QED BY <3>1, <3>2
  <2>2. "actor" \notin BaseAttributes
    BY DEF BaseAttributes, CommonAttributes
  <2>3. "actor" \notin DOMAIN three
    BY <1>9, <1>10, <1>13, <2>1, <2>2
  <2> QED BY <1>6, <1>11, <1>12, <2>3
<1> QED BY <1>1, <1>2, <1>14, <1>17, <1>18

\* What is taken out of a record is kept below unmapped, with the fields that were there.
Keeps(after, before, taken) ==
  IF taken = {} THEN after["unmapped"] = before["unmapped"]
  ELSE /\ after["unmapped"]["normalized_context"] = [x \in taken |-> before[x]]
       /\ "normalized_context" \in DOMAIN before["unmapped"] =>
            /\ "source_fields" \in DOMAIN after["unmapped"]
            /\ after["unmapped"]["source_fields"] = before["unmapped"]
       /\ "normalized_context" \notin DOMAIN before["unmapped"] =>
            \A f \in DOMAIN before["unmapped"] : after["unmapped"][f] = before["unmapped"][f]

LEMMA Retained ==
  ASSUME NEW record, NEW names, "unmapped" \in DOMAIN record, "unmapped" \notin names
  PROVE  /\ DOMAIN RetainContext(record, names) = DOMAIN record \ names
         /\ \A x \in DOMAIN RetainContext(record, names) :
              x # "unmapped" => RetainContext(record, names)[x] = record[x]
         /\ Keeps(RetainContext(record, names), record, names \cap DOMAIN record)
<1> DEFINE after == RetainContext(record, names)
           taken == names \cap DOMAIN record
           fields == record["unmapped"]
           context == [x \in taken |-> record[x]]
           original == IF "normalized_context" \in DOMAIN fields
                       THEN [source_fields |-> fields] ELSE fields
           wrap == [normalized_context |-> context]
           unmapped == wrap ++ original
           rest == Without(record, names)
<1>1. after = IF taken = {} THEN record ELSE [rest EXCEPT !["unmapped"] = unmapped]
  BY DEF RetainContext
<1>2. DOMAIN rest = DOMAIN record \ names /\ \A x \in DOMAIN rest : rest[x] = record[x]
  BY DEF Without
<1>3. DOMAIN wrap = {"normalized_context"} /\ wrap["normalized_context"] = context
  OBVIOUS
<1>4. /\ "normalized_context" \in DOMAIN fields =>
           "source_fields" \in DOMAIN original /\ original["source_fields"] = fields
      /\ "normalized_context" \notin DOMAIN fields => original = fields
  OBVIOUS
<1> HIDE DEF after, wrap, original, rest
<1>5. /\ DOMAIN unmapped = DOMAIN wrap \cup DOMAIN original
      /\ \A x \in DOMAIN wrap : unmapped[x] = wrap[x]
      /\ \A x \in DOMAIN original \ DOMAIN wrap : unmapped[x] = original[x]
  BY Over
<1> HIDE DEF unmapped
<1>6. unmapped["normalized_context"] = context
  BY <1>3, <1>5
<1>7. "normalized_context" \in DOMAIN fields =>
        "source_fields" \in DOMAIN unmapped /\ unmapped["source_fields"] = fields
  BY <1>3, <1>4, <1>5
<1>8. "normalized_context" \notin DOMAIN fields => \A f \in DOMAIN fields : unmapped[f] = fields[f]
  BY <1>3, <1>4, <1>5
<1> HIDE DEF context
<1>9. CASE taken = {}
  <2>1. after = record /\ DOMAIN record = DOMAIN record \ names
    BY <1>1, <1>9
  <2>2. Keeps(after, record, taken)
    BY <1>9, <2>1 DEF Keeps
  <2> QED BY <2>1, <2>2 DEF after
<1>10. CASE taken # {}
  <2>1. after = [rest EXCEPT !["unmapped"] = unmapped] /\ "unmapped" \in DOMAIN rest
    BY <1>1, <1>2, <1>10
  <2>2. /\ DOMAIN after = DOMAIN record \ names /\ after["unmapped"] = unmapped
        /\ \A x \in DOMAIN after : x # "unmapped" => after[x] = record[x]
    BY <1>2, <2>1
  <2>3. Keeps(after, record, taken)
    BY <1>6, <1>7, <1>8, <1>10, <2>2 DEF Keeps, context
  <2> QED BY <2>2, <2>3 DEF after
<1> QED BY <1>9, <1>10

LEMMA OptionalIs ==
  ASSUME NEW value, NEW p \in BOOLEAN
  PROVE  /\ DOMAIN (IF p THEN None ELSE [user |-> value]) = IF p THEN {} ELSE {"user"}
         /\ ~ p => (IF p THEN None ELSE [user |-> value])["user"] = value
         /\ DOMAIN (IF p THEN [service |-> value] ELSE None) = IF p THEN {"service"} ELSE {}
         /\ DOMAIN (IF p THEN [http_response |-> value] ELSE None)
              = IF p THEN {"http_response"} ELSE {}
BY NoneIs

\* A logon: the actor becomes the user, everything else stays.
LEMMA LogonIs ==
  ASSUME NEW e, LogonClass(e.class_uid)
  PROVE  LET before == Interchange(e)
             after == ToOcsfDict(e)
         IN /\ DOMAIN after = (DOMAIN before \ {"actor"})
                  \cup (IF e.user = "" THEN {} ELSE {"user"})
                  \cup (IF "service" \in DOMAIN e.metadata THEN {"service"} ELSE {})
            /\ e.user # "" => after["user"] = e.user
            /\ \A x \in DOMAIN before \ {"actor"} : after[x] = before[x]
<1> DEFINE before == Interchange(e)
           user == IF e.user = "" THEN None ELSE [user |-> e.user]
           service == IF "service" \in DOMAIN e.metadata
                      THEN [service |-> e.metadata["service"]] ELSE None
           rest == Without(before, IF e.user = "" THEN {} ELSE {"actor"})
           both == user ++ service
           after == both ++ rest
<1>1. ToOcsfDict(e) = after
  BY DEF ToOcsfDict, ProjectClass, LogonClass
<1>2. DOMAIN before = BaseAttributes \cup Added(e)
  BY InterchangeIs
<1>3. \/ e.user = "" /\ DOMAIN user = {}
      \/ e.user # "" /\ DOMAIN user = {"user"} /\ user["user"] = e.user
  <2>1. CASE e.user = ""
    <3>1. user = None
      BY <2>1
    <3> HIDE DEF user
    <3> QED BY <2>1, <3>1, NoneIs
  <2>2. CASE e.user # ""
    <3>1. user = [user |-> e.user]
      BY <2>2
    <3> HIDE DEF user
    <3>2. DOMAIN user = {"user"} /\ user["user"] = e.user
      BY <3>1
    <3> QED BY <2>2, <3>2
  <2> QED BY <2>1, <2>2
<1>4. DOMAIN service = IF "service" \in DOMAIN e.metadata THEN {"service"} ELSE {}
  BY OptionalIs
<1>5. Added(e) \subseteq {"src_endpoint", "dst_endpoint", "actor"}
      /\ (e.user = "" => "actor" \notin Added(e))
  <2>1. (CASE e.class_uid = 2004 -> {"finding_info", "is_alert"}
            [] e.class_uid = 6003 -> {"actor", "api"}
            [] OTHER -> {}) = {}
    BY DEF LogonClass
  <2> QED BY <2>1 DEF Added
<1> HIDE DEF before
<1>6. /\ DOMAIN rest = DOMAIN before \ (IF e.user = "" THEN {} ELSE {"actor"})
      /\ \A x \in DOMAIN rest : rest[x] = before[x]
  BY DEF Without
<1> HIDE DEF user, service, rest
<1>7. /\ DOMAIN both = DOMAIN user \cup DOMAIN service
      /\ \A x \in DOMAIN user : both[x] = user[x]
  BY Over
<1> HIDE DEF both
<1>8. /\ DOMAIN after = DOMAIN both \cup DOMAIN rest
      /\ \A x \in DOMAIN both : after[x] = both[x]
      /\ \A x \in DOMAIN rest \ DOMAIN both : after[x] = rest[x]
  BY Over
<1> HIDE DEF after
<1>9. "user" \notin DOMAIN before /\ "service" \notin DOMAIN before
  BY <1>2, <1>5 DEF BaseAttributes, CommonAttributes
<1>10. DOMAIN rest = DOMAIN before \ {"actor"}
  <2>1. CASE e.user = ""
    <3>1. "actor" \notin DOMAIN before
      BY <1>2, <1>5, <2>1 DEF BaseAttributes, CommonAttributes
    <3> QED BY <1>6, <2>1, <3>1
  <2>2. CASE e.user # ""
    BY <1>6, <2>2
  <2> QED BY <2>1, <2>2
<1>11. DOMAIN user \subseteq {"user"} /\ DOMAIN service \subseteq {"service"}
  <2>1. DOMAIN user = {} \/ DOMAIN user = {"user"}
    BY <1>3, Zenon
  <2>2. DOMAIN service = {} \/ DOMAIN service = {"service"}
    BY <1>4, Zenon
  <2> QED BY <2>1, <2>2
<1>12. \A x \in DOMAIN before \ {"actor"} : after[x] = before[x]
  BY <1>6, <1>7, <1>8, <1>9, <1>10, <1>11
<1>13. e.user # "" => after["user"] = e.user
  <2> SUFFICES ASSUME e.user # "" PROVE after["user"] = e.user
    OBVIOUS
  <2>1. DOMAIN user = {"user"} /\ user["user"] = e.user
    BY <1>3, Zenon
  <2> QED BY <1>7, <1>8, <2>1
<1>14. DOMAIN after = (DOMAIN before \ {"actor"})
         \cup (IF e.user = "" THEN {} ELSE {"user"})
         \cup (IF "service" \in DOMAIN e.metadata THEN {"service"} ELSE {})
  <2>1. DOMAIN after = DOMAIN rest \cup DOMAIN user \cup DOMAIN service
    BY <1>7, <1>8
  <2>2. DOMAIN user = IF e.user = "" THEN {} ELSE {"user"}
    BY <1>3, Zenon
  <2>3. DOMAIN after = (DOMAIN before \ {"actor"}) \cup DOMAIN user \cup DOMAIN service
    BY <1>10, <2>1
  <2> QED BY <1>4, <2>2, <2>3, Zenon
<1> QED BY <1>1, <1>12, <1>13, <1>14 DEF before

\* An HTTP exchange: the actor is retained, and a status becomes the response.
LEMMA HttpIs ==
  ASSUME NEW e, HttpClass(e.class_uid)
  PROVE  LET before == RetainContext(Interchange(e), {"actor"})
             after == ToOcsfDict(e)
         IN /\ DOMAIN after = DOMAIN before
                  \cup (IF "http_status" \in DOMAIN e.metadata THEN {"http_response"} ELSE {})
            /\ \A x \in DOMAIN before \ {"http_response"} : after[x] = before[x]
<1> DEFINE before == RetainContext(Interchange(e), {"actor"})
           response == IF "http_status" \in DOMAIN e.metadata
                       THEN [http_response |-> e.metadata["http_status"]] ELSE None
           after == response ++ before
<1>1. ToOcsfDict(e) = after
  BY DEF ToOcsfDict, ProjectClass, HttpClass
<1>2. DOMAIN response = IF "http_status" \in DOMAIN e.metadata THEN {"http_response"} ELSE {}
  BY OptionalIs
<1>3. DOMAIN response \subseteq {"http_response"}
  BY <1>2
<1> HIDE DEF before, response
<1>4. /\ DOMAIN after = DOMAIN response \cup DOMAIN before
      /\ \A x \in DOMAIN before \ DOMAIN response : after[x] = before[x]
  BY Over
<1> HIDE DEF after
<1>5. \A x \in DOMAIN before \ {"http_response"} : after[x] = before[x]
  BY <1>3, <1>4
<1>6. DOMAIN after = DOMAIN before
         \cup (IF "http_status" \in DOMAIN e.metadata THEN {"http_response"} ELSE {})
  BY <1>2, <1>4
<1> QED BY <1>1, <1>5, <1>6 DEF before

\* What the projection on a class takes out of a record stays in the context, next to the
\* fields of the vendor or around them; only the actor of a logon gets another name.
THEOREM Context == Spec => []ContextSurvivesExport
<1> DEFINE Kept(e) ==
      LET before == Interchange(e)
          after == ToOcsfDict(e)
          taken == DOMAIN before \ DOMAIN after
          fields == e.metadata
          collides == "normalized_context" \in DOMAIN fields
      IN CASE taken = {} -> after.unmapped = fields
           [] taken # {} /\ e.class_uid = 3002 ->
                taken = {"actor"} /\ after.user = before.actor
           [] OTHER ->
                /\ after.unmapped["normalized_context"] = [x \in taken |-> before[x]]
                /\ collides => /\ "source_fields" \in DOMAIN after.unmapped
                               /\ after.unmapped["source_fields"] = fields
                /\ ~ collides => \A f \in DOMAIN fields : after.unmapped[f] = fields[f]
<1>1. ASSUME NEW e PROVE Kept(e)
  <2> DEFINE before == Interchange(e)
             after == ToOcsfDict(e)
             taken == DOMAIN before \ DOMAIN after
             fields == e.metadata
  <2>1. /\ DOMAIN before = BaseAttributes \cup Added(e) /\ before["unmapped"] = fields
        /\ e.user # "" => before["actor"] = e.user
    BY InterchangeIs
  <2>2. "unmapped" \in DOMAIN before
    BY <2>1 DEF BaseAttributes
  <2>3. ASSUME NEW names, "unmapped" \notin names, after = RetainContext(before, names)
        PROVE  Keeps(after, before, taken)
    <3>1. DOMAIN after = DOMAIN before \ names /\ Keeps(after, before, names \cap DOMAIN before)
      BY <2>2, <2>3, Retained
    <3>2. taken = names \cap DOMAIN before
      BY <3>1
    <3> QED BY <3>1, <3>2
  <2>4. CASE LogonClass(e.class_uid)
    <3>1. /\ DOMAIN after = (DOMAIN before \ {"actor"})
                \cup (IF e.user = "" THEN {} ELSE {"user"})
                \cup (IF "service" \in DOMAIN fields THEN {"service"} ELSE {})
          /\ e.user # "" => after["user"] = e.user
          /\ \A x \in DOMAIN before \ {"actor"} : after[x] = before[x]
      BY <2>4, LogonIs
    <3>2. after["unmapped"] = fields
      BY <2>1, <2>2, <3>1
    <3>3. taken \subseteq {"actor"} /\ (e.user = "" => taken = {})
      <4>1. taken \subseteq {"actor"}
        BY <3>1
      <4>2. e.user = "" => "actor" \notin DOMAIN before
        <5>1. (CASE e.class_uid = 2004 -> {"finding_info", "is_alert"}
                  [] e.class_uid = 6003 -> {"actor", "api"}
                  [] OTHER -> {}) = {}
          BY <2>4 DEF LogonClass
        <5>2. e.user = "" => "actor" \notin Added(e)
          BY <5>1 DEF Added
        <5> QED BY <2>1, <5>2 DEF BaseAttributes, CommonAttributes
      <4> QED BY <4>1, <4>2
    <3>4. taken # {} => taken = {"actor"} /\ after["user"] = before["actor"]
      BY <2>1, <3>1, <3>3
    <3> HIDE DEF before, after, taken, fields
    <3>5. CASE taken = {}
      BY <3>2, <3>5 DEF before, after, taken, fields
    <3>6. CASE taken # {}
      BY <2>4, <3>4, <3>6 DEF before, after, taken, fields, LogonClass
    <3> QED BY <3>5, <3>6
  <2>5. CASE ~ LogonClass(e.class_uid)
    <3>1. Keeps(after, before, taken)
      <4>1. CASE FindingClass(e.class_uid)
        <5>1. after = RetainContext(before, {"src_endpoint", "dst_endpoint", "actor"})
          BY <4>1 DEF ToOcsfDict, ProjectClass, FindingClass
        <5> QED BY <2>3, <5>1
      <4>2. CASE HttpClass(e.class_uid)
        <5> DEFINE kept == RetainContext(before, {"actor"})
        <5>1. /\ DOMAIN after = DOMAIN kept
                    \cup (IF "http_status" \in DOMAIN e.metadata THEN {"http_response"} ELSE {})
              /\ \A x \in DOMAIN kept \ {"http_response"} : after[x] = kept[x]
          BY <4>2, HttpIs
        <5>2. DOMAIN kept = DOMAIN before \ {"actor"}
          BY <2>2, Retained
        <5>3. after["unmapped"] = kept["unmapped"]
          BY <2>2, <5>1, <5>2
        <5>4. "http_response" \notin DOMAIN before \cup {"actor"}
          <6>1. (CASE e.class_uid = 2004 -> {"finding_info", "is_alert"}
                    [] e.class_uid = 6003 -> {"actor", "api"}
                    [] OTHER -> {}) = {}
            BY <4>2 DEF HttpClass
          <6>2. "http_response" \notin Added(e)
            BY <6>1 DEF Added
          <6> QED BY <2>1, <6>2 DEF BaseAttributes, CommonAttributes
        <5>5. taken = {"actor"} \cap DOMAIN before
          <6> HIDE DEF kept, before, after
          <6> QED BY <5>1, <5>2, <5>4
        <5>6. Keeps(kept, before, taken)
          <6> DEFINE names == {"actor"}
          <6>1. "unmapped" \notin names /\ kept = RetainContext(before, names)
            OBVIOUS
          <6>2. taken = names \cap DOMAIN before
            BY <5>5
          <6> HIDE DEF before, kept, names, taken
          <6> QED BY <2>2, <6>1, <6>2, Retained
        <5> QED BY <5>3, <5>6 DEF Keeps
      <4>3. CASE ~ FindingClass(e.class_uid) /\ ~ HttpClass(e.class_uid)
        <5>1. after = before
          BY <2>5, <4>3 DEF ToOcsfDict, ProjectClass, FindingClass, LogonClass, HttpClass
        <5> HIDE DEF before, after
        <5> QED BY <5>1 DEF Keeps
      <4> QED BY <4>1, <4>2, <4>3
    <3> HIDE DEF before, after, taken, fields
    <3>2. CASE taken = {}
      <4>1. after["unmapped"] = fields
        BY <2>1, <3>1, <3>2 DEF Keeps
      <4> QED BY <3>2, <4>1 DEF before, after, taken, fields
    <3>3. CASE taken # {}
      <4>1. /\ after["unmapped"]["normalized_context"] = [x \in taken |-> before[x]]
            /\ "normalized_context" \in DOMAIN fields =>
                 /\ "source_fields" \in DOMAIN after["unmapped"]
                 /\ after["unmapped"]["source_fields"] = fields
            /\ "normalized_context" \notin DOMAIN fields =>
                 \A f \in DOMAIN fields : after["unmapped"][f] = fields[f]
        BY <2>1, <3>1, <3>3 DEF Keeps
      <4> QED BY <2>5, <3>3, <4>1 DEF before, after, taken, fields, LogonClass
    <3> QED BY <3>2, <3>3
  <2> QED BY <2>4, <2>5
<1>2. ContextSurvivesExport
  <2> HIDE DEF Kept
  <2>1. \A a \in Accepted : Kept(a.event)
    BY <1>1
  <2> QED BY <2>1 DEF ContextSurvivesExport, Kept
<1> QED BY <1>2, PTL
-------------------------------------------------------------------------------
\* What a parser returns: its fields, and the defaults of the others.
Returns(p, class, fields) ==
  /\ p["parsed"] = TRUE /\ p["class"] = class
  /\ \A x \in DOMAIN fields : p[x] = fields[x]
  /\ \A x \in DOMAIN NotParsed \ (DOMAIN fields \cup {"parsed", "class", "category"}) :
       p[x] = NotParsed[x]
  /\ DOMAIN p = DOMAIN fields \cup DOMAIN NotParsed

LEMMA Defaults ==
  /\ DOMAIN NotParsed =
       {"parsed", "class", "category", "activity", "severity", "status", "time", "missing_ok",
        "src_ip", "dst_ip", "src_port", "dst_port", "user", "metadata"}
  /\ NotParsed["parsed"] = FALSE /\ NotParsed["missing_ok"] = FALSE
  /\ NotParsed["src_ip"] = "" /\ NotParsed["dst_ip"] = ""
  /\ NotParsed["src_port"] = "" /\ NotParsed["dst_port"] = ""
  /\ NotParsed["user"] = "" /\ NotParsed["metadata"] = <<>>
BY DEF NotParsed

LEMMA ParsedIs ==
  ASSUME NEW class, NEW category, NEW fields,
         "parsed" \notin DOMAIN fields, "class" \notin DOMAIN fields, "category" \notin DOMAIN fields
  PROVE  Returns(Parsed(class, category, fields), class, fields)
<1> DEFINE g == [parsed |-> TRUE, class |-> class, category |-> category]
           h == fields ++ g
           p == h ++ NotParsed
<1>1. DOMAIN g = {"parsed", "class", "category"}
      /\ g["parsed"] = TRUE /\ g["class"] = class /\ g["category"] = category
  OBVIOUS
<1>2. {"parsed", "class", "category"} \subseteq DOMAIN NotParsed
  BY DEF NotParsed
<1> HIDE DEF g
<1>3. /\ DOMAIN h = DOMAIN fields \cup DOMAIN g
      /\ \A x \in DOMAIN fields : h[x] = fields[x]
      /\ \A x \in DOMAIN g \ DOMAIN fields : h[x] = g[x]
  BY Over
<1> HIDE DEF h
<1>4. /\ DOMAIN p = DOMAIN h \cup DOMAIN NotParsed
      /\ \A x \in DOMAIN h : p[x] = h[x]
      /\ \A x \in DOMAIN NotParsed \ DOMAIN h : p[x] = NotParsed[x]
  BY Over
<1>5. p = Parsed(class, category, fields)
  BY DEF Parsed, h, g
<1> HIDE DEF p
<1>6. p["parsed"] = TRUE /\ p["class"] = class /\ p["category"] = category
  BY <1>1, <1>3, <1>4
<1>7. \A x \in DOMAIN fields : p[x] = fields[x]
  BY <1>3, <1>4
<1>8. \A x \in DOMAIN NotParsed \ (DOMAIN fields \cup {"parsed", "class", "category"}) :
        p[x] = NotParsed[x]
  BY <1>1, <1>3, <1>4
<1>9. DOMAIN p = DOMAIN fields \cup DOMAIN NotParsed
  BY <1>1, <1>2, <1>3, <1>4
<1>10. Returns(p, class, fields)
  BY <1>6, <1>7, <1>8, <1>9 DEF Returns
<1> QED BY <1>5, <1>10

\* The result of a parser with the name of its format.
LEMMA Tagged ==
  ASSUME NEW p, NEW x, NEW q, q = [format |-> x] ++ p, "format" \notin DOMAIN p
  PROVE  q["format"] = x /\ \A y \in DOMAIN p : q[y] = p[y]
<1> DEFINE f == [format |-> x]
<1>1. DOMAIN f = {"format"} /\ f["format"] = x
  OBVIOUS
<1>2. q = f ++ p
  OBVIOUS
<1> HIDE DEF f
<1>3. "format" \in DOMAIN f /\ \A y \in DOMAIN p : y \in DOMAIN p \ DOMAIN f
  BY <1>1
<1> DEFINE g == f ++ p
<1>4. (\A y \in DOMAIN f : g[y] = f[y]) /\ \A y \in DOMAIN p \ DOMAIN f : g[y] = p[y]
  BY Over
<1>5. q = g
  BY <1>2
<1> HIDE DEF g
<1>6. g["format"] = x /\ \A y \in DOMAIN p : g[y] = p[y]
  BY <1>1, <1>3, <1>4
<1> QED BY <1>5, <1>6

-------------------------------------------------------------------------------
(***************************************************************************)
(* What a parser tells of a record, in the terms of Said.                  *)
(***************************************************************************)

\* The record says nothing of its time.
NoTime(format, body) ==
  \/ Said(format, body).times = {}
  \/ /\ format \in {"json", "xml", "csv"}
     /\ \A i \in DOMAIN TimeFields : TimeFields[i] \notin DOMAIN body

TimeFaithful(format, body, time, missing_ok) ==
  /\ missing_ok = NoTime(format, body)
  /\ missing_ok => time = ""
  /\ Said(format, body).times \subseteq
       (IF missing_ok THEN {} ELSE {time}) \cup {"zoned", "date"}

PlacesFaithful(format, body, src_ip, dst_ip, src_port, dst_port) ==
  /\ Said(format, body).ips \subseteq {src_ip, dst_ip, ""}
  /\ Said(format, body).ports \subseteq {src_port, dst_port, ""}

\* What the fields of a logon say.
LogonFaithful(body, status, user, metadata) ==
  /\ user = Get(body, UserFields, "")
  /\ "service" \in DOMAIN metadata \/ Or(body, <<"service", "app">>) = ""
  /\ ~ (Says(body, "success", "login_success") /\ Says(body, "failed", "login_failure"))
  /\ status = IF Says(body, "success", "login_success") THEN "Success"
              ELSE IF Says(body, "failed", "login_failure") THEN "Failure" ELSE "Unknown"

ClassFaithful(body, class, status, user, metadata) ==
  \/ FindingClass(class)
  \/ LogonClass(class) /\ LogonFaithful(body, status, user, metadata)
  \/ NetworkClass(class) /\ user = ""
  \/ HttpClass(class) /\ "http_status" \in DOMAIN metadata
  \/ ApiClass(class)
  \/ ErrorClass(class) /\ user = ""

ActivityOk(class, activity) == activity \in Contract(class).activities \cup {99}

Bare(class, src_ip, dst_ip, src_port, dst_port) ==
  ErrorClass(class) => src_ip = "" /\ dst_ip = "" /\ src_port = "" /\ dst_port = ""

Faithful(format, body, p) ==
  /\ TimeFaithful(format, body, p["time"], p["missing_ok"])
  /\ PlacesFaithful(format, body, p["src_ip"], p["dst_ip"], p["src_port"], p["dst_port"])
  /\ ClassFaithful(body, p["class"], p["status"], p["user"], p["metadata"])
  /\ ActivityOk(p["class"], p["activity"])
  /\ Bare(p["class"], p["src_ip"], p["dst_ip"], p["src_port"], p["dst_port"])

LEMMA ClassesDiffer ==
  ASSUME NEW c
  PROVE  /\ FindingClass(c) => ~ LogonClass(c) /\ ~ ErrorClass(c)
         /\ LogonClass(c) => ~ ErrorClass(c)
         /\ NetworkClass(c) => ~ ErrorClass(c)
         /\ HttpClass(c) => ~ ErrorClass(c)
         /\ ApiClass(c) => ~ ErrorClass(c)
BY DEF FindingClass, LogonClass, NetworkClass, HttpClass, ApiClass, ErrorClass

\* The value at a name that is present does not depend on the default.
LEMMA GetIs ==
  ASSUME NEW item, NEW names, NEW d
  PROVE  /\ (\E i \in DOMAIN names : names[i] \in DOMAIN item) =>
              \A e : Get(item, names, d) = Get(item, names, e)
         /\ (\A i \in DOMAIN names : names[i] \notin DOMAIN item) => Get(item, names, d) = d
<1> DEFINE places == {i \in DOMAIN names : names[i] \in DOMAIN item}
<1>1. ASSUME NEW e, places # {} PROVE Get(item, names, d) = Get(item, names, e)
  BY <1>1 DEF Get, AtFirst
<1>2. places = {} => Get(item, names, d) = d
  BY DEF Get, AtFirst
<1>3. (\E i \in DOMAIN names : names[i] \in DOMAIN item) => places # {}
  OBVIOUS
<1>4. (\A i \in DOMAIN names : names[i] \notin DOMAIN item) => places = {}
  OBVIOUS
<1> HIDE DEF places
<1> QED BY <1>1, <1>2, <1>3, <1>4

\* Of one name, an empty value is as good as none.
LEMMA OneName ==
  ASSUME NEW item, NEW name
  PROVE  Or(item, <<name>>) = Get(item, <<name>>, "")
<1> DEFINE names == <<name>>
           places == {i \in DOMAIN names : names[i] \in DOMAIN item}
           filled == {i \in DOMAIN names : names[i] \in DOMAIN item /\ item[names[i]] # ""}
<1>1. DOMAIN names = {1} /\ names[1] = name
  OBVIOUS
<1>2. /\ Or(item, names) = AtFirst(item, names, filled, "")
      /\ Get(item, names, "") = AtFirst(item, names, places, "")
  BY DEF Or, Get
<1>3. places = IF name \in DOMAIN item THEN {1} ELSE {}
  BY <1>1
<1>4. filled = IF name \in DOMAIN item /\ item[name] # "" THEN {1} ELSE {}
  BY <1>1
<1>5. AtFirst(item, names, {}, "") = ""
  BY DEF AtFirst
<1>6. AtFirst(item, names, {1}, "") = item[name]
  <2>1. (CHOOSE i \in {1} : \A j \in {1} : i <= j) = 1
    OBVIOUS
  <2>2. AtFirst(item, names, {1}, "") = item[names[1]]
    BY <2>1 DEF AtFirst
  <2> QED BY <1>1, <2>2
<1> HIDE DEF names, places, filled
<1>7. Or(item, names) = Get(item, names, "")
  BY <1>2, <1>3, <1>4, <1>5, <1>6
<1> QED BY <1>7 DEF names
-------------------------------------------------------------------------------
LEMMA ContractIs ==
  ASSUME NEW c
  PROVE  /\ FindingClass(c) => Contract(c) =
              [required |-> {"finding_info"}, one_of |-> {}, more |-> {"is_alert"},
               activities |-> 0..3, statuses |-> 0..6]
         /\ LogonClass(c) => Contract(c) =
              [required |-> {"user"}, one_of |-> {"service", "dst_endpoint"},
               more |-> {"src_endpoint", "actor"}, activities |-> 0..7, statuses |-> 0..2]
         /\ NetworkClass(c) => Contract(c) =
              [required |-> {}, one_of |-> {"src_endpoint", "dst_endpoint"}, more |-> {},
               activities |-> 0..7, statuses |-> 0..2]
         /\ HttpClass(c) => Contract(c) =
              [required |-> {}, one_of |-> {"http_request", "http_response"},
               more |-> {"src_endpoint", "dst_endpoint"},
               activities |-> 0..9, statuses |-> 0..2]
         /\ ApiClass(c) => Contract(c) =
              [required |-> {"api", "src_endpoint", "actor"}, one_of |-> {},
               more |-> {"dst_endpoint"}, activities |-> 0..4, statuses |-> 0..2]
         /\ ErrorClass(c) => Contract(c) =
              [required |-> {}, one_of |-> {}, more |-> {}, activities |-> 0..2,
               statuses |-> 0..2]
BY DEF Contract, FindingClass, LogonClass, NetworkClass, HttpClass, ApiClass, ErrorClass

LEMMA ActivitiesAre ==
  ASSUME NEW c
  PROVE  /\ FindingClass(c) => ActivityOk(c, 1)
         /\ LogonClass(c) => ActivityOk(c, 1) /\ ActivityOk(c, 2)
         /\ NetworkClass(c) => ActivityOk(c, 1) /\ ActivityOk(c, 5) /\ ActivityOk(c, 6)
         /\ HttpClass(c) => \A n \in 0..9 : ActivityOk(c, n)
         /\ ApiClass(c) => \A n \in 0..4 : ActivityOk(c, n)
         /\ ErrorClass(c) => ActivityOk(c, 1)
         /\ ActivityOk(c, 99)
<1>1. ASSUME FindingClass(c) PROVE ActivityOk(c, 1)
  BY <1>1, ContractIs DEF ActivityOk
<1>2. ASSUME LogonClass(c) PROVE ActivityOk(c, 1) /\ ActivityOk(c, 2)
  BY <1>2, ContractIs DEF ActivityOk
<1>3. ASSUME NetworkClass(c) PROVE ActivityOk(c, 1) /\ ActivityOk(c, 5) /\ ActivityOk(c, 6)
  BY <1>3, ContractIs DEF ActivityOk
<1>4. ASSUME HttpClass(c) PROVE \A n \in 0..9 : ActivityOk(c, n)
  BY <1>4, ContractIs DEF ActivityOk
<1>5. ASSUME ApiClass(c) PROVE \A n \in 0..4 : ActivityOk(c, n)
  BY <1>5, ContractIs DEF ActivityOk
<1>6. ASSUME ErrorClass(c) PROVE ActivityOk(c, 1)
  BY <1>6, ContractIs DEF ActivityOk
<1>7. ActivityOk(c, 99)
  BY DEF ActivityOk
<1> QED BY <1>1, <1>2, <1>3, <1>4, <1>5, <1>6, <1>7

\* The parser could read the record.
Reads(format, body, p) ==
  /\ p["parsed"] = TRUE /\ DOMAIN p = DOMAIN NotParsed
  /\ Faithful(format, body, p)

\* The attributes that a parser sets, and those that it leaves alone.
Sets(p, class, fields) ==
  /\ p["parsed"] = TRUE /\ p["class"] = class /\ DOMAIN p = DOMAIN NotParsed
  /\ \A x \in DOMAIN fields : p[x] = fields[x]
  /\ "missing_ok" \notin DOMAIN fields => p["missing_ok"] = FALSE
  /\ "src_ip" \notin DOMAIN fields => p["src_ip"] = ""
  /\ "dst_ip" \notin DOMAIN fields => p["dst_ip"] = ""
  /\ "src_port" \notin DOMAIN fields => p["src_port"] = ""
  /\ "dst_port" \notin DOMAIN fields => p["dst_port"] = ""
  /\ "user" \notin DOMAIN fields => p["user"] = ""
  /\ "metadata" \notin DOMAIN fields => p["metadata"] = <<>>

LEMMA ReturnsIs ==
  ASSUME NEW p, NEW class, NEW fields, Returns(p, class, fields),
         DOMAIN fields \subseteq DOMAIN NotParsed
  PROVE  Sets(p, class, fields)
<1>1. /\ p["parsed"] = TRUE /\ p["class"] = class /\ \A x \in DOMAIN fields : p[x] = fields[x]
      /\ DOMAIN p = DOMAIN fields \cup DOMAIN NotParsed
  BY DEF Returns
<1>2. \A x \in DOMAIN NotParsed \ (DOMAIN fields \cup {"parsed", "class", "category"}) :
        p[x] = NotParsed[x]
  BY DEF Returns
<1>3. ASSUME NEW x \in {"missing_ok", "src_ip", "dst_ip", "src_port", "dst_port", "user", "metadata"},
             x \notin DOMAIN fields
      PROVE  p[x] = NotParsed[x]
  <2>1. x \in DOMAIN NotParsed /\ x \notin {"parsed", "class", "category"}
    BY <1>3, Defaults
  <2> QED BY <1>2, <1>3, <2>1
<1>4. DOMAIN p = DOMAIN NotParsed
  BY <1>1
<1> QED BY <1>1, <1>3, <1>4, Defaults DEF Sets

\* A record that always gives its time.
LEMMA TimeGiven ==
  ASSUME NEW format, format \notin {"json", "xml", "csv"}, NEW body, NEW time,
         Said(format, body).times = {time}
  PROVE  TimeFaithful(format, body, time, FALSE)
<1>1. NoTime(format, body) = FALSE
  BY DEF NoTime
<1> QED BY <1>1 DEF TimeFaithful

LEMMA Log4jReads ==
  ASSUME NEW r
  PROVE  Reads("log4j", r.body, Log4j(r))
<1> DEFINE body == r.body
           error == r.body.level \in {"ERROR", "FATAL"}
           class == IF error THEN 6008 ELSE 6003
           fields == [activity |-> IF error THEN 1 ELSE 99,
                      severity |-> CASE r.body.level = "FATAL" -> "Critical"
                                     [] r.body.level = "ERROR" -> "High"
                                     [] r.body.level = "WARN" -> "Medium"
                                     [] OTHER -> "Informational",
                      status |-> IF error THEN "Failure" ELSE "Success",
                      time |-> r.body.ts]
           p == Parsed(class, 6, fields)
<1>1. /\ DOMAIN fields = {"activity", "severity", "status", "time"}
      /\ fields["activity"] = (IF error THEN 1 ELSE 99)
      /\ fields["time"] = body["ts"]
  OBVIOUS
<1>2. p = Log4j(r)
  BY DEF Log4j
<1>3. ErrorClass(class) \/ ApiClass(class)
  BY DEF ErrorClass, ApiClass
<1> HIDE DEF body, class, fields, error
<1>4. /\ "parsed" \notin DOMAIN fields /\ "class" \notin DOMAIN fields
      /\ "category" \notin DOMAIN fields /\ DOMAIN fields \subseteq DOMAIN NotParsed
  BY <1>1, Defaults
<1>5. Returns(p, class, fields)
  BY <1>4, ParsedIs
<1> HIDE DEF p
<1>6. /\ p["parsed"] = TRUE /\ p["class"] = class /\ DOMAIN p = DOMAIN NotParsed
      /\ p["time"] = body["ts"] /\ p["missing_ok"] = FALSE
      /\ p["activity"] = fields["activity"]
      /\ p["src_ip"] = "" /\ p["dst_ip"] = "" /\ p["src_port"] = "" /\ p["dst_port"] = ""
      /\ p["user"] = ""
  <2>1. /\ "missing_ok" \notin DOMAIN fields /\ "src_ip" \notin DOMAIN fields
        /\ "dst_ip" \notin DOMAIN fields /\ "src_port" \notin DOMAIN fields
        /\ "dst_port" \notin DOMAIN fields /\ "user" \notin DOMAIN fields
        /\ "time" \in DOMAIN fields /\ "activity" \in DOMAIN fields
    BY <1>1
  <2>2. Sets(p, class, fields)
    BY <1>4, <1>5, ReturnsIs
  <2> QED BY <1>1, <2>1, <2>2 DEF Sets
<1>7. ActivityOk(class, p["activity"])
  <2>1. CASE error
    <3>1. ErrorClass(class) \/ ApiClass(class)
      BY <1>3
    <3>2. p["activity"] = 1
      BY <1>1, <1>6, <2>1
    <3> QED BY <3>1, <3>2, ActivitiesAre
  <2>2. CASE ~ error
    <3>1. p["activity"] = 99
      BY <1>1, <1>6, <2>2
    <3> QED BY <3>1, ActivitiesAre
  <2> QED BY <2>1, <2>2
<1>8. /\ Said("log4j", body).times = {body["ts"]} /\ Said("log4j", body).ips = {}
      /\ Said("log4j", body).ports = {}
  BY DEF Said
<1>9. TimeFaithful("log4j", body, p["time"], p["missing_ok"])
  BY <1>6, <1>8, TimeGiven
<1>10. PlacesFaithful("log4j", body, p["src_ip"], p["dst_ip"], p["src_port"], p["dst_port"])
  BY <1>8 DEF PlacesFaithful
<1>11. ClassFaithful(body, p["class"], p["status"], p["user"], p["metadata"])
  BY <1>3, <1>6 DEF ClassFaithful
<1>12. Bare(p["class"], p["src_ip"], p["dst_ip"], p["src_port"], p["dst_port"])
  BY <1>6 DEF Bare
<1>13. Reads("log4j", body, p)
  BY <1>6, <1>7, <1>9, <1>10, <1>11, <1>12 DEF Reads, Faithful
<1> QED BY <1>2, <1>13 DEF body

\* The request ends with a status that int() knows.
LEMMA ApacheReads ==
  ASSUME NEW r
  PROVE  Reads("apache", r.body, Apache(r))
<1> DEFINE body == r.body
           code == IntOf[r.body.status]
           fields == [activity |-> IF r.body.method \in DOMAIN HttpActivities
                                   THEN HttpActivities[r.body.method] ELSE 99,
                      severity |-> IF code >= 500 THEN "High" ELSE IF code >= 400 THEN "Low"
                                   ELSE "Informational",
                      status |-> IF code >= 400 THEN "Failure" ELSE "Success",
                      time |-> r.body.ts, src_ip |-> r.body.ip,
                      user |-> IF r.body.user = "-" THEN "" ELSE r.body.user,
                      metadata |-> [http_status |-> code]]
           p == Parsed(4002, 4, fields)
<1>1. /\ DOMAIN fields = {"activity", "severity", "status", "time", "src_ip", "user", "metadata"}
      /\ fields["activity"] = (IF body["method"] \in DOMAIN HttpActivities
                               THEN HttpActivities[body["method"]] ELSE 99)
      /\ fields["time"] = body["ts"] /\ fields["src_ip"] = body["ip"]
      /\ "http_status" \in DOMAIN fields["metadata"]
  OBVIOUS
<1>2. p = Apache(r)
  BY DEF Apache
<1>3. PICK class : class = 4002
  OBVIOUS
<1>4. HttpClass(class)
  BY <1>3 DEF HttpClass
<1>5. p = Parsed(class, 4, fields)
  BY <1>3
<1> HIDE DEF body, fields, p
<1>6. /\ "parsed" \notin DOMAIN fields /\ "class" \notin DOMAIN fields
      /\ "category" \notin DOMAIN fields /\ DOMAIN fields \subseteq DOMAIN NotParsed
  BY <1>1, Defaults
<1>7. Returns(p, class, fields)
  BY <1>5, <1>6, ParsedIs
<1>8. /\ p["parsed"] = TRUE /\ p["class"] = class /\ DOMAIN p = DOMAIN NotParsed
      /\ p["time"] = body["ts"] /\ p["missing_ok"] = FALSE
      /\ p["activity"] = fields["activity"] /\ p["metadata"] = fields["metadata"]
      /\ p["src_ip"] = body["ip"] /\ p["dst_ip"] = ""
      /\ p["src_port"] = "" /\ p["dst_port"] = ""
  <2>1. /\ "missing_ok" \notin DOMAIN fields /\ "dst_ip" \notin DOMAIN fields
        /\ "src_port" \notin DOMAIN fields /\ "dst_port" \notin DOMAIN fields
        /\ {"time", "activity", "metadata", "src_ip"} \subseteq DOMAIN fields
    BY <1>1
  <2>2. Sets(p, class, fields)
    BY <1>6, <1>7, ReturnsIs
  <2> QED BY <1>1, <2>1, <2>2 DEF Sets
<1>9. ActivityOk(class, p["activity"])
  <2>1. \A m \in DOMAIN HttpActivities : HttpActivities[m] \in 0..9
    BY DEF HttpActivities
  <2> DEFINE method == body["method"]
  <2>2. CASE method \in DOMAIN HttpActivities
    <3>1. p["activity"] = HttpActivities[method]
      BY <1>1, <1>8, <2>2
    <3> QED BY <1>4, <2>1, <2>2, <3>1, ActivitiesAre
  <2>3. CASE method \notin DOMAIN HttpActivities
    <3>1. p["activity"] = 99
      BY <1>1, <1>8, <2>3
    <3> QED BY <3>1, ActivitiesAre
  <2> QED BY <2>2, <2>3
<1>10. /\ Said("apache", body).times = {body["ts"]} /\ Said("apache", body).ips = {body["ip"]}
      /\ Said("apache", body).ports = {}
  BY DEF Said
<1>11. TimeFaithful("apache", body, p["time"], p["missing_ok"])
  <2>1. TimeFaithful("apache", body, body["ts"], FALSE)
    BY <1>10, TimeGiven
  <2> QED BY <1>8, <2>1, Zenon
<1>12. PlacesFaithful("apache", body, p["src_ip"], p["dst_ip"], p["src_port"], p["dst_port"])
  BY <1>8, <1>10 DEF PlacesFaithful
<1>13. ClassFaithful(body, p["class"], p["status"], p["user"], p["metadata"])
  BY <1>1, <1>4, <1>8 DEF ClassFaithful
<1>14. Bare(p["class"], p["src_ip"], p["dst_ip"], p["src_port"], p["dst_port"])
  BY <1>4, <1>8, ClassesDiffer DEF Bare
<1>15. Reads("apache", body, p)
  BY <1>8, <1>9, <1>11, <1>12, <1>13, <1>14 DEF Reads, Faithful
<1> QED BY <1>2, <1>15 DEF body
-------------------------------------------------------------------------------
\* A record that may be without a time.
LEMMA TimeOrNone ==
  ASSUME NEW format, format \notin {"json", "xml", "csv"}, NEW body, NEW time, NEW missing_ok,
         missing_ok = (time = ""), Said(format, body).times = {time} \ {""}
  PROVE  TimeFaithful(format, body, time, missing_ok)
<1>1. CASE time = ""
  <2>1. Said(format, body).times = {}
    BY <1>1
  <2>2. NoTime(format, body) = TRUE
    BY <2>1 DEF NoTime
  <2> QED BY <1>1, <2>1, <2>2 DEF TimeFaithful
<1>2. CASE time # ""
  <2>1. Said(format, body).times = {time}
    BY <1>2
  <2>2. NoTime(format, body) = FALSE
    BY <2>1 DEF NoTime
  <2> QED BY <1>2, <2>1, <2>2 DEF TimeFaithful
<1> QED BY <1>1, <1>2

\* Syslog has a timestamp, "-" for none, or a date without a year.
SyslogOk(reads, body) ==
  /\ "rfc5424" \in reads => body["ts"] # ""
  /\ "rfc5424" \notin reads => body["ts"] \in {"date", "no date"}

LEMMA SyslogReads ==
  ASSUME NEW r, SyslogOk(r.reads, r.body)
  PROVE  Syslog(r) = NotParsed \/ Reads("syslog", r.body, Syslog(r))
<1> DEFINE body == r.body
           old == "rfc5424" \notin r.reads
           time == IF old THEN "zoned" ELSE IF body.ts = "-" THEN "" ELSE body.ts
           denied == body.word \in {"deny", "deny critical"}
           fields ==
             [activity |-> IF denied THEN 5 ELSE IF body.word = "allow" THEN 1 ELSE 6,
              severity |-> IF body.word = "deny critical" THEN "Critical"
                           ELSE IF denied THEN "Medium" ELSE "Informational",
              status |-> IF denied THEN "Failure" ELSE "Success",
              time |-> time, missing_ok |-> time = "",
              src_ip |-> Or(body, <<"src", "srcip", "src_ip">>),
              dst_ip |-> Or(body, <<"dst", "dstip", "dst_ip">>),
              src_port |-> Get(body, <<"sport">>, ""), dst_port |-> Get(body, <<"dport">>, ""),
              metadata |-> body]
           class == 4001
           p == Parsed(class, 4, fields)
<1>1. Syslog(r) = IF old /\ body.ts = "no date" THEN NotParsed ELSE p
  BY DEF Syslog
<1> SUFFICES ASSUME ~ (old /\ body.ts = "no date") PROVE Reads("syslog", body, p)
  <2> HIDE DEF p, old
  <2> QED BY <1>1
<1>2. DOMAIN fields = {"activity", "severity", "status", "time", "missing_ok", "src_ip", "dst_ip",
                       "src_port", "dst_port", "metadata"}
  OBVIOUS
<1>3. /\ fields["time"] = time /\ fields["missing_ok"] = (time = "")
      /\ fields["src_ip"] = Or(body, <<"src", "srcip", "src_ip">>)
      /\ fields["dst_ip"] = Or(body, <<"dst", "dstip", "dst_ip">>)
      /\ fields["src_port"] = Get(body, <<"sport">>, "")
      /\ fields["dst_port"] = Get(body, <<"dport">>, "")
  BY Zenon
<1>4. fields["activity"] \in {1, 5, 6}
  OBVIOUS
<1> HIDE DEF fields
<1>5. NetworkClass(class)
  BY DEF NetworkClass
<1> HIDE DEF class
<1>6. ActivityOk(class, fields["activity"])
  <2>1. NetworkClass(class)
    BY <1>5
  <2>2. ActivityOk(class, 1) /\ ActivityOk(class, 5) /\ ActivityOk(class, 6)
    BY <2>1, ActivitiesAre
  <2> QED BY <1>4, <2>2
<1>7. /\ old => body.ts = "date" /\ time = "zoned"
      /\ ~ old /\ body.ts = "-" => time = ""
      /\ ~ old /\ body.ts # "-" => time = body.ts /\ time # ""
  BY DEF SyslogOk
<1> HIDE DEF p, time
<1>8. Sets(p, class, fields)
  <2>1. /\ "parsed" \notin DOMAIN fields /\ "class" \notin DOMAIN fields
        /\ "category" \notin DOMAIN fields /\ DOMAIN fields \subseteq DOMAIN NotParsed
    BY <1>2, Defaults
  <2>2. Returns(p, class, fields)
    BY <2>1, ParsedIs DEF p
  <2> QED BY <2>1, <2>2, ReturnsIs
<1>9. /\ p["parsed"] = TRUE /\ p["class"] = class /\ DOMAIN p = DOMAIN NotParsed
      /\ p["time"] = time /\ p["missing_ok"] = (time = "")
      /\ p["activity"] = fields["activity"] /\ p["user"] = ""
      /\ p["src_ip"] = Or(body, <<"src", "srcip", "src_ip">>)
      /\ p["dst_ip"] = Or(body, <<"dst", "dstip", "dst_ip">>)
      /\ p["src_port"] = Get(body, <<"sport">>, "")
      /\ p["dst_port"] = Get(body, <<"dport">>, "")
  <2>1. {"time", "missing_ok", "activity", "src_ip", "dst_ip", "src_port", "dst_port"}
          \subseteq DOMAIN fields
        /\ "user" \notin DOMAIN fields
    BY <1>2
  <2>2. /\ p["time"] = fields["time"] /\ p["missing_ok"] = fields["missing_ok"]
        /\ p["activity"] = fields["activity"] /\ p["src_ip"] = fields["src_ip"]
        /\ p["dst_ip"] = fields["dst_ip"] /\ p["src_port"] = fields["src_port"]
        /\ p["dst_port"] = fields["dst_port"] /\ p["user"] = ""
    BY <1>8, <2>1 DEF Sets
  <2>3. p["parsed"] = TRUE /\ p["class"] = class /\ DOMAIN p = DOMAIN NotParsed
    BY <1>8 DEF Sets
  <2> QED BY <1>3, <2>2, <2>3, Zenon
<1>10. /\ Said("syslog", body).times = {body.ts} \ {"-"}
       /\ Said("syslog", body).ips = {Or(body, <<"src", "srcip", "src_ip">>),
                                       Or(body, <<"dst", "dstip", "dst_ip">>)}
       /\ Said("syslog", body).ports = {Get(body, <<"sport">>, ""), Get(body, <<"dport">>, "")}
  BY DEF Said
<1>11. TimeFaithful("syslog", body, p["time"], p["missing_ok"])
  <2>1. CASE old
    <3>1. /\ Said("syslog", body).times = {"date"} /\ p["missing_ok"] = FALSE
      BY <1>7, <1>9, <1>10, <2>1
    <3>2. NoTime("syslog", body) = FALSE
      BY <3>1 DEF NoTime
    <3> QED BY <3>1, <3>2 DEF TimeFaithful
  <2>2. CASE ~ old
    <3>1. Said("syslog", body).times = {time} \ {""}
      BY <1>7, <1>10, <2>2
    <3> QED BY <1>9, <3>1, TimeOrNone
  <2> QED BY <2>1, <2>2
<1>12. PlacesFaithful("syslog", body, p["src_ip"], p["dst_ip"], p["src_port"], p["dst_port"])
  BY <1>9, <1>10 DEF PlacesFaithful
<1>13. ClassFaithful(body, p["class"], p["status"], p["user"], p["metadata"])
  BY <1>5, <1>9 DEF ClassFaithful
<1>14. Bare(p["class"], p["src_ip"], p["dst_ip"], p["src_port"], p["dst_port"])
  BY <1>5, <1>9, ClassesDiffer DEF Bare
<1> QED BY <1>6, <1>9, <1>11, <1>12, <1>13, <1>14 DEF Reads, Faithful

\* A finding of CEF or LEEF.
LEMMA FindingIs ==
  ASSUME NEW format, format \notin {"json", "xml", "csv"}, NEW body,
         NEW time, NEW severity, NEW fields,
         DOMAIN fields \subseteq {"src_ip", "dst_ip", "src_port", "dst_port", "user", "metadata"},
         Said(format, body).times = {time} \ {""},
         "src_ip" \in DOMAIN fields, "dst_ip" \in DOMAIN fields,
         Said(format, body).ips \subseteq {fields["src_ip"], fields["dst_ip"]},
         \/ Said(format, body).ports = {}
         \/ /\ "src_port" \in DOMAIN fields /\ "dst_port" \in DOMAIN fields
            /\ Said(format, body).ports \subseteq {fields["src_port"], fields["dst_port"]}
  PROVE  Reads(format, body, Finding(time, severity, fields))
<1> DEFINE own == [activity |-> 1, status |-> "New", time |-> time, missing_ok |-> time = "",
                   severity |-> FindingSeverity(severity)]
           all == fields ++ own
           class == 2004
           p == Parsed(class, 2, all)
<1>1. p = Finding(time, severity, fields)
  BY DEF Finding
<1>4. /\ DOMAIN own = {"activity", "status", "time", "missing_ok", "severity"}
      /\ own["time"] = time /\ own["missing_ok"] = (time = "")
  BY Zenon
<1>5. own["activity"] = 1
  OBVIOUS
<1> HIDE DEF own, all
<1>3. FindingClass(class)
  BY DEF FindingClass
<1> HIDE DEF class
<1>16. ActivityOk(class, own["activity"])
  <2>1. ActivityOk(class, 1)
    BY <1>3, ActivitiesAre
  <2> QED BY <1>5, <2>1
<1>6. /\ DOMAIN all = DOMAIN fields \cup DOMAIN own
      /\ \A x \in DOMAIN fields : all[x] = fields[x]
      /\ \A x \in DOMAIN own \ DOMAIN fields : all[x] = own[x]
  BY Over DEF all
<1> HIDE DEF p
<1>7. \A x \in DOMAIN own : x \in DOMAIN own \ DOMAIN fields
  BY <1>4
<1>8. Sets(p, class, all)
  <2>1. /\ "parsed" \notin DOMAIN all /\ "class" \notin DOMAIN all
        /\ "category" \notin DOMAIN all /\ DOMAIN all \subseteq DOMAIN NotParsed
    BY <1>4, <1>6, Defaults
  <2>2. Returns(p, class, all)
    BY <2>1, ParsedIs DEF p
  <2> QED BY <2>1, <2>2, ReturnsIs
<1>9. /\ p["parsed"] = TRUE /\ p["class"] = class /\ DOMAIN p = DOMAIN NotParsed
      /\ \A x \in DOMAIN fields : p[x] = fields[x]
      /\ \A x \in DOMAIN own : p[x] = own[x]
  <2>1. p["parsed"] = TRUE /\ p["class"] = class /\ DOMAIN p = DOMAIN NotParsed
    BY <1>8, Zenon DEF Sets
  <2>2. \A x \in DOMAIN all : p[x] = all[x]
    BY <1>8, Zenon DEF Sets
  <2>3. \A x \in DOMAIN own : p[x] = own[x]
    BY <1>6, <1>7, <2>2
  <2> QED BY <1>6, <2>1, <2>2, <2>3
<1>10. p["time"] = time /\ p["missing_ok"] = (time = "") /\ p["activity"] = own["activity"]
  <2>1. /\ p["time"] = own["time"] /\ p["missing_ok"] = own["missing_ok"]
        /\ p["activity"] = own["activity"]
    BY <1>4, <1>9
  <2> QED BY <1>4, <2>1, Zenon
<1>11. TimeFaithful(format, body, p["time"], p["missing_ok"])
  BY <1>10, TimeOrNone
<1>12. PlacesFaithful(format, body, p["src_ip"], p["dst_ip"], p["src_port"], p["dst_port"])
  BY <1>9 DEF PlacesFaithful
<1>13. ClassFaithful(body, p["class"], p["status"], p["user"], p["metadata"])
  BY <1>3, <1>9 DEF ClassFaithful
<1>14. Bare(p["class"], p["src_ip"], p["dst_ip"], p["src_port"], p["dst_port"])
  BY <1>3, <1>9, ClassesDiffer DEF Bare
<1>15. Reads(format, body, p)
  BY <1>9, <1>10, <1>11, <1>12, <1>13, <1>14, <1>16 DEF Reads, Faithful
<1> QED BY <1>1, <1>15

LEMMA CefReads ==
  ASSUME NEW r
  PROVE  Cef(r) = NotParsed \/ Reads("cef", r.body, Cef(r))
<1> DEFINE ext == r.body
           fields == [src_ip |-> Get(ext, <<"src">>, ""), dst_ip |-> Get(ext, <<"dst">>, ""),
                      src_port |-> Get(ext, <<"spt">>, ""), dst_port |-> Get(ext, <<"dpt">>, ""),
                      user |-> Get(ext, <<"suser", "duser">>, ""),
                      metadata |-> [f \in DOMAIN ext \ {"raw_severity"} |-> ext[f]]]
           time == Or(ext, <<"rt", "start", "end">>)
           severity == Get(ext, <<"raw_severity">>, "Unknown")
<1>1. Cef(r) = NotParsed \/ Cef(r) = Finding(time, severity, fields)
  BY DEF Cef
<1>2. DOMAIN fields = {"src_ip", "dst_ip", "src_port", "dst_port", "user", "metadata"}
  OBVIOUS
<1>3. /\ fields["src_ip"] = Get(ext, <<"src">>, "") /\ fields["dst_ip"] = Get(ext, <<"dst">>, "")
      /\ fields["src_port"] = Get(ext, <<"spt">>, "") /\ fields["dst_port"] = Get(ext, <<"dpt">>, "")
  BY Zenon
<1>4. /\ Said("cef", ext).times = {time} \ {""}
      /\ Said("cef", ext).ips = {Get(ext, <<"src">>, ""), Get(ext, <<"dst">>, "")}
      /\ Said("cef", ext).ports = {Get(ext, <<"spt">>, ""), Get(ext, <<"dpt">>, "")}
  BY DEF Said
<1> HIDE DEF fields, time, severity
<1>5. /\ Said("cef", ext).ips \subseteq {fields["src_ip"], fields["dst_ip"]}
      /\ Said("cef", ext).ports \subseteq {fields["src_port"], fields["dst_port"]}
  BY <1>3, <1>4
<1> HIDE DEF ext
<1>6. Reads("cef", ext, Finding(time, severity, fields))
  BY <1>2, <1>4, <1>5, FindingIs
<1> QED BY <1>1, <1>6 DEF ext

LEMMA LeefReads ==
  ASSUME NEW r
  PROVE  Leef(r) = NotParsed \/ Reads("leef", r.body, Leef(r))
<1> DEFINE ext == r.body
           fields == [src_ip |-> Get(ext, <<"src">>, ""), dst_ip |-> Get(ext, <<"dst">>, ""),
                      user |-> Get(ext, <<"usrName">>, ""), metadata |-> ext]
           time == Or(ext, <<"devTime">>)
           severity == Get(ext, <<"sev", "severity">>, "Informational")
<1>1. Leef(r) = NotParsed \/ Leef(r) = Finding(time, severity, fields)
  BY DEF Leef
<1>2. DOMAIN fields = {"src_ip", "dst_ip", "user", "metadata"}
  OBVIOUS
<1>3. fields["src_ip"] = Get(ext, <<"src">>, "") /\ fields["dst_ip"] = Get(ext, <<"dst">>, "")
  BY Zenon
<1>4. /\ Said("leef", ext).times = {Get(ext, <<"devTime">>, "")} \ {""}
      /\ Said("leef", ext).ips = {Get(ext, <<"src">>, ""), Get(ext, <<"dst">>, "")}
      /\ Said("leef", ext).ports = {}
  BY DEF Said
<1>5. time = Get(ext, <<"devTime">>, "")
  BY OneName
<1> HIDE DEF fields, time, severity
<1>6. /\ Said("leef", ext).ips \subseteq {fields["src_ip"], fields["dst_ip"]}
      /\ Said("leef", ext).times = {time} \ {""}
  BY <1>3, <1>4, <1>5
<1> HIDE DEF ext
<1>7. Reads("leef", ext, Finding(time, severity, fields))
  BY <1>2, <1>4, <1>6, FindingIs
<1> QED BY <1>1, <1>7 DEF ext
-------------------------------------------------------------------------------
ActionFields == <<"event_type", "action", "operation">>
DstFields == <<"dst_ip", "destination_ip">>
SrcPorts == <<"src_port", "source_port", "client_port">>
DstPorts == <<"dst_port", "destination_port", "server_port">>

\* What StructuredRecord reads in every class.
Common(item) ==
  [severity |-> SeverityOf(Get(item, <<"severity", "level", "risk">>, "Informational")),
   time |-> Get(item, TimeFields, ""),
   missing_ok |-> \A i \in DOMAIN TimeFields : TimeFields[i] \notin DOMAIN item,
   user |-> Get(item, UserFields, ""),
   src_ip |-> Get(item, SrcFields, ""),
   dst_ip |-> Get(item, DstFields, IF Get(item, <<"server">>, "") = "ip" THEN "ip" ELSE ""),
   src_port |-> Get(item, SrcPorts, ""),
   dst_port |-> Get(item, DstPorts, "")]

\* Of a logon and of API activity the record tells its time and its places alike.
Alike(format, body, class, own, p) ==
  /\ p["parsed"] = TRUE /\ p["class"] = class /\ DOMAIN p = DOMAIN NotParsed
  /\ p["activity"] = own["activity"] /\ p["status"] = own["status"]
  /\ p["metadata"] = own["metadata"] /\ p["user"] = Get(body, UserFields, "")
  /\ TimeFaithful(format, body, p["time"], p["missing_ok"])
  /\ PlacesFaithful(format, body, p["src_ip"], p["dst_ip"], p["src_port"], p["dst_port"])
  /\ Bare(p["class"], p["src_ip"], p["dst_ip"], p["src_port"], p["dst_port"])

LEMMA CommonIs ==
  ASSUME NEW format \in {"json", "xml", "csv"}, NEW body, NEW class, NEW category, NEW own,
         DOMAIN own = {"activity", "status", "metadata"}, NEW p,
         p = Parsed(class, category, Common(body) ++ own), ~ ErrorClass(class)
  PROVE  Alike(format, body, class, own, p)
<1> DEFINE common == Common(body)
           all == common ++ own
           Untimed == \A i \in DOMAIN TimeFields : TimeFields[i] \notin DOMAIN body
           server == IF Get(body, <<"server">>, "") = "ip" THEN "ip" ELSE ""
<1>1. DOMAIN common = {"severity", "time", "missing_ok", "user", "src_ip", "dst_ip", "src_port",
                       "dst_port"}
  BY DEF Common
<1>2. /\ common["time"] = Get(body, TimeFields, "") /\ common["missing_ok"] = Untimed
      /\ common["user"] = Get(body, UserFields, "")
      /\ common["src_ip"] = Get(body, SrcFields, "")
      /\ common["dst_ip"] = Get(body, DstFields, server)
      /\ common["src_port"] = Get(body, SrcPorts, "")
      /\ common["dst_port"] = Get(body, DstPorts, "")
  BY Zenon DEF Common
<1> HIDE DEF common, server
<1>3. /\ DOMAIN all = DOMAIN common \cup DOMAIN own
      /\ \A x \in DOMAIN common : all[x] = common[x]
      /\ \A x \in DOMAIN own \ DOMAIN common : all[x] = own[x]
  BY Over
<1>4. p = Parsed(class, category, all)
  BY DEF common
<1> HIDE DEF all, Untimed
<1>5. Sets(p, class, all)
  <2>1. /\ "parsed" \notin DOMAIN all /\ "class" \notin DOMAIN all
        /\ "category" \notin DOMAIN all /\ DOMAIN all \subseteq DOMAIN NotParsed
    BY <1>1, <1>3, Defaults
  <2>2. Returns(p, class, all)
    BY <1>4, <2>1, ParsedIs
  <2> QED BY <2>1, <2>2, ReturnsIs
<1>6. \A x \in DOMAIN own : x \in DOMAIN own \ DOMAIN common
  BY <1>1
<1>7. /\ p["parsed"] = TRUE /\ p["class"] = class /\ DOMAIN p = DOMAIN NotParsed
      /\ \A x \in DOMAIN common : p[x] = common[x]
      /\ \A x \in DOMAIN own : p[x] = own[x]
  <2>1. p["parsed"] = TRUE /\ p["class"] = class /\ DOMAIN p = DOMAIN NotParsed
    BY <1>5, Zenon DEF Sets
  <2>2. \A x \in DOMAIN all : p[x] = all[x]
    BY <1>5, Zenon DEF Sets
  <2>3. \A x \in DOMAIN own : p[x] = own[x]
    BY <1>3, <1>6, <2>2
  <2> QED BY <1>3, <2>1, <2>2, <2>3
<1>8. /\ p["time"] = common["time"] /\ p["missing_ok"] = common["missing_ok"]
      /\ p["user"] = common["user"] /\ p["src_ip"] = common["src_ip"]
      /\ p["dst_ip"] = common["dst_ip"] /\ p["src_port"] = common["src_port"]
      /\ p["dst_port"] = common["dst_port"]
  BY <1>1, <1>7
<1>9. /\ p["activity"] = own["activity"] /\ p["status"] = own["status"]
      /\ p["metadata"] = own["metadata"]
  BY <1>7
<1>10. /\ Said(format, body).times = {Get(body, TimeFields, "zoned")}
       /\ Said(format, body).ips = {Get(body, SrcFields, ""), Get(body, DstFields, "")}
       /\ Said(format, body).ports = {Get(body, SrcPorts, ""), Get(body, DstPorts, "")}
  BY DEF Said, DstFields, SrcPorts, DstPorts
<1>11. TimeFaithful(format, body, p["time"], p["missing_ok"])
  <2>1. NoTime(format, body) = Untimed
    BY <1>10 DEF NoTime, Untimed
  <2>2. p["missing_ok"] = Untimed /\ p["time"] = Get(body, TimeFields, "")
    BY <1>2, <1>8, Zenon
  <2>3. CASE Untimed
    <3>1. Get(body, TimeFields, "zoned") = "zoned" /\ Get(body, TimeFields, "") = ""
      BY <2>3, GetIs DEF Untimed
    <3>2. Said(format, body).times \subseteq {"zoned"}
      BY <1>10, <3>1
    <3>3. NoTime(format, body) = TRUE /\ p["missing_ok"] = TRUE /\ p["time"] = ""
      BY <2>1, <2>2, <2>3, <3>1
    <3> QED BY <3>2, <3>3 DEF TimeFaithful
  <2>4. CASE ~ Untimed
    <3>1. Get(body, TimeFields, "zoned") = Get(body, TimeFields, "")
      BY <2>4, GetIs DEF Untimed
    <3>2. Said(format, body).times = {p["time"]}
      BY <1>10, <2>2, <3>1
    <3>3. NoTime(format, body) = FALSE /\ p["missing_ok"] = FALSE
      BY <2>1, <2>2, <2>4 DEF Untimed
    <3> QED BY <3>2, <3>3 DEF TimeFaithful
  <2> QED BY <2>3, <2>4
<1>12. PlacesFaithful(format, body, p["src_ip"], p["dst_ip"], p["src_port"], p["dst_port"])
  <2>1. Get(body, DstFields, "") \in {Get(body, DstFields, server), ""}
    <3>1. CASE \E i \in DOMAIN DstFields : DstFields[i] \in DOMAIN body
      BY <3>1, GetIs
    <3>2. CASE \A i \in DOMAIN DstFields : DstFields[i] \notin DOMAIN body
      BY <3>2, GetIs
    <3> QED BY <3>1, <3>2
  <2> QED BY <1>2, <1>8, <1>10, <2>1 DEF PlacesFaithful
<1>13. Bare(p["class"], p["src_ip"], p["dst_ip"], p["src_port"], p["dst_port"])
  BY <1>7 DEF Bare
<1> QED BY <1>2, <1>7, <1>8, <1>9, <1>11, <1>12, <1>13 DEF Alike

\* The outcomes that a logon names are those that its fields and its action say.
LEMMA KnownIs ==
  ASSUME NEW item, NEW action, action = Get(item, ActionFields, "Observed"),
         action \in DOMAIN AuthActions
  PROVE  LET known == KnownOutcomes(action, item)
         IN /\ known \subseteq {"Success", "Failure"}
            /\ "Success" \in known <=> Says(item, "success", "login_success")
            /\ "Failure" \in known <=> Says(item, "failed", "login_failure")
<1> DEFINE known == KnownOutcomes(action, item)
           said == {OutcomeOf(item[key]) : key \in {"status", "outcome"} \cap DOMAIN item}
<1>1. DOMAIN AuthActions = {"login", "login_success", "login_failure", "logout"}
  BY DEF AuthActions
<1>2. Get(item, ActionFields, "") = action
  <2>1. CASE \E i \in DOMAIN ActionFields : ActionFields[i] \in DOMAIN item
    BY <2>1, GetIs
  <2>2. CASE \A i \in DOMAIN ActionFields : ActionFields[i] \notin DOMAIN item
    <3>1. action = "Observed"
      BY <2>2, GetIs
    <3> QED BY <1>1, <3>1
  <2> QED BY <2>1, <2>2
<1>3. ASSUME NEW v
      PROVE  /\ OutcomeOf(v) \in {"Success", "Failure", "Unknown"}
             /\ OutcomeOf(v) = "Success" <=> v = "success"
             /\ OutcomeOf(v) = "Failure" <=> v = "failed"
  <2>1. DOMAIN Outcomes = {"success", "failed"}
        /\ Outcomes["success"] = "Success" /\ Outcomes["failed"] = "Failure"
    BY DEF Outcomes
  <2> QED BY <2>1 DEF OutcomeOf
<1>4. /\ AuthActions[action][2] \in {"Success", "Failure", "Unknown"}
      /\ AuthActions[action][2] = "Success" <=> action = "login_success"
      /\ AuthActions[action][2] = "Failure" <=> action = "login_failure"
  BY <1>1 DEF AuthActions
<1>5. known = (said \cup {AuthActions[action][2]}) \ {"Unknown"}
  BY DEF KnownOutcomes
<1> HIDE DEF known
<1>6. known \subseteq {"Success", "Failure"}
  BY <1>3, <1>4, <1>5
<1>7. "Success" \in known <=>
        (\E f \in {"status", "outcome"} \cap DOMAIN item : item[f] = "success")
          \/ action = "login_success"
  BY <1>3, <1>4, <1>5
<1>8. "Failure" \in known <=>
        (\E f \in {"status", "outcome"} \cap DOMAIN item : item[f] = "failed")
          \/ action = "login_failure"
  BY <1>3, <1>4, <1>5
<1>9. /\ "Success" \in known <=> Says(item, "success", "login_success")
      /\ "Failure" \in known <=> Says(item, "failed", "login_failure")
  BY <1>2, <1>7, <1>8 DEF Says, ActionFields
<1> QED BY <1>6, <1>9 DEF known

\* metadata names the service of a logon.
LEMMA ServiceIs ==
  ASSUME NEW item, NEW service
  PROVE  "service" \in DOMAIN Metadata(item, service) \/ service = ""
<1> DEFINE f == [x \in DOMAIN item \ MappedFields |-> item[x]]
           g == IF service = "" THEN <<>> ELSE [service |-> service]
           m == f ++ g
<1>1. service # "" => "service" \in DOMAIN g
  OBVIOUS
<1>2. m = Metadata(item, service)
  BY DEF Metadata
<1> HIDE DEF f, g
<1>3. DOMAIN m = DOMAIN f \cup DOMAIN g
  BY Over
<1> HIDE DEF m
<1> QED BY <1>1, <1>2, <1>3
-------------------------------------------------------------------------------
Service(item) == Or(item, <<"service", "app">>)

OfLogon(item, action, known) ==
  [activity |-> AuthActions[action][1],
   status |-> IF known = {} THEN "Unknown" ELSE CHOOSE s \in known : TRUE,
   metadata |-> Metadata(item, Service(item))]
OfActivity(item, action) ==
  [activity |-> IF action \in DOMAIN ApiActions THEN ApiActions[action] ELSE 99,
   status |-> IF action = "denied" THEN "Failure" ELSE "Success",
   metadata |-> Metadata(item, "")]

LogonUid == 3002
LogonCategory == 3
ApiUid == 6003
ApiCategory == 6

\* The cases of StructuredRecord.
StructuredCase(item, action, known, p) ==
  \/ p = NotParsed
  \/ /\ action \in DOMAIN AuthActions /\ ~ (Cardinality(known) > 1)
     /\ p = Parsed(LogonUid, LogonCategory, Common(item) ++ OfLogon(item, action, known))
  \/ p = Parsed(ApiUid, ApiCategory, Common(item) ++ OfActivity(item, action))

LEMMA StructuredIs ==
  ASSUME NEW item
  PROVE  StructuredCase(item, Get(item, ActionFields, "Observed"),
                        KnownOutcomes(Get(item, ActionFields, "Observed"), item),
                        StructuredRecord(item))
<1> DEFINE action == Get(item, ActionFields, "Observed")
           known == KnownOutcomes(action, item)
           is_auth == action \in DOMAIN AuthActions
           refused == \/ \E f \in MappedFields \cap DOMAIN item : item[f] = Nested
                      \/ is_auth /\ Cardinality(known) > 1
<1>1. StructuredRecord(item) =
        IF refused THEN NotParsed
        ELSE IF is_auth THEN Parsed(LogonUid, LogonCategory, Common(item) ++ OfLogon(item, action, known))
        ELSE Parsed(ApiUid, ApiCategory, Common(item) ++ OfActivity(item, action))
  BY Zenon DEF StructuredRecord, Common, OfLogon, OfActivity, Service, ActionFields, DstFields,
     SrcPorts, DstPorts, LogonUid, LogonCategory, ApiUid, ApiCategory
<1>2. ~ refused /\ is_auth => ~ (Cardinality(known) > 1)
  OBVIOUS
<1> DEFINE p == StructuredRecord(item)
<1>3. p = IF refused THEN NotParsed
          ELSE IF is_auth
          THEN Parsed(LogonUid, LogonCategory, Common(item) ++ OfLogon(item, action, known))
          ELSE Parsed(ApiUid, ApiCategory, Common(item) ++ OfActivity(item, action))
  BY <1>1
<1>4. StructuredCase(item, action, known, p)
  <2> HIDE DEF refused, known, action, p
  <2> QED BY <1>2, <1>3, Zenon DEF StructuredCase
<1> QED BY <1>4

LEMMA LogonReads ==
  ASSUME NEW format \in {"json", "xml", "csv"}, NEW item, NEW action, NEW known, NEW class, NEW category,
         NEW p, LogonClass(class),
         action = Get(item, ActionFields, "Observed"), action \in DOMAIN AuthActions,
         known = KnownOutcomes(action, item), ~ (Cardinality(known) > 1),
         p = Parsed(class, category, Common(item) ++ OfLogon(item, action, known))
  PROVE  Reads(format, item, p)
<1> DEFINE own == OfLogon(item, action, known)
           success == Says(item, "success", "login_success")
           failure == Says(item, "failed", "login_failure")
<1>1. DOMAIN own = {"activity", "status", "metadata"}
  BY DEF OfLogon
<1>2. /\ own["activity"] = AuthActions[action][1]
      /\ own["status"] = (IF known = {} THEN "Unknown" ELSE CHOOSE s \in known : TRUE)
      /\ own["metadata"] = Metadata(item, Service(item))
  BY DEF OfLogon
<1>3. AuthActions[action][1] \in {1, 2}
  BY DEF AuthActions
<1> HIDE DEF own
<1>4. /\ p["parsed"] = TRUE /\ p["class"] = class /\ DOMAIN p = DOMAIN NotParsed
      /\ p["activity"] = own["activity"] /\ p["status"] = own["status"]
      /\ p["metadata"] = own["metadata"] /\ p["user"] = Get(item, UserFields, "")
      /\ TimeFaithful(format, item, p["time"], p["missing_ok"])
      /\ PlacesFaithful(format, item, p["src_ip"], p["dst_ip"], p["src_port"], p["dst_port"])
      /\ Bare(p["class"], p["src_ip"], p["dst_ip"], p["src_port"], p["dst_port"])
  <2>1. ~ ErrorClass(class)
    BY ClassesDiffer
  <2>2. p = Parsed(class, category, Common(item) ++ own)
    BY DEF own
  <2>3. Alike(format, item, class, own, p)
    BY <1>1, <2>1, <2>2, CommonIs
  <2> QED BY <2>3 DEF Alike
<1>5. ActivityOk(class, p["activity"])
  <2>1. ActivityOk(class, 1) /\ ActivityOk(class, 2)
    BY ActivitiesAre
  <2>2. p["activity"] \in {1, 2}
    BY <1>2, <1>3, <1>4
  <2> QED BY <2>1, <2>2
<1>6. /\ known \subseteq {"Success", "Failure"}
      /\ "Success" \in known <=> success
      /\ "Failure" \in known <=> failure
  BY KnownIs
<1> HIDE DEF success, failure
<1>7. ~ (success /\ failure)
  <2> SUFFICES ASSUME success, failure PROVE FALSE
    OBVIOUS
  <2> DEFINE one == {"Success"}
             other == "Failure"
  <2>1. known = one \cup {other} /\ other \notin one
    BY <1>6
  <2>2. Cardinality(one) = 1 /\ IsFiniteSet(one)
    BY FS_Singleton
  <2> HIDE DEF one, other
  <2>3. Cardinality(one \cup {other}) = Cardinality(one) + 1
    BY <2>1, <2>2, FS_AddElement
  <2> QED BY <2>1, <2>2, <2>3
<1>8. p["status"] = IF success THEN "Success" ELSE IF failure THEN "Failure" ELSE "Unknown"
  <2>1. CASE success
    <3>1. known = {"Success"}
      BY <1>6, <1>7, <2>1
    <3>2. (CHOOSE s \in known : TRUE) = "Success" /\ known # {}
      BY <3>1
    <3> QED BY <1>2, <1>4, <2>1, <3>2
  <2>2. CASE ~ success /\ failure
    <3>1. known = {"Failure"}
      BY <1>6, <2>2
    <3>2. (CHOOSE s \in known : TRUE) = "Failure" /\ known # {}
      BY <3>1
    <3> QED BY <1>2, <1>4, <2>2, <3>2
  <2>3. CASE ~ success /\ ~ failure
    <3>1. known = {}
      BY <1>6, <2>3
    <3> QED BY <1>2, <1>4, <2>3, <3>1
  <2> QED BY <2>1, <2>2, <2>3
<1>9. "service" \in DOMAIN p["metadata"] \/ Or(item, <<"service", "app">>) = ""
  BY <1>2, <1>4, ServiceIs DEF Service
<1>10. LogonFaithful(item, p["status"], p["user"], p["metadata"])
  BY <1>4, <1>7, <1>8, <1>9, Zenon DEF LogonFaithful, success, failure
<1>11. ClassFaithful(item, p["class"], p["status"], p["user"], p["metadata"])
  BY <1>4, <1>10 DEF ClassFaithful
<1> QED BY <1>4, <1>5, <1>11 DEF Reads, Faithful

LEMMA ActivityReads ==
  ASSUME NEW format \in {"json", "xml", "csv"}, NEW item, NEW action, NEW class, NEW category, NEW p,
         ApiClass(class),
         p = Parsed(class, category, Common(item) ++ OfActivity(item, action))
  PROVE  Reads(format, item, p)
<1> DEFINE own == OfActivity(item, action)
<1>1. DOMAIN own = {"activity", "status", "metadata"}
  BY DEF OfActivity
<1>2. own["activity"] = IF action \in DOMAIN ApiActions THEN ApiActions[action] ELSE 99
  BY DEF OfActivity
<1>3. \A a \in DOMAIN ApiActions : ApiActions[a] \in 0..4
  BY DEF ApiActions
<1> HIDE DEF own
<1>4. /\ p["parsed"] = TRUE /\ p["class"] = class /\ DOMAIN p = DOMAIN NotParsed
      /\ p["activity"] = own["activity"]
      /\ TimeFaithful(format, item, p["time"], p["missing_ok"])
      /\ PlacesFaithful(format, item, p["src_ip"], p["dst_ip"], p["src_port"], p["dst_port"])
      /\ Bare(p["class"], p["src_ip"], p["dst_ip"], p["src_port"], p["dst_port"])
  <2>1. ~ ErrorClass(class)
    BY ClassesDiffer
  <2>2. p = Parsed(class, category, Common(item) ++ own)
    BY DEF own
  <2>3. Alike(format, item, class, own, p)
    BY <1>1, <2>1, <2>2, CommonIs
  <2> QED BY <2>3 DEF Alike
<1>5. ActivityOk(class, p["activity"])
  <2>1. (\A n \in 0..4 : ActivityOk(class, n)) /\ ActivityOk(class, 99)
    BY ActivitiesAre
  <2>2. CASE action \in DOMAIN ApiActions
    <3>1. p["activity"] = ApiActions[action]
      BY <1>2, <1>4, <2>2
    <3> QED BY <1>3, <2>1, <2>2, <3>1
  <2>3. CASE action \notin DOMAIN ApiActions
    <3>1. p["activity"] = 99
      BY <1>2, <1>4, <2>3
    <3> QED BY <2>1, <3>1
  <2> QED BY <2>2, <2>3
<1>6. ClassFaithful(item, p["class"], p["status"], p["user"], p["metadata"])
  BY <1>4 DEF ClassFaithful
<1> QED BY <1>4, <1>5, <1>6 DEF Reads, Faithful

LEMMA StructuredReads ==
  ASSUME NEW format \in {"json", "xml", "csv"}, NEW r
  PROVE  Structured(r) = NotParsed \/ Reads(format, r.body, Structured(r))
<1> DEFINE item == r.body
           action == Get(item, ActionFields, "Observed")
           known == KnownOutcomes(action, item)
           p == StructuredRecord(item)
<1>1. Structured(r) = NotParsed \/ Structured(r) = p
  BY DEF Structured
<1>2. LogonClass(LogonUid) /\ ApiClass(ApiUid)
  BY DEF LogonClass, ApiClass, LogonUid, ApiUid
<1>3. \/ p = NotParsed
      \/ /\ action \in DOMAIN AuthActions /\ ~ (Cardinality(known) > 1)
         /\ p = Parsed(LogonUid, LogonCategory, Common(item) ++ OfLogon(item, action, known))
      \/ p = Parsed(ApiUid, ApiCategory, Common(item) ++ OfActivity(item, action))
  <2>1. StructuredCase(item, action, known, p)
    BY StructuredIs
  <2> HIDE DEF p, item, action, known
  <2> QED BY <2>1, Zenon DEF StructuredCase
<1> HIDE DEF p, item, action, known
<1>4. CASE /\ action \in DOMAIN AuthActions /\ ~ (Cardinality(known) > 1)
           /\ p = Parsed(LogonUid, LogonCategory, Common(item) ++ OfLogon(item, action, known))
  <2>1. action = Get(item, ActionFields, "Observed") /\ known = KnownOutcomes(action, item)
    BY DEF action, known
  <2>2. Reads(format, item, p)
    BY <1>2, <1>4, <2>1, LogonReads
  <2> QED BY <1>1, <2>2 DEF item
<1>5. CASE p = Parsed(ApiUid, ApiCategory, Common(item) ++ OfActivity(item, action))
  <2>1. Reads(format, item, p)
    BY <1>2, <1>5, ActivityReads
  <2> QED BY <1>1, <2>1 DEF item
<1> QED BY <1>1, <1>3, <1>4, <1>5
-------------------------------------------------------------------------------
(***************************************************************************)
(* The registry: a parser is picked, and what it says is marked.           *)
(***************************************************************************)

ParserNames == {"log4j", "cef", "leef", "json", "apache", "syslog", "xml", "csv"}

LEMMA RegisteredIs ==
  /\ DOMAIN Registered = 1..8
  /\ \A i \in 1..8 : Registered[i] \in ParserNames
BY DEF Registered, ParserNames

LEMMA ConfidenceIs ==
  ASSUME NEW p, NEW r
  PROVE  /\ Confidence(p, r) \in 0..100
         /\ p = "syslog" /\ Confidence(p, r) # 0 => r.reads \cap {"rfc5424", "rfc3164"} # {}
<1>1. CASE p = "syslog"
  BY <1>1 DEF Confidence
<1>2. CASE p # "syslog" /\ p \in r.reads
  BY <1>2 DEF Confidence
<1>3. CASE p # "syslog" /\ p \notin r.reads
  BY <1>3 DEF Confidence
<1> QED BY <1>1, <1>2, <1>3

\* Of the registered parsers one is better than the others.
LEMMA BestIs ==
  ASSUME NEW r
  PROVE  Best(r) \in DOMAIN Registered
<1> DEFINE c == [i \in 1..8 |-> Confidence(Registered[i], r)]
           Better(i, j) == \/ Confidence(Registered[i], r) > Confidence(Registered[j], r)
                           \/ /\ Confidence(Registered[i], r) = Confidence(Registered[j], r)
                              /\ i < j
           key == [i \in 1..8 |-> (100 - c[i]) * 10 + i]
           keys == {key[i] : i \in 1..8}
<1>1. \A i \in 1..8 : c[i] \in 0..100 /\ c[i] = Confidence(Registered[i], r)
  BY ConfidenceIs
<1>2. \A i \in 1..8 : key[i] = (100 - c[i]) * 10 + i
  OBVIOUS
<1> HIDE DEF c, key
<1>3. keys \in SUBSET Nat /\ keys # {}
  <2>1. ASSUME NEW i \in 1..8 PROVE key[i] \in Nat
    <3>1. PICK n \in 0..100 : n = c[i]
      BY <1>1
    <3>2. key[i] = (100 - n) * 10 + i
      BY <1>2, <3>1
    <3> QED BY <3>2
  <2>2. key[1] \in keys
    OBVIOUS
  <2> QED BY <2>1, <2>2
<1>4. PICK m \in keys : \A k \in keys : m <= k
  BY <1>3, LeastNatural
<1>5. PICK best \in 1..8 : m = key[best]
  BY <1>4
<1>6. ASSUME NEW j \in 1..8, j # best PROVE Better(best, j)
  <2>1. key[best] <= key[j]
    BY <1>4, <1>5
  <2>2. PICK n \in 0..100 : n = c[best]
    BY <1>1
  <2>3. PICK o \in 0..100 : o = c[j]
    BY <1>1
  <2>4. (100 - n) * 10 + best <= (100 - o) * 10 + j
    BY <1>2, <2>1, <2>2, <2>3
  <2>5. n > o \/ (n = o /\ best < j)
    BY <1>6, <2>4
  <2>6. n = Confidence(Registered[best], r) /\ o = Confidence(Registered[j], r)
    BY <1>1, <2>2, <2>3
  <2> QED BY <2>5, <2>6
<1>7. \E i \in DOMAIN Registered : \A j \in DOMAIN Registered \ {i} : Better(i, j)
  <2>1. best \in DOMAIN Registered /\ \A j \in DOMAIN Registered \ {best} : Better(best, j)
    <3> HIDE DEF Better
    <3> QED BY <1>6, RegisteredIs
  <2> HIDE DEF Better
  <2> QED BY <2>1
<1>8. Best(r) = CHOOSE i \in DOMAIN Registered : \A j \in DOMAIN Registered \ {i} : Better(i, j)
  BY DEF Best
<1> HIDE DEF Better
<1> QED BY <1>7, <1>8

LEMMA DetectedIs ==
  ASSUME NEW r
  PROVE  /\ Detected(r) \in ParserNames \cup {"unknown"}
         /\ Detected(r) = "syslog" => r.reads \cap {"rfc5424", "rfc3164"} # {}
<1> DEFINE p == Registered[Best(r)]
<1>1. p \in ParserNames
  BY BestIs, RegisteredIs
<1>2. Detected(r) = IF Confidence(p, r) = 0 THEN "unknown" ELSE p
  BY DEF Detected
<1> HIDE DEF p
<1>3. CASE Confidence(p, r) = 0
  BY <1>2, <1>3
<1>4. CASE Confidence(p, r) # 0
  BY <1>1, <1>2, <1>4, ConfidenceIs
<1> QED BY <1>3, <1>4

\* The timestamps of syslog lines.
LineOk(reads, body) ==
  /\ "rfc5424" \in reads => body["ts"] # ""
  /\ "rfc3164" \in reads /\ "rfc5424" \notin reads => body["ts"] \in {"date", "no date"}

\* What a parser returns is no event, or faithful to the record.
Understood(body, q) ==
  \/ q["parsed"] = FALSE
  \/ q["parsed"] = TRUE /\ q["format"] \in ParserNames /\ Faithful(q["format"], body, q)

LEMMA Marked ==
  ASSUME NEW format, NEW body, NEW p, NEW q, q = [format |-> format] ++ p,
         p = NotParsed \/ (format \in ParserNames /\ Reads(format, body, p))
  PROVE  Understood(body, q)
<1>1. DOMAIN p = DOMAIN NotParsed
  BY DEF Reads
<1>2. "format" \notin DOMAIN p
  <2>1. "format" \notin DOMAIN NotParsed
    BY Defaults
  <2> QED BY <1>1, <2>1
<1>3. q["format"] = format /\ \A y \in DOMAIN p : q[y] = p[y]
  BY <1>2, Tagged
<1>4. /\ q["parsed"] = p["parsed"] /\ q["class"] = p["class"] /\ q["activity"] = p["activity"]
      /\ q["status"] = p["status"] /\ q["time"] = p["time"] /\ q["missing_ok"] = p["missing_ok"]
      /\ q["src_ip"] = p["src_ip"] /\ q["dst_ip"] = p["dst_ip"]
      /\ q["src_port"] = p["src_port"] /\ q["dst_port"] = p["dst_port"]
      /\ q["user"] = p["user"] /\ q["metadata"] = p["metadata"]
  BY <1>1, <1>3, Defaults
<1>5. CASE p = NotParsed
  BY <1>4, <1>5, Defaults DEF Understood
<1>6. CASE format \in ParserNames /\ Reads(format, body, p)
  <2>1. Faithful(format, body, p) /\ p["parsed"] = TRUE
    BY <1>6 DEF Reads
  <2>2. Faithful(format, body, q)
    BY <1>4, <2>1, Zenon DEF Faithful
  <2> QED BY <1>3, <1>4, <1>6, <2>1, <2>2, Zenon DEF Understood
<1> QED BY <1>5, <1>6

LEMMA ParseUnderstands ==
  ASSUME NEW r, NEW forced \in {"none", "json", "xml", "csv"}, LineOk(r.reads, r.body)
  PROVE  Understood(r.body, Parse(r, forced))
<1> DEFINE format == IF forced = "none" THEN Detected(r) ELSE forced
           p == CASE format = "unknown" -> NotParsed
                  [] format = "log4j" -> Log4j(r) [] format = "apache" -> Apache(r)
                  [] format = "syslog" -> Syslog(r)
                  [] format = "cef" -> Cef(r) [] format = "leef" -> Leef(r)
                  [] OTHER -> Structured(r)
           q == [format |-> format] ++ p
<1>1. Parse(r, forced) = q
  BY DEF Parse
<1>2. /\ format \in ParserNames \cup {"unknown"}
      /\ format = "syslog" => r.reads \cap {"rfc5424", "rfc3164"} # {}
  BY DetectedIs DEF ParserNames
<1> HIDE DEF format
<1>3. p = NotParsed \/ (format \in ParserNames /\ Reads(format, r.body, p))
  <2>1. CASE format = "unknown"
    BY <2>1
  <2>2. CASE format = "log4j"
    <3>1. p = Log4j(r)
      BY <2>2
    <3> HIDE DEF p
    <3> QED BY <1>2, <2>2, <3>1, Log4jReads DEF ParserNames
  <2>3. CASE format = "apache"
    <3>1. p = Apache(r)
      BY <2>3
    <3> HIDE DEF p
    <3> QED BY <1>2, <2>3, <3>1, ApacheReads DEF ParserNames
  <2>4. CASE format = "syslog"
    <3>1. p = Syslog(r)
      BY <2>4
    <3>2. SyslogOk(r.reads, r.body)
      BY <1>2, <2>4 DEF SyslogOk, LineOk
    <3> HIDE DEF p
    <3> QED BY <1>2, <2>4, <3>1, <3>2, SyslogReads DEF ParserNames
  <2>5. CASE format = "cef"
    <3>1. p = Cef(r)
      BY <2>5
    <3> HIDE DEF p
    <3> QED BY <1>2, <2>5, <3>1, CefReads DEF ParserNames
  <2>6. CASE format = "leef"
    <3>1. p = Leef(r)
      BY <2>6
    <3> HIDE DEF p
    <3> QED BY <1>2, <2>6, <3>1, LeefReads DEF ParserNames
  <2>7. CASE format \in {"json", "xml", "csv"}
    <3>1. p = Structured(r)
      BY <2>7
    <3> HIDE DEF p
    <3> QED BY <1>2, <2>7, <3>1, StructuredReads DEF ParserNames
  <2> QED BY <1>2, <2>1, <2>2, <2>3, <2>4, <2>5, <2>6, <2>7 DEF ParserNames
<1>4. Understood(r.body, q)
  <2>1. q = [format |-> format] ++ p
    OBVIOUS
  <2> HIDE DEF p, q
  <2> QED BY <1>3, <2>1, Marked
<1> QED BY <1>1, <1>4
-------------------------------------------------------------------------------
\* The lines of every reading have a timestamp where syslog needs one.
LEMMA LinesHaveTimes ==
  ASSUME document \in Documents, ~ Malformed(Format), lines = LinesOf(Format)
  PROVE  \A k \in DOMAIN lines : LineOk(lines[k].reads, lines[k].body)
<1>1. CASE Format \in {"json", "xml", "csv"}
  <2> DEFINE places == CASE Format = "json" -> TextPlaces
                         [] Format = "xml" -> DOMAIN records
                         [] Format = "csv" -> RowPlaces
  <2>1. \/ DOMAIN lines = 1..1 /\ MadeOk(lines[1], <<>>)
        \/ /\ DOMAIN lines = 1..Cardinality(places)
           /\ \A k \in 1..Cardinality(places) :
                MadeOk(lines[k], records[InOrder(places)[k]].body)
    BY <1>1, MadeLines, Zenon
  <2> HIDE DEF places
  <2>2. \A k \in 1..1 : k = 1
    OBVIOUS
  <2>3. \A k \in DOMAIN lines : \E body : MadeOk(lines[k], body)
    BY <2>1, <2>2
  <2> QED BY <2>3 DEF MadeOk, LineOk
<1>2. CASE Format = "none"
  <2>1. lines = records
    BY <1>2 DEF LinesOf
  <2> QED BY <2>1, RecordsOk DEF RecordOk, LineOk
<1> QED BY <1>1, <1>2, Formats

\* An accepted event comes of one record that a parser understood.
LEMMA AcceptedIs ==
  ASSUME Inv, NEW a \in Accepted
  PROVE  \E q : /\ Accepts(q, a.event) /\ q["format"] \in ParserNames
                /\ Faithful(q["format"], a.record.body, q)
<1>1. PICK i \in DOMAIN output : a = output[i] /\ output[i].event.parse_success
  BY DEF Accepted
<1>2. output # <<>>
  BY <1>1
<1>3. ASSUME NEW q, a.event = Normalize(q), Understood(a.record.body, q)
      PROVE  /\ Accepts(q, a.event) /\ q["format"] \in ParserNames
             /\ Faithful(q["format"], a.record.body, q)
  <2>1. Accepts(q, a.event)
    BY <1>1, <1>3, Normal
  <2>2. q["parsed"]
    BY <2>1 DEF Accepts
  <2> QED BY <1>3, <2>1, <2>2 DEF Understood
<1>4. CASE reading = "refused" /\ output = Rejected(Format)
  <2> DEFINE q == [format |-> Format] ++ NotParsed
  <2>1. output = <<[record |-> Whole, offset |-> 0, event |-> Normalize(q)]>>
    BY <1>4 DEF Rejected
  <2>2. Understood(a.record.body, q)
    BY Marked
  <2> HIDE DEF q
  <2>3. DOMAIN output = {1} /\ output[1] = [record |-> Whole, offset |-> 0, event |-> Normalize(q)]
    BY <2>1
  <2>4. a = [record |-> Whole, offset |-> 0, event |-> Normalize(q)]
    BY <1>1, <2>3
  <2>5. a.event = Normalize(q)
    BY <2>4
  <2> QED BY <1>3, <2>2, <2>5
<1>5. CASE /\ Begun /\ ended = "returned" /\ document \in Documents
           /\ output = [j \in DOMAIN events |->
                          Event(lines[events[j].lines[1]], Format, events[j].offset)]
  <2>1. i \in DOMAIN events /\ a = Event(lines[events[i].lines[1]], Format, events[i].offset)
    BY <1>1, <1>5
  <2>2. LinesOk /\ Grouping /\ ~ Malformed(Format) /\ lines = LinesOf(Format)
    BY <1>5 DEF Begun
  <2>3. Grouped(events, Len(lines) + 1) /\ events \in Seq(Parts)
    BY <1>5, <2>2, ClosedIs DEF Grouping
  <2> DEFINE B == Loop!Beginnings
             at == events[i].lines[1]
             r == lines[at]
             q == Parse(r, Format)
  <2>4. B \in SUBSET (1..Len(lines)) /\ at \in B
    <3>1. /\ DOMAIN events = 1..Len(events) /\ Len(events) = Cardinality(B)
          /\ B \in SUBSET Nat /\ IsFiniteSet(B)
          /\ \A m \in 1..Len(events) : events[m].offset = InOrder(B)[m]
      BY <2>2, <2>3, GroupedAll
    <3>2. events[i].lines[1] = events[i].offset
      BY <2>1, <2>3, <3>1 DEF Grouped, Covers
    <3>3. InOrder(B)[i] \in B
      BY <2>1, <3>1, Ordered
    <3>4. B \in SUBSET (1..Len(lines))
      BY <2>2 DEF Loop!Beginnings, LinesOk
    <3> QED BY <2>1, <3>1, <3>2, <3>3, <3>4
  <2>5. LineOk(r.reads, r.body)
    <3>1. at \in DOMAIN lines
      BY <2>2, <2>4 DEF LinesOk
    <3> HIDE DEF at
    <3> QED BY <1>5, <2>2, <3>1, LinesHaveTimes
  <2>6. Format \in {"none", "json", "xml", "csv"}
    BY <2>2, Formats
  <2>7. Understood(r.body, q)
    BY <2>5, <2>6, ParseUnderstands
  <2>8. a.record = r /\ a.event = Normalize(q)
    BY <2>1 DEF Event
  <2> HIDE DEF q, r
  <2>9. Understood(a.record.body, q)
    BY <2>7, <2>8
  <2> QED BY <1>3, <2>8, <2>9
<1> QED BY <1>2, <1>4, <1>5, Formats DEF Inv
-------------------------------------------------------------------------------
(***************************************************************************)
(* The theorems about the verdicts.                                        *)
(***************************************************************************)

\* An accepted event has a time that is an instant, or none was given, and the addresses and
\* ports of its source and of its destination are valid, in every format, for every record.
THEOREM Valid == Spec => []InvalidFieldsAreQuarantined
<1> DEFINE Good(a) ==
      LET said == Said(a.event.format, a.record.body)
      IN /\ said.times \subseteq Instants \cup {"date"}
         /\ said.ips \subseteq {"ip", "", "null"}
         /\ \A port \in said.ports :
              Empty(port) \/ (port \in DOMAIN IntOf /\ IntOf[port] \in Ports)
         /\ a.event.time_source = "collector" <=>
              \/ said.times = {}
              \/ /\ a.event.format \in {"json", "xml", "csv"}
                 /\ \A i \in DOMAIN TimeFields : TimeFields[i] \notin DOMAIN a.record.body
<1>1. ASSUME Inv, NEW a \in Accepted PROVE Good(a)
  <2> DEFINE e == a.event
             body == a.record.body
             said == Said(e.format, body)
  <2>1. PICK q : Accepts(q, e) /\ Faithful(q["format"], body, q)
    BY <1>1, AcceptedIs
  <2> HIDE DEF e, body
  <2>2. q["format"] = e.format
    BY <2>1 DEF Accepts
  <2>3. /\ TimeFaithful(e.format, body, q["time"], q["missing_ok"])
        /\ PlacesFaithful(e.format, body, q["src_ip"], q["dst_ip"], q["src_port"], q["dst_port"])
    BY <2>1, <2>2, Zenon DEF Faithful
  <2>4. /\ q["src_ip"] \in {"ip", "", "null"} /\ q["dst_ip"] \in {"ip", "", "null"}
        /\ PortOk(q["src_port"]) /\ PortOk(q["dst_port"])
        /\ \/ q["time"] = "" /\ q["missing_ok"] /\ e.time_source = "collector"
           \/ q["time"] \in Instants /\ e.time_source = "source"
    BY <2>1 DEF Accepts
  <2>5. said.ips \subseteq {"ip", "", "null"}
    BY <2>3, <2>4 DEF PlacesFaithful
  <2>6. \A port \in said.ports : PortOk(port)
    <3>1. PortOk("")
      BY DEF PortOk, Empty
    <3>2. said.ports \subseteq {q["src_port"], q["dst_port"], ""}
      BY <2>3 DEF PlacesFaithful
    <3> HIDE DEF said
    <3> QED BY <2>4, <3>1, <3>2
  <2>7. /\ q["missing_ok"] = NoTime(e.format, body)
        /\ said.times \subseteq (IF q["missing_ok"] THEN {} ELSE {q["time"]})
                                 \cup {"zoned", "date"}
        /\ q["missing_ok"] => q["time"] = ""
    BY <2>3 DEF TimeFaithful
  <2>8. "" \notin Instants /\ "zoned" \in Instants
    BY InstantsAre
  <2>9. ASSUME q["missing_ok"]
        PROVE  said.times \subseteq Instants \cup {"date"}
               /\ e.time_source = "collector" /\ NoTime(e.format, body)
    <3>1. NoTime(e.format, body)
      BY <2>7, <2>9, Zenon
    <3>2. q["time"] = ""
      BY <2>7, <2>9, Zenon
    <3>3. e.time_source = "collector"
      BY <2>4, <2>8, <3>2, Zenon
    <3>4. (IF q["missing_ok"] THEN {} ELSE {q["time"]}) = {}
      BY <2>9, Zenon
    <3>5. said.times \subseteq Instants \cup {"date"}
      <4>1. said.times \subseteq {} \cup {"zoned", "date"}
        BY <2>7, <3>4, Zenon
      <4> QED BY <2>8, <4>1
    <3> QED BY <3>1, <3>3, <3>5
  <2>10. ASSUME ~ q["missing_ok"]
         PROVE  said.times \subseteq Instants \cup {"date"}
                /\ e.time_source # "collector" /\ ~ NoTime(e.format, body)
    <3>1. ~ NoTime(e.format, body)
      BY <2>7, <2>10, Zenon
    <3>2. q["time"] \in Instants /\ e.time_source = "source"
      BY <2>4, <2>10, Zenon
    <3>3. e.time_source # "collector"
      BY <3>2
    <3>4. (IF q["missing_ok"] THEN {} ELSE {q["time"]}) = {q["time"]}
      BY <2>10, Zenon
    <3>5. said.times \subseteq Instants \cup {"date"}
      <4>1. said.times \subseteq {q["time"]} \cup {"zoned", "date"}
        BY <2>7, <3>4, Zenon
      <4> QED BY <2>8, <3>2, <4>1
    <3> QED BY <3>1, <3>3, <3>5
  <2>11. /\ said.times \subseteq Instants \cup {"date"}
         /\ (e.time_source = "collector") <=> NoTime(e.format, body)
    BY <2>9, <2>10
  <2> QED BY <2>5, <2>6, <2>11 DEF NoTime, PortOk, e, body
<1>2. Inv => InvalidFieldsAreQuarantined
  BY <1>1 DEF InvalidFieldsAreQuarantined
<1> QED BY <1>2, Invariant, PTL

\* Times in digits that are on the calendar are read as what they mean, one by one.
LEMMA DigitsRead ==
  ASSUME NEW t \in Epochs \cap DOMAIN Meant
  PROVE  InstantOf(Digits[t]) = Meant[t]
<1>1. t \in DOMAIN Digits \ {"last", "beyond"} /\ OnCalendar(InstantOf(Digits[t]))
  BY DEF Epochs, Meant
<1>2. t \in {"seconds_1978", "milliseconds_1978", "microseconds_1978", "seconds", "milliseconds",
              "microseconds", "seconds_2286", "milliseconds_2286"}
  BY <1>1 DEF Digits
<1>3. CASE t = "seconds_1978"
  <2>1. Digits[t] = <<253, 402301>> /\ Meant[t] = <<253402, 301000>>
    BY <1>1, <1>3 DEF Digits, Meant
  <2> QED BY <2>1 DEF InstantOf, Above, Thousandfold
<1>4. CASE t = "seconds"
  <2>1. Digits[t] = <<1767, 225600>> /\ Meant[t] = <<1767225, 600000>>
    BY <1>1, <1>4 DEF Digits, Meant
  <2> QED BY <2>1 DEF InstantOf, Above, Thousandfold
<1>5. CASE t = "seconds_2286"
  <2>1. Digits[t] = <<10000, 0>> /\ Meant[t] = <<10000000, 0>>
    BY <1>1, <1>5 DEF Digits, Meant
  <2> QED BY <2>1 DEF InstantOf, Above, Thousandfold
<1>6. CASE t \in {"milliseconds_1978", "milliseconds", "milliseconds_2286"}
  <2>1. /\ t = "milliseconds_1978" => Digits[t] = <<253402, 301000>> /\ Meant[t] = <<253402, 301000>>
        /\ t = "milliseconds" => Digits[t] = <<1767225, 600000>> /\ Meant[t] = <<1767225, 600000>>
        /\ t = "milliseconds_2286" => Digits[t] = <<10000000, 0>> /\ Meant[t] = <<10000000, 0>>
    BY <1>1, <1>6 DEF Digits, Meant
  <2>2. Digits[t] = Meant[t] /\ Digits[t][1] > 10000
    BY <1>6, <2>1
  <2> QED BY <2>2 DEF InstantOf, Above
<1>7. CASE t \in {"microseconds_1978", "microseconds"}
  <2>1. /\ t = "microseconds_1978" => Digits[t] = <<253402301, 0>>
        /\ t = "microseconds" => Digits[t] = <<1767225600, 0>>
    BY <1>1, <1>7 DEF Digits
  <2>2. Digits[t] \in {<<253402301, 0>>, <<1767225600, 0>>}
    BY <1>7, <2>1
  <2>3. InstantOf(Digits[t]) \in {<<253402301, 0>>, <<1767225600, 0>>}
    BY <2>2 DEF InstantOf, Above
  <2>4. ~ OnCalendar(InstantOf(Digits[t]))
    BY <2>3 DEF OnCalendar, Above
  <2> QED BY <1>1, <2>4
<1> QED BY <1>2, <1>3, <1>4, <1>5, <1>6, <1>7

\* A time in digits that is accepted is the instant that it means, whatever its unit, in
\* every format and for every record.
THEOREM NumericTimes == Spec => []NumericTimesAreNotMistaken
<1>1. ASSUME Inv, NEW a \in Accepted,
             NEW t \in Said(a.event.format, a.record.body).times \cap DOMAIN Meant
      PROVE  a.event.timestamp = Meant[t]
  <2> DEFINE e == a.event
             body == a.record.body
             said == Said(e.format, body)
  <2>1. PICK q : Accepts(q, e) /\ Faithful(q["format"], body, q)
    BY <1>1, AcceptedIs
  <2>0. t \in said.times /\ t \in DOMAIN Meant
    OBVIOUS
  <2> HIDE DEF e, body
  <2>2. q["format"] = e.format
    BY <2>1 DEF Accepts
  <2>3. TimeFaithful(e.format, body, q["time"], q["missing_ok"])
    BY <2>1, <2>2, Zenon DEF Faithful
  <2>4. /\ \/ q["time"] = "" /\ q["missing_ok"] /\ e.time_source = "collector"
           \/ q["time"] \in Instants /\ e.time_source = "source"
        /\ e.timestamp = Time(q["time"], q["missing_ok"]).instant
    BY <2>1 DEF Accepts
  <2>5. /\ said.times \subseteq (IF q["missing_ok"] THEN {} ELSE {q["time"]})
                                 \cup {"zoned", "date"}
        /\ q["missing_ok"] => q["time"] = ""
    BY <2>3 DEF TimeFaithful
  <2> HIDE DEF said
  <2>6. t \in DOMAIN Digits /\ t # "zoned" /\ t # "date"
    <3>1. DOMAIN Meant = DOMAIN Digits \ {"last", "beyond"}
      BY DEF Meant
    <3>2. t \in DOMAIN Digits
      BY <2>0, <3>1
    <3> QED BY <3>2, InstantsAre
  <2>7. t = q["time"] /\ ~ q["missing_ok"]
    BY <2>0, <2>5, <2>6
  <2>8. t \in Instants
    BY <2>4, <2>7
  <2>9. t \in Epochs
    BY <2>6, <2>8 DEF Instants
  <2>10. Time(t, q["missing_ok"]).instant = InstantOf(Digits[t])
    <3>1. ~ (t = "" /\ q["missing_ok"])
      BY <2>7
    <3> HIDE DEF e, body
    <3> QED BY <2>8, <2>9, <3>1 DEF Time
  <2>11. InstantOf(Digits[t]) = Meant[t]
    BY <2>0, <2>9, DigitsRead
  <2>12. e.timestamp = Meant[t]
    BY <2>4, <2>7, <2>10, <2>11
  <2> QED BY <2>12 DEF e
<1>2. Inv => NumericTimesAreNotMistaken
  BY <1>1 DEF NumericTimesAreNotMistaken
<1> QED BY <1>2, Invariant, PTL

LEMMA LogonDiffers ==
  ASSUME NEW c, LogonClass(c)
  PROVE  /\ ~ FindingClass(c) /\ ~ NetworkClass(c) /\ ~ HttpClass(c) /\ ~ ApiClass(c)
         /\ ~ ErrorClass(c)
BY DEF FindingClass, LogonClass, NetworkClass, HttpClass, ApiClass, ErrorClass

\* A logon succeeds or fails only when its record says so in its status, its outcome or its
\* action (the first it has of event_type, action and operation) and none of the three says
\* the contrary.
THEOREM Logons == Spec => []LogonOutcomeIsExplicit
<1> DEFINE Explicit(a) ==
      LET success == Says(a.record.body, "success", "login_success")
          failure == Says(a.record.body, "failed", "login_failure")
      IN /\ ~ (success /\ failure)
         /\ a.event.status_id = IF success THEN 1 ELSE IF failure THEN 2 ELSE 0
<1>1. ASSUME Inv, NEW a \in Accepted, LogonClass(a.event.class_uid) PROVE Explicit(a)
  <2> DEFINE e == a.event
             body == a.record.body
             success == Says(body, "success", "login_success")
             failure == Says(body, "failed", "login_failure")
  <2>1. PICK q : Accepts(q, e) /\ Faithful(q["format"], body, q)
    BY <1>1, AcceptedIs
  <2>2. LogonClass(e.class_uid)
    BY <1>1
  <2> HIDE DEF e, body
  <2>3. LogonClass(q["class"])
    BY <2>1, <2>2 DEF Accepts
  <2>4. LogonFaithful(body, q["status"], q["user"], q["metadata"])
    BY <2>1, <2>3, LogonDiffers DEF Faithful, ClassFaithful
  <2>5. /\ ~ (success /\ failure)
        /\ q["status"] = IF success THEN "Success" ELSE IF failure THEN "Failure" ELSE "Unknown"
    BY <2>4 DEF LogonFaithful
  <2> HIDE DEF success, failure
  <2>6. e.status = q["status"]
    <3>1. q["status"] # "default"
      BY <2>5
    <3>2. q["status"] # "default" => e.status = q["status"]
      BY <2>1, Zenon DEF Accepts
    <3> QED BY <3>1, <3>2
  <2> DEFINE ids == StatusIds(q["class"])
  <2>7. ids = [Unknown |-> 0, Success |-> 1, Failure |-> 2]
    BY <2>3 DEF StatusIds, LogonClass
  <2>8. e.status_id = IF e.status \in DOMAIN ids THEN ids[e.status] ELSE 99
    BY <2>1, Zenon DEF Accepts
  <2> HIDE DEF ids
  <2>9. e.status_id = IF success THEN 1 ELSE IF failure THEN 2 ELSE 0
    <3>1. CASE success
      <4>1. e.status = "Success"
        BY <2>5, <2>6, <3>1
      <4> QED BY <2>7, <2>8, <3>1, <4>1
    <3>2. CASE ~ success /\ failure
      <4>1. e.status = "Failure"
        BY <2>5, <2>6, <3>2
      <4> QED BY <2>7, <2>8, <3>2, <4>1
    <3>3. CASE ~ success /\ ~ failure
      <4>1. e.status = "Unknown"
        BY <2>5, <2>6, <3>3
      <4> QED BY <2>7, <2>8, <3>3, <4>1
    <3> QED BY <3>1, <3>2, <3>3
  <2> QED BY <2>5, <2>9 DEF success, failure, e, body
<1>2. Inv => LogonOutcomeIsExplicit
  <2> HIDE DEF Explicit
  <2>1. ASSUME Inv, NEW a \in Accepted, a.event.class_uid = 3002 PROVE Explicit(a)
    <3>1. LogonClass(a.event.class_uid)
      BY <2>1 DEF LogonClass
    <3> QED BY <1>1, <2>1, <3>1
  <2> QED BY <2>1 DEF LogonOutcomeIsExplicit, Explicit
<1> QED BY <1>2, Invariant, PTL
-------------------------------------------------------------------------------
(***************************************************************************)
(* The contract of the classes.                                            *)
(***************************************************************************)

Endpoints(e) ==
  (IF e.src_ip = "" /\ e.src_port = NoPort THEN {} ELSE {"src_endpoint"})
    \cup (IF e.dst_ip = "" /\ e.dst_port = NoPort THEN {} ELSE {"dst_endpoint"})
Person(e) == IF e.user # "" THEN {"actor"} ELSE {}

LEMMA AddedIs ==
  ASSUME NEW e
  PROVE  /\ FindingClass(e.class_uid) =>
              Added(e) = Endpoints(e) \cup Person(e) \cup {"finding_info", "is_alert"}
         /\ ApiClass(e.class_uid) =>
              Added(e) = Endpoints(e) \cup Person(e) \cup {"actor", "api"}
         /\ (\/ LogonClass(e.class_uid) \/ NetworkClass(e.class_uid)
             \/ HttpClass(e.class_uid) \/ ErrorClass(e.class_uid)) =>
              Added(e) = Endpoints(e) \cup Person(e)
<1> DEFINE own == CASE e.class_uid = 2004 -> {"finding_info", "is_alert"}
                    [] e.class_uid = 6003 -> {"actor", "api"}
                    [] OTHER -> {}
<1>1. Added(e) = Endpoints(e) \cup Person(e) \cup own
  BY DEF Added, Endpoints, Person
<1>2. /\ FindingClass(e.class_uid) => own = {"finding_info", "is_alert"}
      /\ ApiClass(e.class_uid) => own = {"actor", "api"}
      /\ (\/ LogonClass(e.class_uid) \/ NetworkClass(e.class_uid)
          \/ HttpClass(e.class_uid) \/ ErrorClass(e.class_uid)) => own = {}
  BY DEF FindingClass, LogonClass, NetworkClass, HttpClass, ApiClass, ErrorClass
<1> HIDE DEF own
<1> QED BY <1>1, <1>2

LEMMA EndpointsAre ==
  ASSUME NEW e
  PROVE  /\ Endpoints(e) \subseteq {"src_endpoint", "dst_endpoint"}
         /\ Person(e) \subseteq {"actor"}
         /\ e.user = "" => Person(e) = {}
BY DEF Endpoints, Person

\* The attributes of the interchange record, and its identifiers, which are the event's.
Exports(e, attributes) ==
  /\ DOMAIN ToOcsfDict(e) = attributes
  /\ \A x \in Identifiers \ {"unmapped"} : ToOcsfDict(e)[x] = Interchange(e)[x]

LEMMA BaseIs ==
  /\ BaseAttributes = CommonAttributes \cup Identifiers
  /\ \A x \in {"src_endpoint", "dst_endpoint", "actor", "user", "service", "http_response",
               "finding_info", "is_alert", "api"} : x \notin BaseAttributes
BY DEF BaseAttributes, CommonAttributes, Identifiers

\* A finding keeps neither its endpoints nor its actor.
LEMMA FindingExports ==
  ASSUME NEW e, FindingClass(e.class_uid)
  PROVE  Exports(e, BaseAttributes \cup {"finding_info", "is_alert"})
<1> DEFINE before == Interchange(e)
           names == {"src_endpoint", "dst_endpoint", "actor"}
           after == RetainContext(before, names)
<1>1. ToOcsfDict(e) = after
  BY DEF ToOcsfDict, ProjectClass, FindingClass
<1>2. DOMAIN before = BaseAttributes \cup Endpoints(e) \cup Person(e) \cup {"finding_info", "is_alert"}
  <2>1. DOMAIN before = BaseAttributes \cup Added(e)
    BY InterchangeIs
  <2> HIDE DEF before
  <2> QED BY <2>1, AddedIs
<1>3. "unmapped" \in DOMAIN before /\ "unmapped" \notin names
  BY <1>2, BaseIs DEF Identifiers
<1> HIDE DEF before
<1>4. /\ DOMAIN after = DOMAIN before \ names
      /\ \A x \in DOMAIN after : x # "unmapped" => after[x] = before[x]
  <2> HIDE DEF names
  <2> QED BY <1>3, Retained
<1> HIDE DEF after
<1>5. DOMAIN after = BaseAttributes \cup {"finding_info", "is_alert"}
  BY <1>2, <1>4, BaseIs, EndpointsAre
<1>6. \A x \in Identifiers \ {"unmapped"} : after[x] = before[x]
  BY <1>4, <1>5, BaseIs
<1> QED BY <1>1, <1>5, <1>6 DEF Exports, before

\* The actor of a logon is its user, and its application a service.
LEMMA LogonExports ==
  ASSUME NEW e, LogonClass(e.class_uid)
  PROVE  Exports(e, BaseAttributes \cup Endpoints(e)
                      \cup (IF e.user = "" THEN {} ELSE {"user"})
                      \cup (IF "service" \in DOMAIN e.metadata THEN {"service"} ELSE {}))
<1> DEFINE before == Interchange(e)
           after == ToOcsfDict(e)
           more == (IF e.user = "" THEN {} ELSE {"user"})
                     \cup (IF "service" \in DOMAIN e.metadata THEN {"service"} ELSE {})
<1>1. /\ DOMAIN after = (DOMAIN before \ {"actor"})
             \cup (IF e.user = "" THEN {} ELSE {"user"})
             \cup (IF "service" \in DOMAIN e.metadata THEN {"service"} ELSE {})
      /\ \A x \in DOMAIN before \ {"actor"} : after[x] = before[x]
  BY LogonIs
<1>2. DOMAIN after = (DOMAIN before \ {"actor"}) \cup more
  BY <1>1
<1>3. DOMAIN before = BaseAttributes \cup Endpoints(e) \cup Person(e)
  <2>1. DOMAIN before = BaseAttributes \cup Added(e)
    BY InterchangeIs
  <2> HIDE DEF before
  <2> QED BY <2>1, AddedIs
<1> HIDE DEF before, after, more
<1>4. DOMAIN before \ {"actor"} = BaseAttributes \cup Endpoints(e)
  BY <1>3, BaseIs, EndpointsAre
<1>5. \A x \in Identifiers : after[x] = before[x]
  BY <1>1, <1>4, BaseIs
<1>6. DOMAIN after = BaseAttributes \cup Endpoints(e) \cup more
  BY <1>2, <1>4
<1>7. Exports(e, BaseAttributes \cup Endpoints(e) \cup more)
  BY <1>5, <1>6 DEF Exports, before, after
<1>8. BaseAttributes \cup Endpoints(e) \cup more
        = BaseAttributes \cup Endpoints(e)
            \cup (IF e.user = "" THEN {} ELSE {"user"})
            \cup (IF "service" \in DOMAIN e.metadata THEN {"service"} ELSE {})
  BY DEF more
<1> QED BY <1>7, <1>8

\* An HTTP exchange keeps its endpoints, and its status is a response.
LEMMA HttpExports ==
  ASSUME NEW e, HttpClass(e.class_uid), "http_status" \in DOMAIN e.metadata
  PROVE  Exports(e, BaseAttributes \cup Endpoints(e) \cup {"http_response"})
<1> DEFINE before == Interchange(e)
           names == {"actor"}
           kept == RetainContext(before, names)
           after == ToOcsfDict(e)
<1>1. /\ DOMAIN after = DOMAIN kept
            \cup (IF "http_status" \in DOMAIN e.metadata THEN {"http_response"} ELSE {})
      /\ \A x \in DOMAIN kept \ {"http_response"} : after[x] = kept[x]
  BY HttpIs
<1>2. DOMAIN before = BaseAttributes \cup Endpoints(e) \cup Person(e)
  <2>1. DOMAIN before = BaseAttributes \cup Added(e)
    BY InterchangeIs
  <2> HIDE DEF before
  <2> QED BY <2>1, AddedIs
<1>3. "unmapped" \in DOMAIN before /\ "unmapped" \notin names
  BY <1>2, BaseIs DEF Identifiers
<1> HIDE DEF before, after
<1>4. /\ DOMAIN kept = DOMAIN before \ names
      /\ \A x \in DOMAIN kept : x # "unmapped" => kept[x] = before[x]
  <2> HIDE DEF names
  <2> QED BY <1>3, Retained
<1> HIDE DEF kept
<1>5. DOMAIN kept = BaseAttributes \cup Endpoints(e)
  BY <1>2, <1>4, BaseIs, EndpointsAre
<1>6. DOMAIN after = BaseAttributes \cup Endpoints(e) \cup {"http_response"}
  BY <1>1, <1>5
<1>7. \A x \in Identifiers \ {"unmapped"} : after[x] = before[x]
  BY <1>1, <1>4, <1>5, BaseIs
<1> QED BY <1>6, <1>7 DEF Exports, before, after

\* The other classes keep everything.
LEMMA OtherExports ==
  ASSUME NEW e,
         NetworkClass(e.class_uid) \/ ApiClass(e.class_uid) \/ ErrorClass(e.class_uid)
  PROVE  Exports(e, BaseAttributes \cup Added(e))
<1>1. ToOcsfDict(e) = Interchange(e)
  <2>1. /\ ~ FindingClass(e.class_uid) /\ ~ LogonClass(e.class_uid)
        /\ ~ HttpClass(e.class_uid)
    BY DEF FindingClass, LogonClass, NetworkClass, HttpClass, ApiClass, ErrorClass
  <2> QED BY <2>1 DEF ToOcsfDict, ProjectClass, FindingClass, LogonClass, HttpClass
<1> QED BY <1>1, InterchangeIs DEF Exports
-------------------------------------------------------------------------------
LEMMA ClassIsOne ==
  ASSUME NEW c \in DOMAIN ClassCategories
  PROVE  \/ FindingClass(c) \/ LogonClass(c) \/ NetworkClass(c)
         \/ HttpClass(c) \/ ApiClass(c) \/ ErrorClass(c)
BY DEF ClassCategories, FindingClass, LogonClass, NetworkClass, HttpClass, ApiClass, ErrorClass

LEMMA StatusesAre ==
  ASSUME NEW c \in DOMAIN ClassCategories, NEW status
  PROVE  (IF status \in DOMAIN StatusIds(c) THEN StatusIds(c)[status] ELSE 99)
            \in Contract(c).statuses \cup {99}
<1>1. CASE FindingClass(c)
  <2>1. StatusIds(c) = [Unknown |-> 0, New |-> 1]
    BY <1>1 DEF StatusIds, FindingClass
  <2>2. \A s \in DOMAIN StatusIds(c) : StatusIds(c)[s] \in 0..6
    BY <2>1
  <2>3. Contract(c).statuses = 0..6
    BY <1>1, ContractIs
  <2> QED BY <2>2, <2>3
<1>2. CASE ~ FindingClass(c)
  <2>1. StatusIds(c) = [Unknown |-> 0, Success |-> 1, Failure |-> 2]
    BY <1>2 DEF StatusIds, FindingClass
  <2>2. \A s \in DOMAIN StatusIds(c) : StatusIds(c)[s] \in 0..2
    BY <2>1
  <2>3. Contract(c).statuses = 0..2
    <3>1. CASE LogonClass(c)
      BY <3>1, ContractIs
    <3>2. CASE NetworkClass(c)
      BY <3>2, ContractIs
    <3>3. CASE HttpClass(c)
      BY <3>3, ContractIs
    <3>4. CASE ApiClass(c)
      BY <3>4, ContractIs
    <3>5. CASE ErrorClass(c)
      BY <3>5, ContractIs
    <3> QED BY <1>2, <3>1, <3>2, <3>3, <3>4, <3>5, ClassIsOne
  <2> QED BY <2>2, <2>3
<1> QED BY <1>1, <1>2

\* Identifiers in their ranges.
Sound(class, activity, status, severity, type) ==
  /\ ActivityOk(class, activity) /\ status \in Contract(class).statuses \cup {99}
  /\ severity \in 0..6 /\ type = class * 100 + activity

LEMMA NothingWrong ==
  ASSUME NEW record,
         Sound(record["class_uid"], record["activity_id"], record["status_id"],
               record["severity_id"], record["type_uid"])
  PROVE  WrongValues(record) = {}
BY DEF Sound, ActivityOk, WrongValues

LEMMA SoundEvents ==
  ASSUME NEW q, NEW e, Accepts(q, e), ActivityOk(q["class"], q["activity"])
  PROVE  Sound(e.class_uid, e.activity_id, e.status_id, e.severity_id, e.type_uid)
<1> DEFINE c == q["class"]
           n == q["activity"]
<1>1. /\ c \in DOMAIN ClassCategories /\ e.class_uid = c /\ e.activity_id = n
      /\ n > 0 /\ e.severity_id \in 0..6
      /\ e.type_uid = IF n = 0 THEN 0 ELSE c * 100 + n
      /\ e.status_id = IF e.status \in DOMAIN StatusIds(c) THEN StatusIds(c)[e.status] ELSE 99
  BY Zenon DEF Accepts
<1>2. e.status_id \in Contract(c).statuses \cup {99}
  <2>1. (IF e.status \in DOMAIN StatusIds(c) THEN StatusIds(c)[e.status] ELSE 99)
           \in Contract(c).statuses \cup {99}
    <3>1. PICK status : status = e.status
      OBVIOUS
    <3>2. (IF status \in DOMAIN StatusIds(c) THEN StatusIds(c)[status] ELSE 99)
             \in Contract(c).statuses \cup {99}
      BY <1>1, StatusesAre, Zenon
    <3> QED BY <3>1, <3>2, Zenon
  <2> QED BY <1>1, <2>1, Zenon
<1>3. n # 0
  BY <1>1
<1>4. e.type_uid = c * 100 + n
  BY <1>1, <1>3, Zenon
<1>5. Sound(c, n, e.status_id, e.severity_id, e.type_uid)
  BY <1>1, <1>2, <1>4, Zenon DEF Sound
<1> QED BY <1>1, <1>5, Zenon

\* No attribute that the contract does not know, none missing but the gaps.
Kept(k, attributes, gaps) ==
  /\ attributes \subseteq BaseAttributes \cup k.required \cup k.one_of \cup k.more
  /\ k.required \ attributes \subseteq gaps
  /\ k.one_of \cap attributes = {} => k.one_of \subseteq gaps

LEMMA Contracted ==
  ASSUME NEW record, NEW gaps, Kept(Contract(record["class_uid"]), DOMAIN record, gaps)
  PROVE  Unknown(record) = {} /\ Missing(record) \subseteq gaps
<1> DEFINE k == Contract(record["class_uid"])
           extra == IF k.one_of # {} /\ k.one_of \cap DOMAIN record = {} THEN k.one_of ELSE {}
<1>1. Missing(record) = (k.required \ DOMAIN record) \cup extra
  BY DEF Missing
<1>2. Unknown(record) = DOMAIN record \ (BaseAttributes \cup k.required \cup k.one_of \cup k.more)
  BY DEF Unknown
<1> HIDE DEF k
<1>3. Kept(k, DOMAIN record, gaps)
  BY DEF k
<1>4. extra \subseteq gaps
  BY <1>3 DEF Kept
<1> HIDE DEF extra
<1> QED BY <1>1, <1>2, <1>3, <1>4 DEF Kept
-------------------------------------------------------------------------------
\* The attributes that a record may leave out.
Excuses(gaps, e, body) ==
  /\ {"src_endpoint", "dst_endpoint"} \ Endpoints(e) \subseteq gaps
  /\ Get(body, UserFields, "") = "" => "user" \in gaps
  /\ Or(body, <<"service", "app">>) = "" => "service" \in gaps

LEMMA IntOfIs == DOMAIN IntOf = Numerals
BY DEF IntOf

\* An error has no endpoints.
LEMMA BareIs ==
  ASSUME NEW q, NEW e, Accepts(q, e),
         q["src_ip"] = "" /\ q["dst_ip"] = "" /\ q["src_port"] = "" /\ q["dst_port"] = ""
  PROVE  Endpoints(e) = {}
<1>1. Ip("").ip = ""
  BY DEF Ip
<1>2. Port("").port = NoPort
  <2>1. "" \notin Numerals
    BY DEF Numerals
  <2>2. "" \notin DOMAIN IntOf
    BY <2>1, IntOfIs
  <2> QED BY <2>2 DEF Port
<1>3. /\ e.src_ip = Ip(q["src_ip"]).ip /\ e.dst_ip = Ip(q["dst_ip"]).ip
      /\ e.src_port = Port(q["src_port"]).port /\ e.dst_port = Port(q["dst_port"]).port
  BY Zenon DEF Accepts
<1>4. e.src_ip = "" /\ e.dst_ip = "" /\ e.src_port = NoPort /\ e.dst_port = NoPort
  BY <1>1, <1>2, <1>3, Zenon
<1> QED BY <1>4 DEF Endpoints

\* Only those of a network and of an error need not be looked for.
LEMMA NobodyIs ==
  ASSUME NEW c, NEW body, NEW status, NEW user, NEW metadata,
         ClassFaithful(body, c, status, user, metadata), NetworkClass(c) \/ ErrorClass(c)
  PROVE  user = ""
<1>1. ~ FindingClass(c) /\ ~ LogonClass(c) /\ ~ HttpClass(c) /\ ~ ApiClass(c)
  BY DEF FindingClass, LogonClass, NetworkClass, HttpClass, ApiClass, ErrorClass
<1> QED BY <1>1, Zenon DEF ClassFaithful

LEMMA KeptByClass ==
  ASSUME NEW q, NEW e, NEW body, NEW gaps, Accepts(q, e),
         ClassFaithful(body, q["class"], q["status"], q["user"], q["metadata"]),
         Bare(q["class"], q["src_ip"], q["dst_ip"], q["src_port"], q["dst_port"]),
         Excuses(gaps, e, body)
  PROVE  \E attributes : Exports(e, attributes) /\ Kept(Contract(e.class_uid), attributes, gaps)
<1> DEFINE c == e.class_uid
           user == e.user
           metadata == e.metadata
<1>1. q["class"] = c /\ q["user"] = user /\ q["metadata"] = metadata
  BY DEF Accepts
<1>2. Endpoints(e) \subseteq {"src_endpoint", "dst_endpoint"}
  BY EndpointsAre
<1>3. {"src_endpoint", "dst_endpoint"} \ Endpoints(e) \subseteq gaps
  BY DEF Excuses
<1>4. CASE FindingClass(c)
  <2> DEFINE attributes == BaseAttributes \cup {"finding_info", "is_alert"}
  <2>1. Exports(e, attributes)
    BY <1>4, FindingExports
  <2>2. Contract(c) = [required |-> {"finding_info"}, one_of |-> {}, more |-> {"is_alert"},
                       activities |-> 0..3, statuses |-> 0..6]
    BY <1>4, ContractIs
  <2> HIDE DEF c
  <2>3. Kept(Contract(c), attributes, gaps)
    BY <2>2 DEF Kept
  <2> QED BY <2>1, <2>3 DEF c
<1>5. CASE LogonClass(c)
  <2> DEFINE named == IF user = "" THEN {} ELSE {"user"}
             app == IF "service" \in DOMAIN metadata THEN {"service"} ELSE {}
             attributes == BaseAttributes \cup Endpoints(e) \cup named \cup app
  <2>1. Exports(e, attributes)
    BY <1>5, LogonExports
  <2>2. Contract(c) = [required |-> {"user"}, one_of |-> {"service", "dst_endpoint"},
                       more |-> {"src_endpoint", "actor"},
                       activities |-> 0..7, statuses |-> 0..2]
    BY <1>5, ContractIs
  <2>3. LogonFaithful(body, q["status"], user, metadata)
    BY <1>1, <1>5, LogonDiffers DEF ClassFaithful
  <2> HIDE DEF c, user, metadata
  <2>4. user = "" => "user" \in gaps
    BY <2>3 DEF LogonFaithful, Excuses
  <2>5. "service" \notin DOMAIN metadata => "service" \in gaps
    BY <2>3 DEF LogonFaithful, Excuses
  <2>6. named \subseteq {"user"} /\ {"user"} \ named \subseteq gaps
    BY <2>4
  <2>7. app \subseteq {"service"} /\ {"service"} \ app \subseteq gaps
    BY <2>5
  <2> HIDE DEF named, app
  <2>8. "user" \in attributes \/ "user" \in gaps
    BY <2>6
  <2>9. "service" \in attributes \/ "service" \in gaps
    BY <2>7
  <2>10. "dst_endpoint" \in attributes \/ "dst_endpoint" \in gaps
    BY <1>3
  <2>11. attributes \subseteq BaseAttributes \cup {"src_endpoint", "dst_endpoint", "user", "service"}
    BY <1>2, <2>6, <2>7
  <2> HIDE DEF attributes
  <2>12. Kept(Contract(c), attributes, gaps)
    BY <2>2, <2>8, <2>9, <2>10, <2>11 DEF Kept
  <2> QED BY <2>1, <2>12 DEF c
<1>6. CASE NetworkClass(c)
  <2> DEFINE attributes == BaseAttributes \cup Endpoints(e)
  <2>1. Exports(e, BaseAttributes \cup Added(e))
    BY <1>6, OtherExports
  <2>2. Contract(c) = [required |-> {}, one_of |-> {"src_endpoint", "dst_endpoint"},
                       more |-> {}, activities |-> 0..7, statuses |-> 0..2]
    BY <1>6, ContractIs
  <2>3. user = ""
    <3>1. q["user"] = ""
      BY <1>1, <1>6, NobodyIs
    <3> QED BY <1>1, <3>1
  <2>4. Added(e) = Endpoints(e)
    BY <1>6, <2>3, AddedIs, EndpointsAre
  <2> HIDE DEF c, user
  <2>5. Kept(Contract(c), attributes, gaps)
    BY <1>2, <1>3, <2>2 DEF Kept
  <2> QED BY <2>1, <2>4, <2>5 DEF c
<1>7. CASE HttpClass(c)
  <2> DEFINE attributes == BaseAttributes \cup Endpoints(e) \cup {"http_response"}
  <2>1. "http_status" \in DOMAIN metadata
    BY <1>1, <1>7 DEF ClassFaithful, FindingClass, LogonClass, NetworkClass, HttpClass,
                      ApiClass, ErrorClass
  <2>2. Exports(e, attributes)
    BY <1>7, <2>1, HttpExports
  <2>3. Contract(c) = [required |-> {}, one_of |-> {"http_request", "http_response"},
                       more |-> {"src_endpoint", "dst_endpoint"},
                       activities |-> 0..9, statuses |-> 0..2]
    BY <1>7, ContractIs
  <2> HIDE DEF c, metadata
  <2>4. Kept(Contract(c), attributes, gaps)
    BY <1>2, <2>3 DEF Kept
  <2> QED BY <2>2, <2>4 DEF c
<1>8. CASE ApiClass(c)
  <2> DEFINE attributes == BaseAttributes \cup Added(e)
  <2>1. Exports(e, attributes)
    BY <1>8, OtherExports
  <2>2. Contract(c) = [required |-> {"api", "src_endpoint", "actor"}, one_of |-> {},
                       more |-> {"dst_endpoint"}, activities |-> 0..4, statuses |-> 0..2]
    BY <1>8, ContractIs
  <2>3. Added(e) = Endpoints(e) \cup Person(e) \cup {"actor", "api"}
    BY <1>8, AddedIs
  <2>4. Added(e) = Endpoints(e) \cup {"actor", "api"}
    BY <2>3, EndpointsAre
  <2> HIDE DEF c
  <2>5. Kept(Contract(c), attributes, gaps)
    BY <1>2, <1>3, <2>2, <2>4 DEF Kept
  <2> QED BY <2>1, <2>5 DEF c
<1>9. CASE ErrorClass(c)
  <2> DEFINE attributes == BaseAttributes \cup Added(e)
  <2>1. Exports(e, attributes)
    BY <1>9, OtherExports
  <2>2. Contract(c) = [required |-> {}, one_of |-> {}, more |-> {}, activities |-> 0..2,
                       statuses |-> 0..2]
    BY <1>9, ContractIs
  <2>3. user = ""
    <3>1. q["user"] = ""
      BY <1>1, <1>9, NobodyIs
    <3> QED BY <1>1, <3>1
  <2>4. Endpoints(e) = {}
    BY <1>1, <1>9, BareIs DEF Bare
  <2>5. Added(e) = {}
    BY <1>9, <2>3, <2>4, AddedIs, EndpointsAre
  <2> HIDE DEF c, user
  <2>6. Kept(Contract(c), attributes, gaps)
    BY <2>2, <2>5 DEF Kept
  <2> QED BY <2>1, <2>6 DEF c
<1>10. c \in DOMAIN ClassCategories
  BY <1>1 DEF Accepts
<1> QED BY <1>4, <1>5, <1>6, <1>7, <1>8, <1>9, <1>10, ClassIsOne

\* The interchange record of an accepted event keeps the contract of its class: nothing in
\* it is unknown or out of range, and nothing is missing but what the record is silent on.
THEOREM Contracts == Spec => []OnlyEvidenceIsMissing
<1>1. ASSUME Inv, NEW a \in Accepted
      PROVE  /\ Unknown(ToOcsfDict(a.event)) = {} /\ WrongValues(ToOcsfDict(a.event)) = {}
             /\ Missing(ToOcsfDict(a.event)) \subseteq NoEvidence(a)
  <2> DEFINE e == a.event
             body == a.record.body
             record == ToOcsfDict(e)
             gaps == NoEvidence(a)
  <2>1. PICK q : Accepts(q, e) /\ Faithful(q["format"], body, q)
    BY <1>1, AcceptedIs
  <2>2. Excuses(gaps, e, body)
    BY DEF Excuses, NoEvidence, Endpoints
  <2> HIDE DEF e, body, gaps
  <2>3. /\ ClassFaithful(body, q["class"], q["status"], q["user"], q["metadata"])
        /\ ActivityOk(q["class"], q["activity"])
        /\ Bare(q["class"], q["src_ip"], q["dst_ip"], q["src_port"], q["dst_port"])
    BY <2>1, Zenon DEF Faithful
  <2>4. PICK attributes : Exports(e, attributes) /\ Kept(Contract(e.class_uid), attributes, gaps)
    BY <2>1, <2>2, <2>3, KeptByClass
  <2>5. /\ Interchange(e)["class_uid"] = e.class_uid
        /\ Interchange(e)["activity_id"] = e.activity_id
        /\ Interchange(e)["type_uid"] = e.type_uid
        /\ Interchange(e)["severity_id"] = e.severity_id
        /\ Interchange(e)["status_id"] = e.status_id
    BY InterchangeIs
  <2>6. \A x \in Identifiers \ {"unmapped"} : record[x] = Interchange(e)[x]
    BY <2>4 DEF Exports
  <2>7. DOMAIN record = attributes
    BY <2>4 DEF Exports
  <2>8. Sound(e.class_uid, e.activity_id, e.status_id, e.severity_id, e.type_uid)
    BY <2>1, <2>3, SoundEvents
  <2> HIDE DEF record
  <2>9. /\ record["class_uid"] = e.class_uid /\ record["activity_id"] = e.activity_id
        /\ record["type_uid"] = e.type_uid /\ record["severity_id"] = e.severity_id
        /\ record["status_id"] = e.status_id
    BY <2>5, <2>6 DEF Identifiers
  <2>10. WrongValues(record) = {}
    BY <2>8, <2>9, NothingWrong
  <2>11. Unknown(record) = {} /\ Missing(record) \subseteq gaps
    BY <2>4, <2>7, <2>9, Contracted
  <2> QED BY <2>10, <2>11 DEF record, e, gaps
<1>2. Inv => OnlyEvidenceIsMissing
  BY <1>1, Zenon DEF OnlyEvidenceIsMissing
<1> QED BY <1>2, Invariant, PTL
=============================================================================
