---------------------------- MODULE SeriesProofs ----------------------------
(***************************************************************************)
(* What Overlaps and its results promise for any two ranges and any step,  *)
(* what AppendSampleToRanges and MergeRanges make of any samples, that the *)
(* slices of any window cover it, what the cache can hide of one, and that *)
(* merged ranges and gaps are those the samples say.  A recursive function *)
(* is taken apart in two steps: that it exists, and what each of its       *)
(* values is, both by SetInduction.  The last part says of promql/series,  *)
(* which asks for those ranges, that its findings are true, and that it    *)
(* misses none of the selectors that are dead.                             *)
(***************************************************************************)
EXTENDS SeriesRanges, SeriesCheck, FiniteSetTheorems, WellFoundedInduction, TLAPS

(* A range as AppendSampleToRanges makes it: a step long at least.         *)
IsRange(r, step) ==
    /\ r \in [start : Nat, end : Nat]
    /\ r.start + step <= r.end

(* There is no more than a step between the two.                           *)
Touch(a, b, step) == a.start <= b.end + step /\ b.start <= a.end + step

(* One is included in the other and shares its start or its end with it,   *)
(* give or take a step.                                                    *)
Aligned(inner, outer, step) ==
    /\ outer.start <= inner.start /\ inner.end <= outer.end
    /\ Near(inner.start, outer.start, step) \/ inner.end = outer.end

----------------------------------------------------------------------------
(* Overlaps merges nothing that is further than a step apart, so merging   *)
(* never bridges two missed evaluations.                                   *)
THEOREM OverlapsOnlyTouching ==
    ASSUME NEW step \in Nat \ {0}, NEW a, NEW b,
           IsRange(a, step), IsRange(b, step), Overlaps(a, b, step)
    PROVE  Touch(a, b, step)
BY DEF IsRange, Overlaps, Near, Touch

(* The one kind of ranges that touch and that Overlaps denies: the first   *)
(* is included in the second and aligned with it.                          *)
THEOREM OverlapsMissesAligned ==
    ASSUME NEW step \in Nat \ {0}, NEW a, NEW b,
           IsRange(a, step), IsRange(b, step),
           Touch(a, b, step), ~Overlaps(a, b, step)
    PROVE  Aligned(a, b, step)
BY DEF IsRange, Overlaps, Near, Touch, Aligned

(* Asked the other way round it sees them, so the order in which slices    *)
(* arrive decides what one pass of MergeRanges can merge.                  *)
THEOREM OverlapsOneWay ==
    ASSUME NEW step \in Nat \ {0}, NEW a, NEW b,
           IsRange(a, step), IsRange(b, step)
    PROVE  Touch(a, b, step) <=> Overlaps(a, b, step) \/ Overlaps(b, a, step)
<1>1. Touch(a, b, step) = Touch(b, a, step)
  BY DEF Touch, IsRange
<1>2. ASSUME Touch(a, b, step), ~Overlaps(a, b, step), ~Overlaps(b, a, step)
      PROVE  FALSE
  <2>1. Aligned(a, b, step) /\ Aligned(b, a, step)
    BY <1>1, <1>2, OverlapsMissesAligned
  <2>2. Near(a.start, b.start, step) /\ Near(a.end, b.end, step)
    BY <2>1 DEF Aligned, Near, IsRange
  <2>. QED
    BY <1>2, <2>2 DEF Overlaps
<1>. QED
  BY <1>1, <1>2, OverlapsOnlyTouching

(* What is merged is again a range, includes both, and adds no time that   *)
(* is not between them and within a step of each.                          *)
THEOREM MergedIsHonest ==
    ASSUME NEW step \in Nat \ {0}, NEW a, NEW b,
           IsRange(a, step), IsRange(b, step), Overlaps(a, b, step),
           NEW t \in Nat
    PROVE  /\ IsRange(Hull(a, b), step)
           /\ t \in (a.start..a.end) \cup (b.start..b.end)
                => t \in Hull(a, b).start..Hull(a, b).end
           /\ t \in Hull(a, b).start..Hull(a, b).end =>
                \/ t \in (a.start..a.end) \cup (b.start..b.end)
                \/ a.end < t /\ t < b.start /\ b.start <= a.end + step
                \/ b.end < t /\ t < a.start /\ a.start <= b.end + step
<1>1. Touch(a, b, step)
  BY OverlapsOnlyTouching
<1>. QED
  BY <1>1 DEF IsRange, Hull, Touch
----------------------------------------------------------------------------
(* Of the intervals 0..x that end in a set of naturals one is least.       *)
LEMMA LeastExists ==
    ASSUME NEW S, S \subseteq Nat, S # {}
    PROVE  \E x \in S : \A y \in S : x <= y
<1> DEFINE T == {0..x : x \in S}
<1>1. T \subseteq FiniteSubsetsOf(Nat)
  <2> SUFFICES ASSUME NEW x \in S PROVE 0..x \in FiniteSubsetsOf(Nat)
    OBVIOUS
  <2>1. x \in Nat
    OBVIOUS
  <2>2. 0..x \subseteq Nat /\ IsFiniteSet(0..x)
    BY <2>1, FS_Interval
  <2> QED
    BY <2>2 DEF FiniteSubsetsOf
<1>2. PICK t \in T : \A u \in T : ~(<<u, t>> \in StrictSubsetOrdering(Nat))
  <2>1. T # {}
    OBVIOUS
  <2> HIDE DEF T
  <2> QED
    BY <1>1, <2>1, WFMin, FS_StrictSubsetOrderingWellFounded
<1>3. PICK x \in S : t = 0..x
  OBVIOUS
<1>4. ASSUME NEW y \in S, y < x PROVE FALSE
  <2>1. x \in Nat /\ y \in Nat
    OBVIOUS
  <2>2. 0..y \subseteq 0..x /\ 0..x \subseteq Nat /\ x \in 0..x /\ x \notin 0..y
    BY <1>4, <2>1
  <2>3. <<0..y, 0..x>> \in StrictSubsetOrdering(Nat)
    BY <2>2 DEF StrictSubsetOrdering
  <2>4. 0..y \in T
    OBVIOUS
  <2> HIDE DEF T
  <2> QED
    BY <1>2, <1>3, <2>3, <2>4
<1>5. \A y \in S : x <= y
  <2>1. \A z \in S : z \in Nat
    OBVIOUS
  <2> QED
    BY <1>4, <2>1
<1> QED
  BY <1>5

(* Induction, for a set: it has no least natural outside it.               *)
LEMMA SetInduction ==
    ASSUME NEW S, 0 \in S, \A n \in Nat : n \in S => n + 1 \in S
    PROVE  Nat \subseteq S
<1> DEFINE U == Nat \ S
<1> SUFFICES ASSUME U # {} PROVE FALSE
  OBVIOUS
<1>1. PICK k \in U : \A y \in U : k <= y
  <2>1. U \subseteq Nat
    OBVIOUS
  <2> HIDE DEF U
  <2> QED
    BY <2>1, LeastExists
<1>2. k # 0 /\ k \in Nat
  OBVIOUS
<1>3. k - 1 \in Nat /\ ~(k <= k - 1) /\ (k - 1) + 1 = k
  BY <1>2
<1>4. k - 1 \in S
  BY <1>1, <1>3
<1> QED
  BY <1>3, <1>4

(* Of the samples up to a time there is a last one.                        *)
LEMMA GreatestUpTo ==
    ASSUME NEW S, S \subseteq Nat, NEW t \in Nat, NEW s \in S, s <= t
    PROVE  \E x \in S : s <= x /\ x <= t /\ \A y \in S : y <= t => y <= x
<1> DEFINE D == {t - x : x \in {x \in S : x <= t}}
<1>1. D \subseteq Nat /\ t - s \in D
  OBVIOUS
<1>2. PICK d \in D : \A e \in D : d <= e
  <2> HIDE DEF D
  <2> QED
    BY <1>1, LeastExists
<1>3. PICK x \in S : x <= t /\ d = t - x
  OBVIOUS
<1>4. ASSUME NEW y \in S, y <= t PROVE y <= x
  <2>1. t - y \in D
    BY <1>4
  <2>2. d <= t - y
    BY <1>2, <2>1
  <2>3. x \in Nat /\ y \in Nat
    OBVIOUS
  <2> QED
    BY <1>3, <2>2, <2>3
<1>5. s <= x
  BY <1>4
<1> QED
  BY <1>3, <1>4, <1>5

(* The times of samples are bounded: there is a last one.                  *)
Bounded(S) == S \subseteq Nat /\ \E b \in Nat : \A x \in S : x <= b

LEMMA LastOf ==
    ASSUME NEW S, Bounded(S), S # {}
    PROVE  Max(S) \in S /\ \A x \in S : x <= Max(S)
<1>1. PICK b \in Nat : \A x \in S : x <= b
  BY DEF Bounded
<1>2. PICK s \in S : TRUE
  OBVIOUS
<1>3. \E x \in S : \A y \in S : y <= x
  BY <1>1, <1>2, GreatestUpTo DEF Bounded
<1>4. \E x \in S : \A y \in S : x >= y
  BY <1>3 DEF Bounded
<1>5. Max(S) \in S /\ \A y \in S : Max(S) >= y
  BY <1>4, Zenon DEF Max
<1> QED
  BY <1>5 DEF Bounded

(* A list of the runs of samples S, in order: what is in a run has a next  *)
(* and a previous sample near, and the next run is further away.           *)
TimeRange == [start : Nat, end : Nat]
RunList(L, S, step) ==
    /\ L \in Seq(TimeRange)
    /\ \A i \in 1..Len(L) :
         L[i].start \in S /\ L[i].end - step \in S /\ L[i].start + step <= L[i].end
    /\ \A i, j \in 1..Len(L) : i < j => L[i].end + step < L[j].start
    /\ \A x \in S : \E i \in 1..Len(L) : L[i].start <= x /\ x <= L[i].end - step
    /\ \A i \in 1..Len(L), x \in S : L[i].start <= x /\ x < L[i].end - step =>
         \E y \in S : x < y /\ y <= x + 2 * step /\ y <= L[i].end - step
    /\ \A i \in 1..Len(L), x \in S : L[i].start < x /\ x <= L[i].end - step =>
         \E y \in S : y < x /\ x <= y + 2 * step

(* A sample later than all the others makes of a list of their runs a      *)
(* list of all runs.                                                       *)
LEMMA AddTimeExtends ==
    ASSUME NEW step \in Nat \ {0}, NEW S, S \subseteq Nat, NEW L, RunList(L, S, step),
           NEW n \in Nat, \A x \in S : x < n
    PROVE  RunList(AddTime(L, n, step), S \cup {n}, step)
<1> DEFINE k == Len(L)
           near == {i \in DOMAIN L : Joins(L[i], n, step)}
           M == AddTime(L, n, step)
           T == S \cup {n}
<1>1. k \in Nat /\ DOMAIN L = 1..k /\ L \in Seq(TimeRange)
  BY DEF RunList
<1>2. ASSUME NEW i \in 1..k
      PROVE  /\ L[i].start \in S /\ L[i].end - step \in S /\ L[i].start + step <= L[i].end
             /\ L[i].start \in Nat /\ L[i].end \in Nat /\ L[i].start < n /\ L[i].end < n + step
             /\ L[i] \in TimeRange
  <2>1. L[i] \in TimeRange
    BY <1>1
  <2>2. L[i].start \in S /\ L[i].end - step \in S /\ L[i].start + step <= L[i].end
    BY DEF RunList
  <2>3. L[i].start < n /\ L[i].end - step < n
    BY <2>2
  <2> QED
    BY <2>1, <2>2, <2>3 DEF TimeRange
<1>3. \A i, j \in 1..k : i < j => L[i].end + step < L[j].start
  BY Zenon DEF RunList
<1>4. \A x \in S : \E i \in 1..k : L[i].start <= x /\ x <= L[i].end - step
  BY Zenon DEF RunList
<1>5. \A i \in 1..k, x \in S : L[i].start <= x /\ x < L[i].end - step =>
         \E y \in S : x < y /\ y <= x + 2 * step /\ y <= L[i].end - step
  BY Zenon DEF RunList
<1>6. \A i \in 1..k, x \in S : L[i].start < x /\ x <= L[i].end - step =>
         \E y \in S : y < x /\ x <= y + 2 * step
  BY Zenon DEF RunList
<1> HIDE DEF k
<1>7. CASE near = {}
  <2>1. M = Append(L, [start |-> n, end |-> n + step])
    BY <1>7 DEF AddTime
  <2> HIDE DEF M
  <2>2. \A i \in 1..k : L[i].end + step < n
    <3> SUFFICES ASSUME NEW i \in 1..k PROVE L[i].end + step < n
      OBVIOUS
    <3>1. ~Joins(L[i], n, step)
      BY <1>1, <1>7
    <3> QED
      BY <1>2, <3>1 DEF Joins
  <2>3. [start |-> n, end |-> n + step] \in TimeRange
    BY DEF TimeRange
  <2>4. /\ M \in Seq(TimeRange) /\ Len(M) = k + 1
        /\ \A i \in 1..k : M[i] = L[i]
        /\ M[k + 1] = [start |-> n, end |-> n + step]
    BY <1>1, <2>1, <2>3 DEF k
  <2>5. M[k + 1].start = n /\ M[k + 1].end = n + step /\ k + 1 \in 1..(k + 1)
    BY <1>1, <2>4
  <2>6. \A i \in 1..(k + 1) : i \in 1..k \/ i = k + 1
    BY <1>1
  <2>7. \A i \in 1..(k + 1) :
          M[i].start \in T /\ M[i].end - step \in T /\ M[i].start + step <= M[i].end
    BY <1>2, <2>4, <2>5, <2>6
  <2>8. \A i, j \in 1..(k + 1) : i < j => M[i].end + step < M[j].start
    <3> SUFFICES ASSUME NEW i \in 1..(k + 1), NEW j \in 1..(k + 1), i < j
                 PROVE  M[i].end + step < M[j].start
      OBVIOUS
    <3>1. i \in 1..k /\ M[i] = L[i]
      BY <1>1, <2>4
    <3>2. CASE j = k + 1
      BY <2>2, <2>5, <3>1, <3>2
    <3>3. CASE j \in 1..k
      BY <1>3, <2>4, <3>1, <3>3
    <3> QED
      BY <2>6, <3>2, <3>3
  <2>9. \A x \in T : \E i \in 1..(k + 1) : M[i].start <= x /\ x <= M[i].end - step
    <3>1. ASSUME NEW x \in S PROVE \E i \in 1..(k + 1) : M[i].start <= x /\ x <= M[i].end - step
      <4>1. PICK i \in 1..k : L[i].start <= x /\ x <= L[i].end - step
        BY <1>4
      <4>2. i \in 1..(k + 1) /\ M[i] = L[i]
        BY <1>1, <2>4
      <4> QED
        BY <4>1, <4>2
    <3>2. M[k + 1].start <= n /\ n <= M[k + 1].end - step
      BY <2>5
    <3> QED
      BY <2>5, <3>1, <3>2
  <2>10. ASSUME NEW i \in 1..(k + 1), NEW x \in T, M[i].start <= x, x < M[i].end - step
         PROVE  \E y \in T : x < y /\ y <= x + 2 * step /\ y <= M[i].end - step
    <3>1. i # k + 1 /\ x \in Nat
      <4>1. x \in Nat
        OBVIOUS
      <4>2. ASSUME i = k + 1 PROVE FALSE
        BY <2>5, <2>10, <4>1, <4>2
      <4> QED
        BY <4>1, <4>2
    <3>2. i \in 1..k /\ M[i] = L[i]
      BY <2>4, <2>6, <3>1
    <3>3. x \in S
      BY <1>2, <2>10, <3>2
    <3> QED
      BY <1>5, <2>10, <3>2, <3>3
  <2>11. ASSUME NEW i \in 1..(k + 1), NEW x \in T, M[i].start < x, x <= M[i].end - step
         PROVE  \E y \in T : y < x /\ x <= y + 2 * step
    <3>1. i # k + 1 /\ x \in Nat
      BY <2>5, <2>11
    <3>2. i \in 1..k /\ M[i] = L[i]
      BY <2>4, <2>6, <3>1
    <3>3. x \in S
      BY <1>2, <2>11, <3>2
    <3> QED
      BY <1>6, <2>11, <3>2, <3>3
  <2> HIDE DEF T
  <2>12. RunList(M, T, step)
    BY <2>4, <2>7, <2>8, <2>9, <2>10, <2>11, Zenon DEF RunList
  <2> QED
    BY <2>12, Zenon DEF M, T
<1>8. CASE near # {}
  <2>1. \A i \in near : i = k
    <3> SUFFICES ASSUME NEW i \in near, i # k PROVE FALSE
      OBVIOUS
    <3>1. i \in 1..k /\ n <= L[i].end + step
      BY <1>1 DEF Joins
    <3>2. k \in 1..k /\ i < k
      BY <1>1, <3>1
    <3>3. L[i].end + step < L[k].start /\ L[k].start < n
      BY <1>2, <1>3, <3>1, <3>2
    <3> QED
      BY <1>2, <3>1, <3>2, <3>3
  <2>2. near = {k} /\ k \in 1..k /\ n <= L[k].end + step
    BY <1>1, <1>8, <2>1 DEF Joins
  <2>3. Min(near) = k
    BY <1>1, <2>2 DEF Min
  <2>4. M = [L EXCEPT ![k].end = IF n + step > @ THEN n + step ELSE @]
    <3>1. M = IF near = {} THEN Append(L, [start |-> n, end |-> n + step])
              ELSE [L EXCEPT ![Min(near)].end = IF n + step > @ THEN n + step ELSE @]
      BY Zenon DEF AddTime
    <3> HIDE DEF M, near
    <3> QED
      BY <1>8, <2>3, <3>1
  <2> HIDE DEF M, near
  <2>5. /\ M \in Seq(TimeRange) /\ Len(M) = k
        /\ \A i \in 1..k : i # k => M[i] = L[i]
        /\ M[k].start = L[k].start /\ M[k].end = n + step
    <3>1. L[k] = [start |-> L[k].start, end |-> L[k].end] /\ n + step > L[k].end
      BY <1>2, <2>2 DEF TimeRange
    <3>2. M = [L EXCEPT ![k] = [start |-> L[k].start, end |-> n + step]]
      <4> DEFINE e == n + step
                 r == L[k]
      <4>1. [r EXCEPT !.end = IF e > @ THEN e ELSE @] = [r EXCEPT !.end = e]
        BY <3>1
      <4>2. r = [start |-> r.start, end |-> r.end]
        BY <3>1
      <4> HIDE DEF e
      <4>3. [r EXCEPT !.end = e] = [start |-> r.start, end |-> e]
        <5> HIDE DEF r
        <5> QED
          BY <4>2
      <4>4. M = [L EXCEPT ![k] = [r EXCEPT !.end = IF e > @ THEN e ELSE @]]
        BY <2>4, Zenon DEF e
      <4> HIDE DEF r
      <4>5. M = [L EXCEPT ![k] = [start |-> r.start, end |-> e]]
        BY <4>1, <4>3, <4>4, Zenon
      <4> QED
        BY <4>5, Zenon DEF e, r
    <3>3. [start |-> L[k].start, end |-> n + step] \in TimeRange
      BY <1>2, <2>2 DEF TimeRange
    <3>4. M \in Seq(TimeRange) /\ Len(M) = k /\ M[k] = [start |-> L[k].start, end |-> n + step]
          /\ \A i \in 1..k : i # k => M[i] = L[i]
      BY <1>1, <2>2, <3>2, <3>3 DEF k
    <3> QED
      BY <3>4
  <2>6. \A i \in 1..k :
          M[i].start \in T /\ M[i].end - step \in T /\ M[i].start + step <= M[i].end
    <3> SUFFICES ASSUME NEW i \in 1..k
                 PROVE  M[i].start \in T /\ M[i].end - step \in T /\ M[i].start + step <= M[i].end
      OBVIOUS
    <3>1. CASE i = k
      BY <1>2, <2>5, <3>1
    <3>2. CASE i # k
      BY <1>2, <2>5, <3>2
    <3> QED
      BY <3>1, <3>2
  <2>7. \A i, j \in 1..k : i < j => M[i].end + step < M[j].start
    <3> SUFFICES ASSUME NEW i \in 1..k, NEW j \in 1..k, i < j
                 PROVE  M[i].end + step < M[j].start
      OBVIOUS
    <3>1. i # k /\ L[i].end + step < L[j].start
      BY <1>1, <1>3
    <3>2. M[i] = L[i] /\ M[j].start = L[j].start
      BY <2>5, <3>1
    <3> QED
      BY <3>1, <3>2
  <2>8. \A x \in T : \E i \in 1..k : M[i].start <= x /\ x <= M[i].end - step
    <3>1. ASSUME NEW x \in S PROVE \E i \in 1..k : M[i].start <= x /\ x <= M[i].end - step
      <4>1. PICK i \in 1..k : L[i].start <= x /\ x <= L[i].end - step
        BY <1>4
      <4>2. CASE i = k
        BY <1>2, <2>5, <4>1, <4>2
      <4>3. CASE i # k
        BY <2>5, <4>1, <4>3
      <4> QED
        BY <4>2, <4>3
    <3>2. M[k].start <= n /\ n <= M[k].end - step
      BY <1>2, <2>2, <2>5
    <3> QED
      BY <2>2, <3>1, <3>2
  <2>9. ASSUME NEW i \in 1..k, NEW x \in T, M[i].start <= x, x < M[i].end - step
        PROVE  \E y \in T : x < y /\ y <= x + 2 * step /\ y <= M[i].end - step
    <3>1. CASE i # k
      <4>1. M[i] = L[i] /\ x \in S
        BY <1>2, <2>5, <2>9, <3>1
      <4> QED
        BY <1>5, <2>9, <4>1
    <3>2. CASE i = k
      <4>1. x \in S /\ x \in Nat /\ L[k].start <= x
        <5>1. /\ x \in Nat /\ M[k].start <= x /\ x < M[k].end - step
              /\ M[k].start = L[k].start /\ M[k].end = n + step
          BY <2>5, <2>9, <3>2
        <5>2. x < n
          BY <5>1
        <5> QED
          BY <5>1, <5>2
      <4>2. CASE x < L[k].end - step
        <5>1. PICK y \in S : x < y /\ y <= x + 2 * step /\ y <= L[k].end - step
          BY <1>5, <2>2, <4>1, <4>2
        <5>2. y <= M[k].end - step
          BY <1>2, <2>2, <2>5, <5>1
        <5> QED
          BY <3>2, <5>1, <5>2
      <4>3. CASE ~(x < L[k].end - step)
        <5>1. x < n /\ n <= x + 2 * step /\ n <= M[k].end - step
          BY <1>2, <2>2, <2>5, <4>1, <4>3
        <5> QED
          BY <3>2, <5>1
      <4> QED
        BY <4>2, <4>3
    <3> QED
      BY <3>1, <3>2
  <2>10. ASSUME NEW i \in 1..k, NEW x \in T, M[i].start < x, x <= M[i].end - step
         PROVE  \E y \in T : y < x /\ x <= y + 2 * step
    <3>1. CASE i # k
      <4>1. M[i] = L[i] /\ x \in S
        BY <1>2, <2>5, <2>10, <3>1
      <4> QED
        BY <1>6, <2>10, <4>1
    <3>2. CASE i = k /\ x = n
      <4>1. L[k].end - step \in S /\ L[k].end - step < n /\ n <= (L[k].end - step) + 2 * step
        BY <1>2, <2>2
      <4> QED
        BY <3>2, <4>1
    <3>3. CASE i = k /\ x # n
      <4>1. x \in S /\ L[k].start < x
        BY <2>5, <2>10, <3>3
      <4>2. PICK j \in 1..k : L[j].start <= x /\ x <= L[j].end - step
        BY <1>4, <4>1
      <4>3. j = k
        <5> SUFFICES ASSUME j < k PROVE FALSE
          BY <1>1
        <5>1. L[j].end + step < L[k].start
          BY <1>3, <2>2
        <5> QED
          BY <1>2, <2>2, <4>1, <4>2, <5>1
      <4> QED
        BY <1>6, <2>2, <4>1, <4>2, <4>3
    <3> QED
      BY <3>1, <3>2, <3>3
  <2> HIDE DEF T
  <2>11. RunList(M, T, step)
    BY <2>5, <2>6, <2>7, <2>8, <2>9, <2>10, Zenon DEF RunList
  <2> QED
    BY <2>11, Zenon DEF M, T
<1> QED
  BY <1>7, <1>8

(* From a to b is a run: no sample near before a or after b, and between   *)
(* them every sample has a near next one.                                  *)
RunOf(a, b, S, step) ==
    /\ a <= b
    /\ \A x \in S : ~(x < a /\ a <= x + 2 * step)
    /\ \A y \in S : ~(b < y /\ y <= b + 2 * step)
    /\ \A x \in S : a <= x /\ x < b => \E y \in S : y <= b /\ x < y /\ y <= x + 2 * step

IsRunOf(r, S, step) ==
    \E a, b \in S : RunOf(a, b, S, step) /\ r = [start |-> a, end |-> b + step]

(* The runs TimeRanges defines are these.                                  *)
LEMMA RunsAre ==
    ASSUME NEW S, NEW step, NEW r
    PROVE  r \in Runs(S, step) <=> IsRunOf(r, S, step)
<1>1. ASSUME r \in Runs(S, step) PROVE IsRunOf(r, S, step)
  BY <1>1, Zenon DEF Runs, RunOf, IsRunOf
<1>2. ASSUME NEW a \in S, NEW b \in S, RunOf(a, b, S, step),
             r = [start |-> a, end |-> b + step]
      PROVE  r \in Runs(S, step)
  <2>1. <<a, b>> \in S \X S /\ <<a, b>>[1] = a /\ <<a, b>>[2] = b
    OBVIOUS
  <2> QED
    BY <1>2, <2>1, Zenon DEF Runs, RunOf
<1> QED
  BY <1>1, <1>2, Zenon DEF IsRunOf

(* Such a list has the runs, all of them and nothing else.                 *)
LEMMA RunListIsRuns ==
    ASSUME NEW step \in Nat \ {0}, NEW S, S \subseteq Nat, NEW L, RunList(L, S, step)
    PROVE  ToSet(L) = Runs(S, step)
<1> DEFINE k == Len(L)
<1>1. k \in Nat /\ DOMAIN L = 1..k /\ L \in Seq(TimeRange)
  BY DEF RunList
<1>2. ASSUME NEW i \in 1..k
      PROVE  /\ L[i].start \in S /\ L[i].end - step \in S /\ L[i].start + step <= L[i].end
             /\ L[i].start \in Nat /\ L[i].end \in Nat
  <2>1. L[i] \in TimeRange
    BY <1>1
  <2>2. L[i].start \in S /\ L[i].end - step \in S /\ L[i].start + step <= L[i].end
    BY DEF RunList
  <2> QED
    BY <2>1, <2>2 DEF TimeRange
<1>10. ASSUME NEW i \in 1..k
       PROVE  L[i] = [start |-> L[i].start, end |-> (L[i].end - step) + step]
  <2>1. L[i] = [start |-> L[i].start, end |-> L[i].end]
    <3>1. L[i] \in TimeRange
      BY <1>1
    <3> QED
      BY <3>1 DEF TimeRange
  <2>2. (L[i].end - step) + step = L[i].end
    BY <1>2
  <2> QED
    BY <2>1, <2>2, Zenon
<1>3. \A i, j \in 1..k : i < j => L[i].end + step < L[j].start
  BY Zenon DEF RunList
<1>4. \A x \in S : \E i \in 1..k : L[i].start <= x /\ x <= L[i].end - step
  BY Zenon DEF RunList
<1>5. \A i \in 1..k, x \in S : L[i].start <= x /\ x < L[i].end - step =>
         \E y \in S : x < y /\ y <= x + 2 * step /\ y <= L[i].end - step
  BY Zenon DEF RunList
<1>6. \A i \in 1..k, x \in S : L[i].start < x /\ x <= L[i].end - step =>
         \E y \in S : y < x /\ x <= y + 2 * step
  BY Zenon DEF RunList
<1> HIDE DEF k
<1>7. ASSUME NEW i \in 1..k
      PROVE  RunOf(L[i].start, L[i].end - step, S, step)
  <2>1. L[i].start <= L[i].end - step
    BY <1>2
  <2>2. ASSUME NEW x \in S, x < L[i].start, L[i].start <= x + 2 * step
        PROVE  FALSE
    <3>1. PICK j \in 1..k : L[j].start <= x /\ x <= L[j].end - step
      BY <1>4
    <3>2. i < j \/ i = j \/ j < i
      BY <1>1
    <3>3. CASE i < j
      BY <1>2, <1>3, <2>2, <3>1, <3>3
    <3>4. CASE i = j
      BY <1>2, <2>2, <3>1, <3>4
    <3>5. CASE j < i
      BY <1>2, <1>3, <2>2, <3>1, <3>5
    <3> QED
      BY <3>2, <3>3, <3>4, <3>5
  <2>3. ASSUME NEW y \in S, L[i].end - step < y, y <= (L[i].end - step) + 2 * step
        PROVE  FALSE
    <3>1. PICK j \in 1..k : L[j].start <= y /\ y <= L[j].end - step
      BY <1>4
    <3>2. i < j \/ i = j \/ j < i
      BY <1>1
    <3>3. CASE i < j
      BY <1>2, <1>3, <2>3, <3>1, <3>3
    <3>4. CASE i = j
      <4>1. y <= L[i].end - step
        BY <3>1, <3>4
      <4> QED
        BY <1>2, <2>3, <4>1
    <3>5. CASE j < i
      BY <1>2, <1>3, <2>3, <3>1, <3>5
    <3> QED
      BY <3>2, <3>3, <3>4, <3>5
  <2> QED
    BY <1>5, <2>1, <2>2, <2>3, Zenon DEF RunOf
<1>8. ASSUME NEW a \in S, NEW b \in S, RunOf(a, b, S, step)
      PROVE  \E i \in 1..k : L[i].start = a /\ L[i].end - step = b
  <2>1. PICK i \in 1..k : L[i].start <= a /\ a <= L[i].end - step
    BY <1>4
  <2>2. /\ a \in Nat /\ b \in Nat /\ a <= b
        /\ L[i].start \in Nat /\ L[i].end \in Nat /\ L[i].end - step \in S
    BY <1>2, <1>8 DEF RunOf
  <2>3. L[i].start = a
    <3> SUFFICES ASSUME L[i].start < a PROVE FALSE
      BY <2>1, <2>2
    <3>1. \E y \in S : y < a /\ a <= y + 2 * step
      BY <1>6, <2>1
    <3> QED
      BY <1>8, <3>1, Zenon DEF RunOf
  <2>4. ~(b < L[i].end - step)
    <3> SUFFICES ASSUME b < L[i].end - step PROVE FALSE
      OBVIOUS
    <3>1. \E y \in S : b < y /\ y <= b + 2 * step
      BY <1>5, <2>2, <2>3
    <3> QED
      BY <1>8, <3>1, Zenon DEF RunOf
  <2>5. ~(L[i].end - step < b)
    <3> SUFFICES ASSUME L[i].end - step < b PROVE FALSE
      OBVIOUS
    <3>1. PICK y \in S : y <= b /\ L[i].end - step < y /\ y <= (L[i].end - step) + 2 * step
      BY <1>8, <2>1, <2>2 DEF RunOf
    <3>2. RunOf(L[i].start, L[i].end - step, S, step)
      BY <1>7
    <3> QED
      BY <3>1, <3>2, Zenon DEF RunOf
  <2>6. L[i].end - step = b
    BY <2>2, <2>4, <2>5
  <2> QED
    BY <2>3, <2>6
<1>9. ASSUME NEW r PROVE r \in ToSet(L) <=> r \in Runs(S, step)
  <2>1. r \in ToSet(L) <=> \E i \in 1..k : r = L[i]
    BY <1>1, Zenon DEF ToSet
  <2>2. ASSUME NEW i \in 1..k, r = L[i] PROVE r \in Runs(S, step)
    <3>1. L[i].start \in S /\ L[i].end - step \in S
          /\ r = [start |-> L[i].start, end |-> (L[i].end - step) + step]
      BY <1>2, <1>10, <2>2, Zenon
    <3> QED
      BY <1>7, <3>1, RunsAre, Zenon DEF IsRunOf
  <2>3. ASSUME r \in Runs(S, step) PROVE \E i \in 1..k : r = L[i]
    <3>1. IsRunOf(r, S, step)
      BY <2>3, RunsAre, Zenon
    <3>2. PICK a \in S, b \in S : RunOf(a, b, S, step) /\ r = [start |-> a, end |-> b + step]
      BY <3>1, Zenon DEF IsRunOf
    <3>3. PICK i \in 1..k : L[i].start = a /\ L[i].end - step = b
      BY <1>8, <3>2
    <3>4. r = L[i]
      BY <1>10, <3>2, <3>3, Zenon
    <3> QED
      BY <3>4
  <2> QED
    BY <2>1, <2>2, <2>3, Zenon
<1> QED
  BY <1>9, Zenon

(* The ranges of the times before each n up to m.                          *)
RangesBefore(f, times, step, m) ==
    f = [n \in 0..m |->
           IF n = 0 THEN <<>>
           ELSE IF n - 1 \in times THEN AddTime(f[n - 1], n - 1, step)
           ELSE f[n - 1]]

(* There are such ranges: RangesOf is a recursive function.                *)
LEMMA RangesBeforeExist ==
    ASSUME NEW times, NEW step, NEW m \in Nat
    PROVE  \E f : RangesBefore(f, times, step, m)
<1> DEFINE T == {k \in Nat : \E f : RangesBefore(f, times, step, k)}
<1>1. 0 \in T
  <2>1. RangesBefore([n \in 0..0 |-> <<>>], times, step, 0)
    BY DEF RangesBefore
  <2> QED
    BY <2>1
<1>2. ASSUME NEW k \in Nat, k \in T PROVE k + 1 \in T
  <2>1. PICK f : RangesBefore(f, times, step, k)
    BY <1>2
  <2> DEFINE next == IF k \in times THEN AddTime(f[k], k, step) ELSE f[k]
             h == [n \in 0..(k + 1) |-> IF n = k + 1 THEN next ELSE f[n]]
  <2> HIDE DEF next
  <2>2. ASSUME NEW n \in 0..(k + 1)
        PROVE  h[n] = IF n = 0 THEN <<>>
                      ELSE IF n - 1 \in times THEN AddTime(h[n - 1], n - 1, step)
                      ELSE h[n - 1]
    <3>1. CASE n = k + 1
      <4>1. n # 0 /\ n - 1 = k /\ h[n] = next /\ h[k] = f[k]
        BY <3>1
      <4> HIDE DEF h
      <4> QED
        BY <4>1 DEF next
    <3>2. CASE n = 0
      <4>1. h[n] = f[n]
        BY <3>2
      <4>2. f[n] = <<>>
        BY <2>1, <3>2 DEF RangesBefore
      <4> QED
        BY <3>2, <4>1, <4>2
    <3>3. CASE n # k + 1 /\ n # 0
      <4>1. n \in 0..k /\ h[n] = f[n] /\ h[n - 1] = f[n - 1]
        BY <3>3
      <4>2. f[n] = IF n - 1 \in times THEN AddTime(f[n - 1], n - 1, step) ELSE f[n - 1]
        BY <2>1, <3>3, <4>1, Zenon DEF RangesBefore
      <4> HIDE DEF h
      <4> QED
        BY <3>3, <4>1, <4>2
    <3> QED
      BY <3>1, <3>2, <3>3
  <2>3. h = [n \in 0..(k + 1) |->
               IF n = 0 THEN <<>>
               ELSE IF n - 1 \in times THEN AddTime(h[n - 1], n - 1, step)
               ELSE h[n - 1]]
    BY <2>2, Zenon
  <2> HIDE DEF h
  <2> QED
    BY <2>3 DEF RangesBefore
<1> HIDE DEF T
<1>3. m \in T
  BY <1>1, <1>2, SetInduction
<1> QED
  BY <1>3 DEF T

(* AppendSampleToRanges: whatever times the samples have, the ranges made  *)
(* of them are the runs of those times, each once and in order.            *)
THEOREM SamplesBecomeRuns ==
    ASSUME NEW step \in Nat \ {0}, NEW S, Bounded(S)
    PROVE  RunList(RangesOf(S, step), S, step) /\ ToSet(RangesOf(S, step)) = Runs(S, step)
<1> DEFINE end == IF S = {} THEN 0 ELSE Max(S) + 1
           F == CHOOSE f : RangesBefore(f, S, step, end)
           So(n) == {x \in S : x < n}
<1>1. S \subseteq Nat
  BY DEF Bounded
<1>2. end \in Nat /\ \A x \in S : x < end
  <2>1. CASE S = {}
    BY <2>1
  <2>2. CASE S # {}
    <3>1. Max(S) \in S /\ \A x \in S : x <= Max(S)
      BY <2>2, LastOf
    <3>2. Max(S) \in Nat
      BY <1>1, <3>1
    <3> QED
      BY <1>1, <2>2, <3>1, <3>2
  <2> QED
    BY <2>1, <2>2
<1>3. RangesOf(S, step) = F[end]
  BY Zenon DEF RangesOf, RangesBefore
<1> HIDE DEF end
<1>4. RangesBefore(F, S, step, end)
  <2>1. \E f : RangesBefore(f, S, step, end)
    BY <1>2, RangesBeforeExist
  <2> QED
    BY <2>1, Zenon
<1> HIDE DEF F
<1>5. \A n \in 0..end : F[n] = IF n = 0 THEN <<>>
                               ELSE IF n - 1 \in S THEN AddTime(F[n - 1], n - 1, step)
                               ELSE F[n - 1]
  BY <1>4, Zenon DEF RangesBefore
<1> DEFINE T == {n \in Nat : n <= end => RunList(F[n], So(n), step)}
<1>6. 0 \in T
  <2>1. So(0) = {}
    <3>1. \A x \in S : ~(x < 0)
      BY <1>1
    <3> QED
      BY <3>1
  <2>2. F[0] = <<>>
    BY <1>2, <1>5
  <2>3. RunList(<<>>, {}, step)
    BY DEF RunList
  <2> QED
    BY <2>1, <2>2, <2>3
<1>7. ASSUME NEW n \in Nat, n \in T PROVE n + 1 \in T
  <2> SUFFICES ASSUME n + 1 <= end PROVE RunList(F[n + 1], So(n + 1), step)
    OBVIOUS
  <2>1. RunList(F[n], So(n), step)
    <3>1. n <= end
      BY <1>2
    <3> QED
      BY <1>7, <3>1
  <2>2. F[n + 1] = IF n \in S THEN AddTime(F[n], n, step) ELSE F[n]
    <3>1. n + 1 \in 0..end /\ n + 1 # 0 /\ (n + 1) - 1 = n
      BY <1>2
    <3> QED
      BY <1>5, <3>1, Zenon
  <2>3. CASE n \in S
    <3>1. So(n + 1) = So(n) \cup {n}
      <4>1. \A x \in S : x < n + 1 <=> x < n \/ x = n
        BY <1>1
      <4> QED
        BY <2>3, <4>1
    <3>2. So(n) \subseteq Nat /\ \A x \in So(n) : x < n
      BY <1>1
    <3> HIDE DEF So
    <3>3. RunList(AddTime(F[n], n, step), So(n) \cup {n}, step)
      BY <2>1, <3>2, AddTimeExtends
    <3> QED
      BY <2>2, <2>3, <3>1, <3>3, Zenon
  <2>4. CASE n \notin S
    <3>1. So(n + 1) = So(n)
      <4>1. \A x \in S : x < n + 1 <=> x < n \/ x = n
        BY <1>1
      <4> QED
        BY <2>4, <4>1
    <3> HIDE DEF So
    <3> QED
      BY <2>1, <2>2, <2>4, <3>1, Zenon
  <2> QED
    BY <2>3, <2>4
<1>8. end \in T
  <2> HIDE DEF T
  <2> QED
    BY <1>2, <1>6, <1>7, SetInduction
<1>9. So(end) = S
  BY <1>2
<1>10. RunList(F[end], So(end), step)
  BY <1>2, <1>8
<1> HIDE DEF So
<1>11. RunList(RangesOf(S, step), S, step)
  BY <1>3, <1>9, <1>10, Zenon
<1> QED
  BY <1>1, <1>11, RunListIsRuns

(* More samples leave a piece what it is.                                  *)
LEMMA PiecesGrow ==
    ASSUME NEW step \in Nat \ {0}, NEW T, T \subseteq Nat, NEW S, S \subseteq T,
           NEW r \in TimeRange, IsPiece(r, S, step)
    PROVE  IsPiece(r, T, step)
<1>1. r.start \in Nat /\ r.end \in Nat
  BY DEF TimeRange
<1>2. r.start \in S /\ r.end - step \in S /\ r.start + step <= r.end
  BY DEF IsPiece
<1>3. ASSUME NEW x \in T, r.start <= x, x < r.end - step
      PROVE  \E y \in T : x < y /\ y <= x + 2 * step /\ y <= r.end - step
  <2>1. x \in Nat /\ S \subseteq Nat
    OBVIOUS
  <2>2. PICK g \in S : r.start <= g /\ g <= x /\ \A y \in S : y <= x => y <= g
    BY <1>2, <1>3, <2>1, GreatestUpTo
  <2>3. g \in Nat /\ g < r.end - step
    BY <1>1, <1>3, <2>1, <2>2
  <2>4. PICK y \in S : g < y /\ y <= g + 2 * step /\ y <= r.end - step
    BY <2>2, <2>3, Zenon DEF IsPiece
  <2>5. y \in Nat /\ ~(y <= x)
    BY <2>1, <2>2, <2>3, <2>4
  <2> QED
    BY <2>1, <2>2, <2>3, <2>4, <2>5
<1> QED
  BY <1>2, <1>3, Zenon DEF IsPiece

(* The runs of some samples are pieces, and every sample is in one.        *)
LEMMA RunsArePieces ==
    ASSUME NEW step, NEW S, NEW L, RunList(L, S, step)
    PROVE  /\ L \in Seq(TimeRange) /\ ArePieces(L, S, step)
           /\ \A t \in S : InPiece(t, L, step)
<1>1. L \in Seq(TimeRange) /\ DOMAIN L = 1..Len(L)
  BY DEF RunList
<1>2. ASSUME NEW i \in 1..Len(L) PROVE IsPiece(L[i], S, step)
  BY Zenon DEF RunList, IsPiece
<1>3. \A r \in ToSet(L) : \E i \in 1..Len(L) : r = L[i]
  BY <1>1, Zenon DEF ToSet
<1>4. \A i \in 1..Len(L) : L[i] \in ToSet(L)
  BY <1>1, Zenon DEF ToSet
<1>5. ArePieces(L, S, step)
  BY <1>2, <1>3, Zenon DEF ArePieces
<1>6. \A t \in S : InPiece(t, L, step)
  BY <1>4, Zenon DEF InPiece, RunList
<1> QED
  BY <1>1, <1>5, <1>6

LEMMA PieceIsRange ==
    ASSUME NEW step \in Nat \ {0}, NEW S, NEW r \in TimeRange, IsPiece(r, S, step)
    PROVE  IsRange(r, step) /\ r.start \in Nat /\ r.end \in Nat
BY DEF IsPiece, IsRange, TimeRange

(* Two pieces that touch are one piece together.                           *)
LEMMA HullOfPieces ==
    ASSUME NEW step \in Nat \ {0}, NEW S, S \subseteq Nat,
           NEW a \in TimeRange, NEW b \in TimeRange,
           IsPiece(a, S, step), IsPiece(b, S, step), Touch(a, b, step)
    PROVE  /\ Hull(a, b) \in TimeRange /\ IsPiece(Hull(a, b), S, step)
           /\ Hull(a, b).start <= a.start /\ a.end <= Hull(a, b).end
           /\ Hull(a, b).start <= b.start /\ b.end <= Hull(a, b).end
<1> DEFINE h == Hull(a, b)
<1>1. /\ a.start \in S /\ a.end - step \in S /\ a.start + step <= a.end
      /\ b.start \in S /\ b.end - step \in S /\ b.start + step <= b.end
  BY DEF IsPiece
<1>2. a.start \in Nat /\ a.end \in Nat /\ b.start \in Nat /\ b.end \in Nat
  BY DEF TimeRange
<1>3. /\ h.start = IF a.start < b.start THEN a.start ELSE b.start
      /\ h.end = IF a.end > b.end THEN a.end ELSE b.end
      /\ h = [start |-> h.start, end |-> h.end]
  BY DEF Hull
<1>4. a.start <= b.end + step /\ b.start <= a.end + step
  BY DEF Touch
<1> HIDE DEF h
<1>5. h.start \in Nat /\ h.end \in Nat
  BY <1>2, <1>3
<1>6. h.start \in S /\ h.end - step \in S /\ h.start + step <= h.end
  <2>1. h.start \in S
    BY <1>1, <1>3
  <2>2. h.end - step \in S
    BY <1>1, <1>3
  <2>3. h.start + step <= h.end
    BY <1>1, <1>2, <1>3
  <2> QED
    BY <2>1, <2>2, <2>3
<1>7. /\ h.start <= a.start /\ a.end <= h.end
      /\ h.start <= b.start /\ b.end <= h.end
  BY <1>2, <1>3
<1>8. ASSUME NEW x \in S, h.start <= x, x < h.end - step
      PROVE  \E y \in S : x < y /\ y <= x + 2 * step /\ y <= h.end - step
  <2>1. x \in Nat
    OBVIOUS
  <2>2. CASE a.start <= x /\ x < a.end - step
    <3>1. PICK y \in S : x < y /\ y <= x + 2 * step /\ y <= a.end - step
      BY <2>2, Zenon DEF IsPiece
    <3>2. y <= h.end - step
      BY <1>2, <1>5, <1>7, <3>1
    <3> QED
      BY <3>1, <3>2
  <2>3. CASE b.start <= x /\ x < b.end - step
    <3>1. PICK y \in S : x < y /\ y <= x + 2 * step /\ y <= b.end - step
      BY <2>3, Zenon DEF IsPiece
    <3>2. y <= h.end - step
      BY <1>2, <1>5, <1>7, <3>1
    <3> QED
      BY <3>1, <3>2
  <2>4. CASE ~(a.start <= x /\ x < a.end - step) /\ ~(b.start <= x /\ x < b.end - step)
    <3>1. CASE x < b.start
      <4>1. b.start <= x + 2 * step /\ b.start <= h.end - step
        BY <1>1, <1>2, <1>3, <1>4, <1>8, <2>1, <2>4, <3>1
      <4> QED
        BY <1>1, <3>1, <4>1
    <3>2. CASE ~(x < b.start)
      <4>1. x < a.start /\ a.start <= x + 2 * step /\ a.start <= h.end - step
        BY <1>1, <1>2, <1>3, <1>4, <1>8, <2>1, <2>4, <3>2
      <4> QED
        BY <1>1, <4>1
    <3> QED
      BY <3>1, <3>2
  <2> QED
    BY <2>2, <2>3, <2>4, Zenon
<1>9. IsPiece(h, S, step)
  BY <1>6, <1>8, Zenon DEF IsPiece
<1>10. h \in TimeRange
  BY <1>3, <1>5 DEF TimeRange
<1> QED
  BY <1>7, <1>9, <1>10, Zenon DEF h

(* Time ranges that are pieces of the runs of S; and those of which every  *)
(* one of some ranges is a part.                                           *)
PieceList(s, S, step) == s \in Seq(TimeRange) /\ ArePieces(s, S, step)
HoldsRange(s, r) == \E q \in ToSet(s) : q.start <= r.start /\ r.end <= q.end
HoldsAll(s, t) == \A r \in ToSet(t) : HoldsRange(s, r)

(* What a list of time ranges has in it.                                   *)
LEMMA ElementsOf ==
    ASSUME NEW s \in Seq(TimeRange)
    PROVE  /\ Len(s) \in Nat /\ DOMAIN s = 1..Len(s)
           /\ \A i \in 1..Len(s) : s[i] \in ToSet(s) /\ s[i] \in TimeRange
           /\ \A r \in ToSet(s) : r \in TimeRange /\ \E i \in 1..Len(s) : r = s[i]
<1>1. Len(s) \in Nat /\ DOMAIN s = 1..Len(s) /\ \A i \in 1..Len(s) : s[i] \in TimeRange
  OBVIOUS
<1>2. \A r : r \in ToSet(s) <=> \E i \in 1..Len(s) : r = s[i]
  BY <1>1, Zenon DEF ToSet
<1> QED
  BY <1>1, <1>2, Zenon

(* Parts of parts are parts.                                               *)
LEMMA HeldStays ==
    ASSUME NEW s \in Seq(TimeRange), NEW t \in Seq(TimeRange), HoldsAll(s, t),
           NEW r \in TimeRange, HoldsRange(t, r)
    PROVE  HoldsRange(s, r)
<1>1. PICK q \in ToSet(t) : q.start <= r.start /\ r.end <= q.end
  BY Zenon DEF HoldsRange
<1>2. PICK p \in ToSet(s) : p.start <= q.start /\ q.end <= p.end
  BY <1>1, Zenon DEF HoldsAll, HoldsRange
<1>3. p \in TimeRange /\ q \in TimeRange
  BY ElementsOf
<1>4. p.start <= r.start /\ r.end <= p.end
  BY <1>1, <1>2, <1>3 DEF TimeRange
<1> QED
  BY <1>4, Zenon DEF HoldsRange

LEMMA HoldsItself ==
    ASSUME NEW s \in Seq(TimeRange)
    PROVE  HoldsAll(s, s)
<1>1. \A r \in ToSet(s) : r.start <= r.start /\ r.end <= r.end
  BY ElementsOf DEF TimeRange
<1> QED
  BY <1>1, Zenon DEF HoldsAll, HoldsRange

LEMMA HeldOnce ==
    ASSUME NEW s \in Seq(TimeRange), NEW t \in Seq(TimeRange), NEW u \in Seq(TimeRange),
           HoldsAll(s, t), HoldsAll(t, u)
    PROVE  HoldsAll(s, u)
<1>1. ASSUME NEW r \in ToSet(u) PROVE HoldsRange(s, r)
  <2>1. r \in TimeRange
    BY ElementsOf
  <2>2. HoldsRange(t, r)
    BY Zenon DEF HoldsAll
  <2> QED
    BY <2>1, <2>2, HeldStays
<1> QED
  BY <1>1, Zenon DEF HoldsAll

(* What is kept of a range by one more of them: it is merged into those    *)
(* that overlap it, or is one more itself if none does.                    *)
LEMMA AbsorbKeeps ==
    ASSUME NEW step \in Nat \ {0}, NEW S, S \subseteq Nat, NEW s, PieceList(s, S, step),
           NEW r \in TimeRange, IsPiece(r, S, step)
    PROVE  /\ PieceList(Absorb(s, r, step), S, step)
           /\ HoldsAll(Absorb(s, r, step), s) /\ HoldsRange(Absorb(s, r, step), r)
           /\ \/ Len(Absorb(s, r, step)) = Len(s)
              \/ /\ Absorb(s, r, step) = Append(s, r)
                 /\ \A i \in 1..Len(s) : ~Overlaps(s[i], r, step)
<1> DEFINE hit == {i \in DOMAIN s : Overlaps(s[i], r, step)}
           A == Absorb(s, r, step)
<1>1. /\ s \in Seq(TimeRange) /\ Len(s) \in Nat /\ DOMAIN s = 1..Len(s)
      /\ \A i \in 1..Len(s) : s[i] \in TimeRange /\ s[i] \in ToSet(s)
      /\ \A q \in ToSet(s) : q \in TimeRange /\ \E i \in 1..Len(s) : q = s[i]
  BY ElementsOf DEF PieceList
<1>2. \A i \in 1..Len(s) : IsPiece(s[i], S, step)
  BY <1>1, Zenon DEF PieceList, ArePieces
<1>3. CASE hit = {}
  <2>1. A = Append(s, r)
    BY <1>3, Zenon DEF Absorb
  <2>2. \A i \in 1..Len(s) : ~Overlaps(s[i], r, step)
    BY <1>1, <1>3, Zenon
  <2> HIDE DEF A, hit
  <2>3. /\ A \in Seq(TimeRange) /\ Len(A) = Len(s) + 1
        /\ \A i \in 1..Len(s) : A[i] = s[i]
        /\ A[Len(s) + 1] = r
    BY <1>1, <2>1
  <2>4. \A q \in ToSet(A) : q = r \/ q \in ToSet(s)
    <3>1. ASSUME NEW i \in 1..Len(A) PROVE A[i] = r \/ A[i] \in ToSet(s)
      <4>1. i = Len(s) + 1 \/ i \in 1..Len(s)
        BY <1>1, <2>3
      <4> QED
        BY <1>1, <2>3, <4>1
    <3>2. \A q \in ToSet(A) : \E i \in 1..Len(A) : q = A[i]
      BY <2>3, ElementsOf
    <3> QED
      BY <3>1, <3>2
  <2>5. r \in ToSet(A) /\ \A q \in ToSet(s) : q \in ToSet(A)
    <3>1. Len(s) + 1 \in 1..Len(A) /\ \A i \in 1..Len(s) : i \in 1..Len(A)
      BY <1>1, <2>3
    <3>2. \A i \in 1..Len(A) : A[i] \in ToSet(A)
      BY <2>3, ElementsOf
    <3> QED
      BY <1>1, <2>3, <3>1, <3>2
  <2>6. PieceList(A, S, step)
    BY <2>3, <2>4, Zenon DEF PieceList, ArePieces
  <2>7. r.start <= r.start /\ r.end <= r.end
    BY DEF TimeRange
  <2>8. \A q \in ToSet(s) : q.start <= q.start /\ q.end <= q.end
    BY <1>1 DEF TimeRange
  <2>9. HoldsAll(A, s) /\ HoldsRange(A, r)
    BY <2>5, <2>7, <2>8, Zenon DEF HoldsAll, HoldsRange
  <2> QED
    BY <2>1, <2>2, <2>6, <2>9, Zenon DEF A
<1>4. CASE hit # {}
  <2>1. A = [i \in 1..Len(s) |-> IF i \in hit THEN Hull(s[i], r) ELSE s[i]]
    BY <1>1, <1>4, Zenon DEF Absorb
  <2> HIDE DEF A
  <2>2. ASSUME NEW i \in hit
        PROVE  /\ A[i] \in TimeRange /\ IsPiece(A[i], S, step)
               /\ A[i].start <= s[i].start /\ s[i].end <= A[i].end
               /\ A[i].start <= r.start /\ r.end <= A[i].end
    <3>1. i \in 1..Len(s) /\ A[i] = Hull(s[i], r) /\ Overlaps(s[i], r, step)
      BY <1>1, <2>1
    <3>2. IsRange(s[i], step) /\ IsRange(r, step)
      BY <1>1, <1>2, <3>1, PieceIsRange
    <3>3. Touch(s[i], r, step)
      BY <3>1, <3>2, OverlapsOnlyTouching
    <3>4. s[i] \in TimeRange /\ IsPiece(s[i], S, step)
      BY <1>1, <1>2, <3>1
    <3> DEFINE a == s[i]
    <3>5. a \in TimeRange /\ IsPiece(a, S, step) /\ Touch(a, r, step) /\ A[i] = Hull(a, r)
      BY <3>1, <3>3, <3>4
    <3> HIDE DEF a
    <3>6. /\ Hull(a, r) \in TimeRange /\ IsPiece(Hull(a, r), S, step)
          /\ Hull(a, r).start <= a.start /\ a.end <= Hull(a, r).end
          /\ Hull(a, r).start <= r.start /\ r.end <= Hull(a, r).end
      BY <3>5, HullOfPieces
    <3> QED
      BY <3>5, <3>6, Zenon DEF a
  <2>3. ASSUME NEW i \in 1..Len(s)
        PROVE  /\ A[i] \in TimeRange /\ IsPiece(A[i], S, step)
               /\ A[i].start <= s[i].start /\ s[i].end <= A[i].end
    <3>1. CASE i \in hit
      BY <2>2, <3>1
    <3>2. CASE i \notin hit
      <4>1. A[i] = s[i]
        BY <2>1, <3>2
      <4>2. s[i].start <= s[i].start /\ s[i].end <= s[i].end
        BY <1>1 DEF TimeRange
      <4> QED
        BY <1>1, <1>2, <4>1, <4>2
    <3> QED
      BY <3>1, <3>2
  <2>4. A \in Seq(TimeRange) /\ Len(A) = Len(s)
    BY <1>1, <2>1, <2>3
  <2>5. /\ \A i \in 1..Len(s) : A[i] \in ToSet(A)
        /\ \A q \in ToSet(A) : \E i \in 1..Len(s) : q = A[i]
    BY <2>4, ElementsOf
  <2>6. PieceList(A, S, step)
    BY <2>3, <2>4, <2>5, Zenon DEF PieceList, ArePieces
  <2>7. HoldsAll(A, s)
    BY <1>1, <2>3, <2>5, Zenon DEF HoldsAll, HoldsRange
  <2>8. HoldsRange(A, r)
    <3>1. PICK i \in hit : TRUE
      BY <1>4
    <3>2. i \in 1..Len(s)
      BY <1>1
    <3> QED
      BY <2>2, <2>5, <3>2, Zenon DEF HoldsRange
  <2> HIDE DEF hit
  <2> QED
    BY <2>4, <2>6, <2>7, <2>8, Zenon DEF A
<1> QED
  BY <1>3, <1>4, Zenon

(* Ranges that follow one another: none includes another, and of three the *)
(* first and the last are more than a step apart.  Slices of two           *)
(* evaluations or more bring such ranges.                                  *)
Chain(R, step) ==
    /\ \A r \in R : r \in TimeRange /\ r.start + step <= r.end
    /\ \A a, b \in R : a # b =>
         (a.start < b.start /\ a.end < b.end) \/ (b.start < a.start /\ b.end < a.end)
    /\ \A a, b, c \in R : a.start < b.start /\ b.start < c.start => a.end + step < c.start

(* What a pass has made of the ranges D of R: each range goes from one of  *)
(* D to another, has all of R between these, and one that no other has.    *)
GrownFrom(s, lo, hi, own, D, R) ==
    /\ \A a \in 1..Len(s) : lo[a] \in D /\ hi[a] \in D /\ own[a] \in D
    /\ \A a \in 1..Len(s) :
         /\ s[a].start = lo[a].start /\ s[a].end = hi[a].end
         /\ lo[a].start <= own[a].start /\ own[a].start <= hi[a].start
    /\ \A a \in 1..Len(s), x \in R : lo[a].start <= x.start /\ x.start <= hi[a].start => x \in D
    /\ \A a, b \in 1..Len(s) : a # b => own[a] # own[b]
    /\ \A a, b \in 1..Len(s) : own[a].start < own[b].start =>
         hi[a].start < own[b].start /\ own[a].start < lo[b].start
Grown(s, D, R) == \E lo, hi, own : GrownFrom(s, lo, hi, own, D, R)

LEMMA AbsorbGrows ==
    ASSUME NEW step \in Nat \ {0}, NEW R, Chain(R, step), NEW D, D \subseteq R,
           NEW r \in R, r \notin D, NEW s \in Seq(TimeRange), Grown(s, D, R)
    PROVE  Absorb(s, r, step) \in Seq(TimeRange) /\ Grown(Absorb(s, r, step), D \cup {r}, R)
<1> DEFINE n == Len(s)
           A == Absorb(s, r, step)
           E == D \cup {r}
           hit == {i \in DOMAIN s : Overlaps(s[i], r, step)}
<1>1. PICK lo, hi, own : GrownFrom(s, lo, hi, own, D, R)
  BY Zenon DEF Grown
<1>2. n \in Nat /\ DOMAIN s = 1..n /\ \A a \in 1..n : s[a] \in TimeRange
  BY ElementsOf
<1>3. \A x \in R : x \in TimeRange /\ x.start \in Nat /\ x.end \in Nat /\ x.start + step <= x.end
  BY DEF Chain, TimeRange
<1>4. \A a, b \in R : a # b =>
         (a.start < b.start /\ a.end < b.end) \/ (b.start < a.start /\ b.end < a.end)
  BY Zenon DEF Chain
<1>5. \A a, b, c \in R : a.start < b.start /\ b.start < c.start => a.end + step < c.start
  BY Zenon DEF Chain
<1>6. /\ \A a \in 1..n : lo[a] \in D /\ hi[a] \in D /\ own[a] \in D
      /\ \A a \in 1..n :
           /\ s[a].start = lo[a].start /\ s[a].end = hi[a].end
           /\ lo[a].start <= own[a].start /\ own[a].start <= hi[a].start
      /\ \A a \in 1..n, x \in R : lo[a].start <= x.start /\ x.start <= hi[a].start => x \in D
      /\ \A a, b \in 1..n : a # b => own[a] # own[b]
      /\ \A a, b \in 1..n : own[a].start < own[b].start =>
           hi[a].start < own[b].start /\ own[a].start < lo[b].start
  BY <1>1, Zenon DEF GrownFrom
<1>7. \A x \in D : x \in R /\ x # r
  OBVIOUS
<1>8. \A x \in D :
        (x.start < r.start /\ x.end < r.end) \/ (r.start < x.start /\ r.end < x.end)
  BY <1>4, <1>7, Zenon
<1>9. \A a \in 1..n : r.start < lo[a].start \/ hi[a].start < r.start
  <2> SUFFICES ASSUME NEW a \in 1..n, ~(r.start < lo[a].start), ~(hi[a].start < r.start)
               PROVE  FALSE
    OBVIOUS
  <2>1. lo[a] \in R /\ hi[a] \in R
    BY <1>6, <1>7
  <2>2. lo[a].start <= r.start /\ r.start <= hi[a].start
    BY <1>3, <2>1
  <2> QED
    BY <1>6, <2>2
<1>10. CASE hit = {}
  <2> DEFINE lo1 == [a \in 1..(n + 1) |-> IF a = n + 1 THEN r ELSE lo[a]]
             hi1 == [a \in 1..(n + 1) |-> IF a = n + 1 THEN r ELSE hi[a]]
             own1 == [a \in 1..(n + 1) |-> IF a = n + 1 THEN r ELSE own[a]]
  <2>1. A = Append(s, r)
    BY <1>10, Zenon DEF Absorb
  <2> HIDE DEF A
  <2>2. /\ A \in Seq(TimeRange) /\ Len(A) = n + 1
        /\ \A a \in 1..n : A[a] = s[a]
        /\ A[n + 1] = r
    BY <1>2, <1>3, <2>1
  <2>3. \A a \in 1..n : lo1[a] = lo[a] /\ hi1[a] = hi[a] /\ own1[a] = own[a]
    BY <1>2
  <2>4. lo1[n + 1] = r /\ hi1[n + 1] = r /\ own1[n + 1] = r
    BY <1>2
  <2>5. \A a \in 1..(n + 1) : a \in 1..n \/ a = n + 1
    BY <1>2
  <2> HIDE DEF n, lo1, hi1, own1
  <2>6. \A a \in 1..(n + 1) : lo1[a] \in E /\ hi1[a] \in E /\ own1[a] \in E
    BY <1>6, <2>3, <2>4, <2>5
  <2>7. ASSUME NEW a \in 1..(n + 1)
        PROVE  /\ A[a].start = lo1[a].start /\ A[a].end = hi1[a].end
               /\ lo1[a].start <= own1[a].start /\ own1[a].start <= hi1[a].start
    <3>1. CASE a \in 1..n
      BY <1>6, <2>2, <2>3, <3>1
    <3>2. CASE a = n + 1
      BY <1>3, <2>2, <2>4, <3>2
    <3> QED
      BY <2>5, <3>1, <3>2
  <2>8. ASSUME NEW a \in 1..(n + 1), NEW x \in R,
               lo1[a].start <= x.start, x.start <= hi1[a].start
        PROVE  x \in E
    <3>1. CASE a \in 1..n
      BY <1>6, <2>3, <2>8, <3>1
    <3>2. CASE a = n + 1
      <4>1. x.start \in Nat /\ r.start \in Nat /\ r.start <= x.start /\ x.start <= r.start
        BY <1>3, <2>4, <2>8, <3>2
      <4>2. x = r
        BY <1>4, <4>1
      <4> QED
        BY <4>2
    <3> QED
      BY <2>5, <3>1, <3>2
  <2>9. ASSUME NEW a \in 1..(n + 1), NEW b \in 1..(n + 1), a # b
        PROVE  own1[a] # own1[b]
    BY <1>6, <1>7, <2>3, <2>4, <2>5, <2>9
  <2>10. ASSUME NEW a \in 1..(n + 1), NEW b \in 1..(n + 1), own1[a].start < own1[b].start
         PROVE  hi1[a].start < own1[b].start /\ own1[a].start < lo1[b].start
    <3>1. CASE a \in 1..n /\ b \in 1..n
      BY <1>6, <2>3, <2>10, <3>1
    <3>2. CASE a \in 1..n /\ b = n + 1
      <4>1. own[a].start < r.start
        BY <2>3, <2>4, <2>10, <3>2
      <4>2. lo[a] \in R /\ own[a] \in R /\ hi[a] \in R
        BY <1>6, <1>7, <3>2
      <4>3. lo[a].start <= own[a].start
        BY <1>6, <3>2
      <4>4. hi[a].start < r.start
        BY <1>3, <1>9, <3>2, <4>1, <4>2, <4>3
      <4> QED
        BY <2>3, <2>4, <3>2, <4>1, <4>4
    <3>3. CASE a = n + 1 /\ b \in 1..n
      <4>1. r.start < own[b].start
        BY <2>3, <2>4, <2>10, <3>3
      <4>2. lo[b] \in R /\ own[b] \in R /\ hi[b] \in R
        BY <1>6, <1>7, <3>3
      <4>3. own[b].start <= hi[b].start
        BY <1>6, <3>3
      <4>4. r.start < lo[b].start
        BY <1>3, <1>9, <3>3, <4>1, <4>2, <4>3
      <4> QED
        BY <2>3, <2>4, <3>3, <4>1, <4>4
    <3>4. CASE a = n + 1 /\ b = n + 1
      BY <1>3, <2>4, <2>10, <3>4
    <3> QED
      BY <2>5, <3>1, <3>2, <3>3, <3>4
  <2> HIDE DEF E
  <2>11. GrownFrom(A, lo1, hi1, own1, E, R)
    BY <2>2, <2>6, <2>7, <2>8, <2>9, <2>10, Zenon DEF GrownFrom
  <2> QED
    BY <2>2, <2>11, Zenon DEF Grown, A, E
<1>11. CASE hit # {}
  <2> DEFINE lo1 == [a \in 1..n |-> IF a \in hit /\ r.start < lo[a].start THEN r ELSE lo[a]]
             hi1 == [a \in 1..n |-> IF a \in hit /\ hi[a].start < r.start THEN r ELSE hi[a]]
  <2>1. A = [a \in 1..n |-> IF a \in hit THEN Hull(s[a], r) ELSE s[a]]
    BY <1>2, <1>11, Zenon DEF Absorb
  <2>2. ASSUME NEW a \in 1..n
        PROVE  /\ lo[a] \in R /\ hi[a] \in R /\ own[a] \in R
               /\ lo[a].start \in Nat /\ hi[a].start \in Nat /\ own[a].start \in Nat
               /\ hi[a].end \in Nat /\ hi[a].start + step <= hi[a].end
               /\ s[a].start = lo[a].start /\ s[a].end = hi[a].end
               /\ lo[a].start <= own[a].start /\ own[a].start <= hi[a].start
    BY <1>3, <1>6, <1>7
  <2>3. ASSUME NEW a \in hit PROVE a \in 1..n /\ Touch(s[a], r, step)
    <3>1. a \in 1..n /\ Overlaps(s[a], r, step)
      BY <1>2
    <3>2. IsRange(r, step)
      BY <1>3 DEF IsRange, TimeRange
    <3>3. s[a].start + step <= s[a].end
      BY <2>2, <3>1
    <3>4. IsRange(s[a], step)
      BY <1>2, <3>1, <3>3 DEF IsRange, TimeRange
    <3> DEFINE q == s[a]
    <3>5. IsRange(q, step) /\ Overlaps(q, r, step)
      BY <3>1, <3>4
    <3> HIDE DEF q, hit
    <3>6. Touch(q, r, step)
      BY <3>2, <3>5, OverlapsOnlyTouching
    <3> QED
      BY <3>1, <3>6 DEF q
  <2>4. ASSUME NEW a \in hit, NEW x \in R, hi[a].start < x.start, x.start < r.start
        PROVE  FALSE
    <3>1. a \in 1..n /\ r.start <= hi[a].end + step
      BY <2>2, <2>3 DEF Touch
    <3>2. hi[a].end + step < r.start
      BY <1>5, <2>2, <2>4, <3>1
    <3> QED
      BY <1>3, <2>2, <3>1, <3>2
  <2>5. ASSUME NEW a \in hit, NEW x \in R, r.start < x.start, x.start < lo[a].start
        PROVE  FALSE
    <3>1. a \in 1..n /\ lo[a].start <= r.end + step
      BY <2>2, <2>3 DEF Touch
    <3>2. r.end + step < lo[a].start
      BY <1>5, <2>2, <2>5, <3>1
    <3> QED
      BY <1>3, <2>2, <3>1, <3>2
  <2>6. \A a \in 1..n :
          /\ lo1[a] = IF a \in hit /\ r.start < lo[a].start THEN r ELSE lo[a]
          /\ hi1[a] = IF a \in hit /\ hi[a].start < r.start THEN r ELSE hi[a]
          /\ A[a] = IF a \in hit THEN Hull(s[a], r) ELSE s[a]
    <3> HIDE DEF hit, A
    <3> QED
      BY <2>1, Zenon
  <2> HIDE DEF A, hit, lo1, hi1
  <2>7. \A a \in 1..n : lo1[a] \in E /\ hi1[a] \in E /\ own[a] \in E
    BY <1>6, <2>6
  <2>8. ASSUME NEW a \in 1..n
        PROVE  /\ A[a].start = lo1[a].start /\ A[a].end = hi1[a].end
               /\ lo1[a].start <= own[a].start /\ own[a].start <= hi1[a].start
               /\ A[a] \in TimeRange
    <3>1. CASE a \notin hit
      BY <1>2, <2>2, <2>6, <3>1
    <3>2. CASE a \in hit
      <4>1. A[a] = Hull(s[a], r) /\ r.start \in Nat /\ r.end \in Nat
        BY <1>3, <2>6, <3>2
      <4>2. /\ A[a].start = IF s[a].start < r.start THEN s[a].start ELSE r.start
            /\ A[a].end = IF s[a].end > r.end THEN s[a].end ELSE r.end
            /\ A[a] = [start |-> A[a].start, end |-> A[a].end]
        BY <4>1 DEF Hull
      <4>3. /\ (lo[a].start < r.start \/ r.start < lo[a].start)
            /\ \/ hi[a].start < r.start /\ hi[a].end < r.end
               \/ r.start < hi[a].start /\ r.end < hi[a].end
        BY <1>6, <1>8
      <4>4. A[a].start = lo1[a].start
        BY <2>2, <2>6, <3>2, <4>1, <4>2, <4>3
      <4>5. A[a].end = hi1[a].end
        BY <2>2, <2>6, <3>2, <4>1, <4>2, <4>3
      <4>6. lo1[a].start <= own[a].start
        <5>1. CASE r.start < lo[a].start
          <6>1. lo1[a] = r
            BY <2>6, <3>2, <5>1
          <6> QED
            BY <2>2, <4>1, <5>1, <6>1
        <5>2. CASE ~(r.start < lo[a].start)
          <6>1. lo1[a] = lo[a]
            BY <2>6, <5>2
          <6> QED
            BY <2>2, <6>1
        <5> QED
          BY <5>1, <5>2
      <4>7. own[a].start <= hi1[a].start
        <5>1. CASE hi[a].start < r.start
          <6>1. hi1[a] = r
            BY <2>6, <3>2, <5>1
          <6> QED
            BY <2>2, <4>1, <5>1, <6>1
        <5>2. CASE ~(hi[a].start < r.start)
          <6>1. hi1[a] = hi[a]
            BY <2>6, <5>2
          <6> QED
            BY <2>2, <6>1
        <5> QED
          BY <5>1, <5>2
      <4>8. A[a].start \in Nat /\ A[a].end \in Nat
        BY <2>2, <4>1, <4>2
      <4>9. A[a] \in TimeRange
        BY <4>2, <4>8 DEF TimeRange
      <4> QED
        BY <4>4, <4>5, <4>6, <4>7, <4>9
    <3> QED
      BY <3>1, <3>2
  <2>9. A \in Seq(TimeRange) /\ Len(A) = n
    <3>1. A = [a \in 1..n |-> A[a]]
      BY <2>1
    <3> QED
      BY <1>2, <2>8, <3>1
  <2>10. ASSUME NEW a \in 1..n, NEW x \in R,
                lo1[a].start <= x.start, x.start <= hi1[a].start
         PROVE  x \in E
    <3>1. x.start \in Nat /\ r.start \in Nat
      BY <1>3
    <3>2. CASE lo[a].start <= x.start /\ x.start <= hi[a].start
      BY <1>6, <3>2
    <3>3. CASE x.start = r.start
      <4>1. x = r
        BY <1>3, <1>4, <3>3
      <4> QED
        BY <4>1
    <3>4. CASE x.start < lo[a].start /\ x.start # r.start
      <4>1. a \in hit /\ r.start < x.start
        BY <2>2, <2>6, <2>10, <3>1, <3>4
      <4> QED
        BY <2>5, <3>4, <4>1
    <3>5. CASE hi[a].start < x.start /\ x.start # r.start
      <4>1. a \in hit /\ x.start < r.start
        BY <2>2, <2>6, <2>10, <3>1, <3>5
      <4> QED
        BY <2>4, <3>5, <4>1
    <3> QED
      BY <2>2, <3>1, <3>2, <3>3, <3>4, <3>5
  <2>11. ASSUME NEW a \in 1..n, NEW b \in 1..n, own[a].start < own[b].start
         PROVE  hi1[a].start < own[b].start /\ own[a].start < lo1[b].start
    <3>1. hi[a].start < own[b].start /\ own[a].start < lo[b].start
      BY <1>6, <2>11
    <3>2. r.start \in Nat
      BY <1>3
    <3>3. /\ own[b].start < r.start \/ r.start < own[b].start
          /\ own[a].start < r.start \/ r.start < own[a].start
      BY <1>6, <1>8
    <3>4. hi1[a].start < own[b].start
      <4>1. CASE a \in hit /\ hi[a].start < r.start
        <5>1. hi1[a] = r
          BY <2>6, <4>1
        <5>2. ~(own[b].start < r.start)
          BY <2>2, <2>4, <3>1, <4>1
        <5> QED
          BY <3>3, <5>1, <5>2
      <4>2. CASE ~(a \in hit /\ hi[a].start < r.start)
        BY <2>6, <3>1, <4>2
      <4> QED
        BY <4>1, <4>2
    <3>5. own[a].start < lo1[b].start
      <4>1. CASE b \in hit /\ r.start < lo[b].start
        <5>1. lo1[b] = r
          BY <2>6, <4>1
        <5>2. ~(r.start < own[a].start)
          BY <2>2, <2>5, <3>1, <4>1
        <5> QED
          BY <3>3, <5>1, <5>2
      <4>2. CASE ~(b \in hit /\ r.start < lo[b].start)
        BY <2>6, <3>1, <4>2
      <4> QED
        BY <4>1, <4>2
    <3> QED
      BY <3>4, <3>5
  <2> HIDE DEF E
  <2>12. \A a, b \in 1..n : a # b => own[a] # own[b]
    BY <1>6, Zenon
  <2>13. GrownFrom(A, lo1, hi1, own, E, R)
    BY <2>7, <2>8, <2>9, <2>10, <2>11, <2>12, Zenon DEF GrownFrom
  <2> QED
    BY <2>9, <2>13, Zenon DEF Grown, A, E
<1> QED
  BY <1>10, <1>11

(* What a pass makes of such ranges are such ranges, no two the same.      *)
LEMMA GrownIsChain ==
    ASSUME NEW step \in Nat \ {0}, NEW R, Chain(R, step), NEW D, D \subseteq R,
           NEW s \in Seq(TimeRange), Grown(s, D, R)
    PROVE  Chain(ToSet(s), step) /\ IsInjective(s)
<1> DEFINE n == Len(s)
<1>1. PICK lo, hi, own : GrownFrom(s, lo, hi, own, D, R)
  BY Zenon DEF Grown
<1>2. /\ n \in Nat /\ DOMAIN s = 1..n
      /\ \A a \in 1..n : s[a] \in TimeRange
      /\ \A r \in ToSet(s) : \E a \in 1..n : r = s[a]
  BY ElementsOf
<1>3. \A x \in R : x \in TimeRange /\ x.start \in Nat /\ x.end \in Nat /\ x.start + step <= x.end
  BY DEF Chain, TimeRange
<1>4. \A a, b \in R : a # b =>
         (a.start < b.start /\ a.end < b.end) \/ (b.start < a.start /\ b.end < a.end)
  BY Zenon DEF Chain
<1>5. \A a, b, c \in R : a.start < b.start /\ b.start < c.start => a.end + step < c.start
  BY Zenon DEF Chain
<1>6. /\ \A a, b \in 1..n : a # b => own[a] # own[b]
      /\ \A a, b \in 1..n : own[a].start < own[b].start =>
           hi[a].start < own[b].start /\ own[a].start < lo[b].start
  BY <1>1, Zenon DEF GrownFrom
<1>7. ASSUME NEW a \in 1..n
      PROVE  /\ lo[a] \in R /\ hi[a] \in R /\ own[a] \in R
             /\ s[a].start = lo[a].start /\ s[a].end = hi[a].end
             /\ lo[a].start <= own[a].start /\ own[a].start <= hi[a].start
  BY <1>1 DEF GrownFrom
<1> HIDE DEF n
<1>8. ASSUME NEW a \in 1..n, NEW b \in 1..n, own[a].start < own[b].start
      PROVE  s[a].start < s[b].start /\ s[a].end < s[b].end
  <2>1. /\ lo[a] \in R /\ hi[a] \in R /\ own[a] \in R
        /\ lo[b] \in R /\ hi[b] \in R /\ own[b] \in R
    BY <1>7
  <2>2. hi[a].start < own[b].start /\ own[a].start < lo[b].start
    BY <1>6, <1>8
  <2>3. lo[a].start < lo[b].start
    <3>1. lo[a].start <= own[a].start
      BY <1>7
    <3> QED
      BY <1>3, <2>1, <2>2, <3>1
  <2>4. hi[a].start < hi[b].start
    <3>1. own[b].start <= hi[b].start
      BY <1>7
    <3> QED
      BY <1>3, <2>1, <2>2, <3>1
  <2>5. hi[a].end < hi[b].end
    <3>1. hi[a].start \in Nat /\ hi[b].start \in Nat
      BY <1>3, <2>1
    <3>2. hi[a] # hi[b] /\ ~(hi[b].start < hi[a].start)
      BY <2>4, <3>1
    <3> QED
      BY <1>4, <2>1, <3>2, Zenon
  <2> QED
    BY <1>7, <2>3, <2>5
<1>9. ASSUME NEW a \in 1..n, NEW b \in 1..n, a # b
      PROVE  own[a].start < own[b].start \/ own[b].start < own[a].start
  BY <1>4, <1>6, <1>7, <1>9
<1>10. ASSUME NEW a \in 1..n, NEW b \in 1..n, s[a].start < s[b].start
       PROVE  own[a].start < own[b].start
  <2>1. s[a].start \in Nat /\ s[b].start \in Nat
    BY <1>2 DEF TimeRange
  <2>2. a # b
    BY <1>10, <2>1
  <2>3. ~(own[b].start < own[a].start)
    <3> SUFFICES ASSUME own[b].start < own[a].start PROVE FALSE
      OBVIOUS
    <3>1. s[b].start < s[a].start
      BY <1>8
    <3> QED
      BY <1>10, <2>1, <3>1
  <2> QED
    BY <1>9, <2>2, <2>3
<1>11. \A r \in ToSet(s) : r \in TimeRange /\ r.start + step <= r.end
  <2>1. ASSUME NEW a \in 1..n PROVE s[a].start + step <= s[a].end
    <3>1. lo[a] \in R /\ hi[a] \in R /\ own[a] \in R
      BY <1>7
    <3>2. lo[a].start <= hi[a].start
      BY <1>3, <1>7, <3>1
    <3>3. lo[a].start + step <= hi[a].end
      BY <1>3, <3>1, <3>2
    <3> QED
      BY <1>7, <3>3
  <2> QED
    BY <1>2, <2>1
<1>12. \A a, b \in 1..n : a # b =>
         \/ s[a].start < s[b].start /\ s[a].end < s[b].end
         \/ s[b].start < s[a].start /\ s[b].end < s[a].end
  BY <1>8, <1>9, Zenon
<1>13. ASSUME NEW p \in ToSet(s), NEW q \in ToSet(s), p # q
       PROVE  (p.start < q.start /\ p.end < q.end) \/ (q.start < p.start /\ q.end < p.end)
  BY <1>2, <1>12, <1>13, Zenon
<1>14. ASSUME NEW p \in ToSet(s), NEW q \in ToSet(s), NEW r \in ToSet(s),
              p.start < q.start, q.start < r.start
       PROVE  p.end + step < r.start
  <2>1. PICK a \in 1..n : p = s[a]
    BY <1>2
  <2>2. PICK b \in 1..n : q = s[b]
    BY <1>2
  <2>3. PICK c \in 1..n : r = s[c]
    BY <1>2
  <2>4. own[a].start < own[b].start /\ own[b].start < own[c].start
    BY <1>10, <1>14, <2>1, <2>2, <2>3
  <2>5. hi[a].start < own[b].start /\ own[b].start < lo[c].start
    BY <1>6, <2>4
  <2>6. hi[a].end + step < lo[c].start
    BY <1>5, <1>7, <2>5
  <2> QED
    BY <1>7, <2>1, <2>3, <2>6
<1>15. Chain(ToSet(s), step)
  BY <1>11, <1>13, <1>14, Zenon DEF Chain
<1>16. IsInjective(s)
  <2>1. \A a, b \in 1..n : s[a] = s[b] => a = b
    <3> SUFFICES ASSUME NEW a \in 1..n, NEW b \in 1..n, a # b, s[a] = s[b] PROVE FALSE
      OBVIOUS
    <3>1. s[a].start < s[b].start \/ s[b].start < s[a].start
      BY <1>12
    <3>2. s[a].start \in Nat
      BY <1>2 DEF TimeRange
    <3> QED
      BY <3>1, <3>2
  <2> QED
    BY <1>2, <2>1, Zenon DEF IsInjective
<1> QED
  BY <1>15, <1>16

(* What MergeRanges has after each of its ranges up to the m-th.           *)
MergedUpTo(f, s, step, m) ==
    f = [i \in 0..m |-> IF i = 0 THEN <<>> ELSE Absorb(f[i - 1], s[i], step)]

(* There are such ranges: Pass is a recursive function.                    *)
LEMMA MergedUpToExist ==
    ASSUME NEW s, NEW step, NEW m \in Nat
    PROVE  \E f : MergedUpTo(f, s, step, m)
<1> DEFINE T == {k \in Nat : \E f : MergedUpTo(f, s, step, k)}
<1>1. 0 \in T
  <2>1. MergedUpTo([i \in 0..0 |-> <<>>], s, step, 0)
    BY DEF MergedUpTo
  <2> QED
    BY <2>1
<1>2. ASSUME NEW k \in Nat, k \in T PROVE k + 1 \in T
  <2>1. PICK f : MergedUpTo(f, s, step, k)
    BY <1>2
  <2> DEFINE next == Absorb(f[k], s[k + 1], step)
             h == [i \in 0..(k + 1) |-> IF i = k + 1 THEN next ELSE f[i]]
  <2> HIDE DEF next
  <2>2. ASSUME NEW i \in 0..(k + 1)
        PROVE  h[i] = IF i = 0 THEN <<>> ELSE Absorb(h[i - 1], s[i], step)
    <3>1. CASE i = k + 1
      <4>1. i # 0 /\ i - 1 = k /\ h[i] = next /\ h[k] = f[k]
        BY <3>1
      <4> HIDE DEF h
      <4> QED
        BY <3>1, <4>1 DEF next
    <3>2. CASE i = 0
      <4>1. h[i] = f[i]
        BY <3>2
      <4>2. f[i] = <<>>
        BY <2>1, <3>2 DEF MergedUpTo
      <4> QED
        BY <3>2, <4>1, <4>2
    <3>3. CASE i # k + 1 /\ i # 0
      <4>1. i \in 0..k /\ h[i] = f[i] /\ h[i - 1] = f[i - 1]
        BY <3>3
      <4>2. f[i] = Absorb(f[i - 1], s[i], step)
        BY <2>1, <3>3, <4>1, Zenon DEF MergedUpTo
      <4> HIDE DEF h
      <4> QED
        BY <3>3, <4>1, <4>2
    <3> QED
      BY <3>1, <3>2, <3>3
  <2>3. h = [i \in 0..(k + 1) |-> IF i = 0 THEN <<>> ELSE Absorb(h[i - 1], s[i], step)]
    BY <2>2, Zenon
  <2> HIDE DEF h
  <2> QED
    BY <2>3 DEF MergedUpTo
<1> HIDE DEF T
<1>3. m \in T
  BY <1>1, <1>2, SetInduction
<1> QED
  BY <1>3 DEF T

(* A list of such ranges, no two of them the same; and one of which no two *)
(* touch.                                                                  *)
IsChain(s, step) == IsInjective(s) /\ Chain(ToSet(s), step)
Untouched(s, step) == \A p, q \in ToSet(s) : p # q => ~Touch(p, q, step)

(* A pass of MergeRanges makes such ranges of such ranges.                 *)
LEMMA PassChains ==
    ASSUME NEW step \in Nat \ {0}, NEW s \in Seq(TimeRange), IsChain(s, step)
    PROVE  IsChain(Pass(s, step), step)
<1> DEFINE n == Len(s)
           R == ToSet(s)
           F == CHOOSE f : MergedUpTo(f, s, step, n)
           First(i) == {s[j] : j \in 1..i}
           P == Pass(s, step)
<1>1. /\ n \in Nat /\ DOMAIN s = 1..n
      /\ \A i \in 1..n : s[i] \in R /\ s[i] \in TimeRange
  BY ElementsOf
<1>2. /\ Chain(R, step)
      /\ \A i, j \in 1..n : s[i] = s[j] => i = j
  BY <1>1, Zenon DEF IsChain, IsInjective
<1> HIDE DEF R
<1>3. P = F[n]
  BY Zenon DEF Pass, MergedUpTo
<1> HIDE DEF P
<1>4. \A i \in 0..n : F[i] = IF i = 0 THEN <<>> ELSE Absorb(F[i - 1], s[i], step)
  <2>1. \E f : MergedUpTo(f, s, step, n)
    BY <1>1, MergedUpToExist
  <2>2. MergedUpTo(F, s, step, n)
    BY <2>1, Zenon
  <2> HIDE DEF F, n
  <2> QED
    BY <2>2, Zenon DEF MergedUpTo
<1> HIDE DEF F
<1> DEFINE T == {i \in Nat : i <= n => F[i] \in Seq(TimeRange) /\ Grown(F[i], First(i), R)}
<1>5. 0 \in T
  <2>1. F[0] = <<>> /\ First(0) = {} /\ <<>> \in Seq(TimeRange)
    BY <1>1, <1>4
  <2>2. GrownFrom(<<>>, <<>>, <<>>, <<>>, {}, R)
    BY DEF GrownFrom
  <2>3. Grown(<<>>, {}, R)
    BY <2>2, Zenon DEF Grown
  <2> HIDE DEF First
  <2> QED
    BY <2>1, <2>3
<1>6. ASSUME NEW i \in Nat, i \in T PROVE i + 1 \in T
  <2> SUFFICES ASSUME i + 1 <= n
               PROVE  F[i + 1] \in Seq(TimeRange) /\ Grown(F[i + 1], First(i + 1), R)
    OBVIOUS
  <2>1. i <= n /\ i + 1 \in 1..n /\ i + 1 \in 0..n /\ i + 1 # 0 /\ (i + 1) - 1 = i
    BY <1>1
  <2>2. F[i] \in Seq(TimeRange) /\ Grown(F[i], First(i), R)
    BY <1>6, <2>1
  <2>3. F[i + 1] = Absorb(F[i], s[i + 1], step)
    BY <1>4, <2>1, Zenon
  <2>4. First(i + 1) = First(i) \cup {s[i + 1]}
    <3>1. \A j : j \in 1..(i + 1) <=> j \in 1..i \/ j = i + 1
      OBVIOUS
    <3> QED
      BY <3>1, Zenon
  <2>5. First(i) \subseteq R
    BY <1>1, <2>1
  <2>6. s[i + 1] \in R /\ s[i + 1] \notin First(i)
    <3>1. \A j \in 1..i : j \in 1..n /\ j # i + 1
      BY <1>1, <2>1
    <3> QED
      BY <1>1, <1>2, <2>1, <3>1, Zenon
  <2> DEFINE r == s[i + 1]
             D == First(i)
             q == F[i]
  <2>7. /\ q \in Seq(TimeRange) /\ Grown(q, D, R)
        /\ D \subseteq R /\ r \in R /\ r \notin D
    BY <2>2, <2>5, <2>6
  <2> HIDE DEF T, D, r, q, First
  <2>8. Absorb(q, r, step) \in Seq(TimeRange) /\ Grown(Absorb(q, r, step), D \cup {r}, R)
    BY <1>2, <2>7, AbsorbGrows
  <2> QED
    BY <2>3, <2>4, <2>8 DEF D, r, q
<1>7. n \in T
  <2> HIDE DEF T, n
  <2> QED
    BY <1>1, <1>5, <1>6, SetInduction
<1>8. P \in Seq(TimeRange) /\ Grown(P, First(n), R) /\ First(n) \subseteq R
  <2>1. First(n) \subseteq R
    BY <1>1
  <2> HIDE DEF First
  <2> QED
    BY <1>1, <1>3, <1>7, <2>1
<1> HIDE DEF First
<1>9. Chain(ToSet(P), step) /\ IsInjective(P)
  BY <1>2, <1>8, GrownIsChain
<1> QED
  BY <1>9 DEF P, IsChain

(* If none of them overlaps a later one no two of them touch: Overlaps     *)
(* overlooks only ranges that another includes.                            *)
LEMMA ChainUntouched ==
    ASSUME NEW step \in Nat \ {0}, NEW s \in Seq(TimeRange), IsChain(s, step),
           \A a, b \in 1..Len(s) : a < b => ~Overlaps(s[a], s[b], step)
    PROVE  Untouched(s, step)
<1> SUFFICES ASSUME NEW p \in ToSet(s), NEW q \in ToSet(s), p # q, Touch(p, q, step)
             PROVE  FALSE
  BY DEF Untouched
<1>1. \A r \in ToSet(s) : IsRange(r, step)
  BY DEF IsChain, Chain, IsRange, TimeRange
<1>2. \A r \in ToSet(s) : r.start \in Nat /\ r.end \in Nat
  BY ElementsOf DEF TimeRange
<1>3. (p.start < q.start /\ p.end < q.end) \/ (q.start < p.start /\ q.end < p.end)
  BY Zenon DEF IsChain, Chain
<1>4. Touch(q, p, step)
  BY <1>2 DEF Touch
<1>5. ~Aligned(p, q, step) /\ ~Aligned(q, p, step)
  BY <1>2, <1>3 DEF Aligned
<1>6. Overlaps(p, q, step) /\ Overlaps(q, p, step)
  BY <1>1, <1>4, <1>5, OverlapsMissesAligned
<1>7. PICK a \in 1..Len(s) : p = s[a]
  BY ElementsOf
<1>8. PICK b \in 1..Len(s) : q = s[b]
  BY ElementsOf
<1>9. a < b \/ b < a
  <2>1. a # b /\ a \in Int /\ b \in Int
    BY <1>7, <1>8
  <2> QED
    BY <2>1
<1> QED
  BY <1>6, <1>7, <1>8, <1>9, Zenon

(* A pass of MergeRanges that leaves as many ranges as there were found no *)
(* two of them that overlap.                                               *)
PassUpTo(p, s, S, step, i) ==
    /\ PieceList(p, S, step)
    /\ \A j \in 1..i : HoldsRange(p, s[j])
    /\ Len(p) <= i
    /\ Len(p) = i =>
          /\ \A j \in 1..i : p[j] = s[j]
          /\ \A a, b \in 1..i : a < b => ~Overlaps(s[a], s[b], step)

(* One more range keeps this true.                                         *)
LEMMA PassGoesOn ==
    ASSUME NEW step \in Nat \ {0}, NEW S, S \subseteq Nat, NEW s, PieceList(s, S, step),
           NEW i \in Nat, i + 1 \in 1..Len(s), NEW p, PassUpTo(p, s, S, step, i)
    PROVE  PassUpTo(Absorb(p, s[i + 1], step), s, S, step, i + 1)
<1> DEFINE r == s[i + 1]
           A == Absorb(p, r, step)
<1>1. s \in Seq(TimeRange) /\ r \in TimeRange /\ IsPiece(r, S, step)
  BY ElementsOf DEF PieceList, ArePieces
<1>2. PieceList(p, S, step) /\ p \in Seq(TimeRange) /\ Len(p) \in Nat /\ Len(p) <= i
  BY ElementsOf DEF PassUpTo, PieceList
<1>3. /\ \A j \in 1..i : HoldsRange(p, s[j])
      /\ Len(p) = i =>
          /\ \A j \in 1..i : p[j] = s[j]
          /\ \A a, b \in 1..i : a < b => ~Overlaps(s[a], s[b], step)
  BY Zenon DEF PassUpTo
<1>4. \A j \in 1..(i + 1) : j \in 1..i \/ j = i + 1
  OBVIOUS
<1> HIDE DEF r
<1>5. /\ PieceList(A, S, step) /\ HoldsAll(A, p) /\ HoldsRange(A, r)
      /\ \/ Len(A) = Len(p)
         \/ A = Append(p, r) /\ \A k \in 1..Len(p) : ~Overlaps(p[k], r, step)
  BY <1>1, <1>2, AbsorbKeeps
<1> HIDE DEF A
<1>6. \A j \in 1..(i + 1) : HoldsRange(A, s[j])
  <2>1. ASSUME NEW j \in 1..i PROVE HoldsRange(A, s[j])
    <3>1. A \in Seq(TimeRange)
      BY <1>5 DEF PieceList
    <3>2. Len(s) \in Nat /\ j \in 1..Len(s)
      BY <1>1, ElementsOf
    <3>3. s[j] \in TimeRange
      BY <1>1, <3>2, ElementsOf
    <3>4. HoldsRange(p, s[j])
      BY <1>3
    <3> QED
      BY <1>2, <1>5, <3>1, <3>3, <3>4, HeldStays
  <2> QED
    BY <1>4, <1>5, <2>1, Zenon DEF r
<1>7. Len(A) <= i + 1
  <2>1. CASE Len(A) = Len(p)
    BY <1>2, <2>1
  <2>2. CASE A = Append(p, r)
    <3>1. Len(A) = Len(p) + 1
      BY <1>2, <2>2
    <3> QED
      BY <1>2, <3>1
  <2> QED
    BY <1>5, <2>1, <2>2
<1>8. ASSUME Len(A) = i + 1
      PROVE  /\ \A j \in 1..(i + 1) : A[j] = s[j]
             /\ \A a, b \in 1..(i + 1) : a < b => ~Overlaps(s[a], s[b], step)
  <2>1. A = Append(p, r) /\ \A k \in 1..Len(p) : ~Overlaps(p[k], r, step)
    <3>1. Len(A) # Len(p)
      BY <1>2, <1>8
    <3> QED
      BY <1>5, <3>1
  <2>2. Len(p) = i
    <3>1. Len(A) = Len(p) + 1
      BY <1>2, <2>1
    <3> QED
      BY <1>2, <1>8, <3>1
  <2>3. A[i + 1] = r /\ \A j \in 1..i : A[j] = p[j]
    BY <1>1, <1>2, <2>1, <2>2
  <2>4. \A j \in 1..(i + 1) : A[j] = s[j]
    BY <1>3, <1>4, <2>2, <2>3, Zenon DEF r
  <2>5. ASSUME NEW a \in 1..(i + 1), NEW b \in 1..(i + 1), a < b
        PROVE  ~Overlaps(s[a], s[b], step)
    <3>1. a \in 1..i
      BY <2>5
    <3>2. CASE b \in 1..i
      BY <1>3, <2>2, <2>5, <3>1, <3>2, Zenon
    <3>3. CASE b = i + 1
      <4>1. ~Overlaps(p[a], r, step) /\ p[a] = s[a]
        BY <1>3, <2>1, <2>2, <3>1, Zenon
      <4> QED
        BY <3>3, <4>1, Zenon DEF r
    <3> QED
      BY <1>4, <3>2, <3>3
  <2> QED
    BY <2>4, <2>5, Zenon
<1>9. PassUpTo(A, s, S, step, i + 1)
  BY <1>5, <1>6, <1>7, <1>8, Zenon DEF PassUpTo
<1> QED
  BY <1>9, Zenon DEF A, r

(* A pass loses no time of the ranges it is given, and when it merges      *)
(* none of them no range follows another.                                  *)
LEMMA PassKeeps ==
    ASSUME NEW step \in Nat \ {0}, NEW S, S \subseteq Nat, NEW s, PieceList(s, S, step)
    PROVE  /\ PieceList(Pass(s, step), S, step) /\ HoldsAll(Pass(s, step), s)
           /\ Len(Pass(s, step)) <= Len(s)
           /\ Len(Pass(s, step)) = Len(s) =>
                 /\ NoneFollows(s, step)
                 /\ \A a, b \in 1..Len(s) : a < b => ~Overlaps(s[a], s[b], step)
<1> DEFINE n == Len(s)
           F == CHOOSE f : MergedUpTo(f, s, step, n)
           P == Pass(s, step)
<1>1. s \in Seq(TimeRange) /\ n \in Nat
  BY ElementsOf DEF PieceList
<1>2. P = F[n]
  BY Zenon DEF Pass, MergedUpTo
<1> HIDE DEF P
<1>3. \A i \in 0..n : F[i] = IF i = 0 THEN <<>> ELSE Absorb(F[i - 1], s[i], step)
  <2>1. \E f : MergedUpTo(f, s, step, n)
    BY <1>1, MergedUpToExist
  <2>2. MergedUpTo(F, s, step, n)
    BY <2>1, Zenon
  <2> HIDE DEF F, n
  <2> QED
    BY <2>2, Zenon DEF MergedUpTo
<1> HIDE DEF F
<1> DEFINE T == {i \in Nat : i <= n => PassUpTo(F[i], s, S, step, i)}
<1>4. 0 \in T
  <2>1. F[0] = <<>>
    BY <1>1, <1>3
  <2>2. PassUpTo(<<>>, s, S, step, 0)
    BY DEF PassUpTo, PieceList, ArePieces, ToSet
  <2> QED
    BY <2>1, <2>2
<1>5. ASSUME NEW i \in Nat, i \in T PROVE i + 1 \in T
  <2> SUFFICES ASSUME i + 1 <= n PROVE PassUpTo(F[i + 1], s, S, step, i + 1)
    OBVIOUS
  <2>1. i <= n /\ i + 1 \in 1..Len(s) /\ i + 1 \in 0..n /\ i + 1 # 0 /\ (i + 1) - 1 = i
    BY <1>1
  <2>2. PassUpTo(F[i], s, S, step, i)
    BY <1>5, <2>1
  <2>3. F[i + 1] = Absorb(F[i], s[i + 1], step)
    BY <1>3, <2>1, Zenon
  <2> HIDE DEF T, n
  <2> QED
    BY <2>1, <2>2, <2>3, PassGoesOn
<1>6. n \in T
  <2> HIDE DEF T, n
  <2> QED
    BY <1>1, <1>4, <1>5, SetInduction
<1>7. PassUpTo(P, s, S, step, n)
  BY <1>1, <1>2, <1>6
<1>8. HoldsAll(P, s)
  <2>1. \A r \in ToSet(s) : \E j \in 1..n : r = s[j]
    BY <1>1, ElementsOf
  <2> QED
    BY <1>7, <2>1, Zenon DEF PassUpTo, HoldsAll
<1>9. ASSUME Len(P) = n PROVE NoneFollows(s, step)
  <2> SUFFICES ASSUME NEW r \in ToSet(s), NEW q \in ToSet(s),
                      r.end < q.start, q.start <= r.end + step
               PROVE  FALSE
    BY DEF NoneFollows
  <2>1. PICK a \in 1..n : r = s[a]
    BY <1>1, ElementsOf
  <2>2. PICK b \in 1..n : q = s[b]
    BY <1>1, ElementsOf
  <2>3. \A i, j \in 1..n : i < j => ~Overlaps(s[i], s[j], step)
    BY <1>7, <1>9, Zenon DEF PassUpTo
  <2>4. /\ r.start \in Nat /\ r.end \in Nat /\ r.start + step <= r.end
        /\ q.start \in Nat /\ q.end \in Nat /\ q.start + step <= q.end
    BY <1>1, ElementsOf DEF PieceList, ArePieces, IsPiece, TimeRange
  <2>5. Overlaps(r, q, step) /\ Overlaps(q, r, step)
    BY <2>4 DEF Overlaps, Near
  <2>6. a # b
    BY <2>1, <2>2, <2>4
  <2>7. a < b \/ b < a
    BY <1>1, <2>6
  <2> QED
    BY <2>1, <2>2, <2>3, <2>5, <2>7, Zenon
<1> QED
  BY <1>7, <1>8, <1>9, Zenon DEF P, PassUpTo, n

(* Min is what its name says.                                              *)
LEMMA LeastOf ==
    ASSUME NEW S, S \subseteq Nat, S # {}
    PROVE  Min(S) \in S /\ \A x \in S : Min(S) <= x
<1>1. \E x \in S : \A y \in S : x <= y
  BY LeastExists
<1> QED
  BY <1>1, Zenon DEF Min

InOrder(s) == \A i, j \in 1..Len(s) : i < j => s[i].start <= s[j].start

(* Sorting keeps the ranges it is given, and puts them in order.           *)
LEMMA InsertKeeps ==
    ASSUME NEW s \in Seq(TimeRange), NEW r \in TimeRange
    PROVE  /\ Insert(s, r) \in Seq(TimeRange) /\ Len(Insert(s, r)) = Len(s) + 1
           /\ ToSet(Insert(s, r)) = ToSet(s) \cup {r}
           /\ InOrder(s) => InOrder(Insert(s, r))
           /\ IsInjective(s) /\ r \notin ToSet(s) => IsInjective(Insert(s, r))
<1> DEFINE n == Len(s)
           places == {i \in 1..(n + 1) : i > n \/ s[i].start > r.start}
           place == Min(places)
           I == Insert(s, r)
<1>1. /\ n \in Nat
      /\ \A i \in 1..n : s[i] \in ToSet(s) /\ s[i] \in TimeRange
      /\ \A q \in ToSet(s) : \E i \in 1..n : q = s[i]
  BY ElementsOf
<1>2. /\ place \in 1..(n + 1)
      /\ place > n \/ s[place].start > r.start
      /\ \A i \in 1..n : i < place => ~(s[i].start > r.start)
  <2>1. places \subseteq Nat /\ n + 1 \in places
    BY <1>1
  <2>2. place \in places /\ \A i \in places : place <= i
    <3> HIDE DEF places
    <3> QED
      BY <2>1, LeastOf
  <2> HIDE DEF place
  <2>3. place \in 1..(n + 1) /\ (place > n \/ s[place].start > r.start)
    BY <2>2
  <2>4. ASSUME NEW i \in 1..n, i < place PROVE ~(s[i].start > r.start)
    <3>1. i \in 1..(n + 1) /\ ~(place <= i)
      BY <1>1, <2>3, <2>4
    <3> QED
      BY <2>2, <3>1
  <2> QED
    BY <2>3, <2>4
<1>3. I = [i \in 1..(n + 1) |-> IF i < place THEN s[i] ELSE IF i = place THEN r ELSE s[i - 1]]
  BY Zenon DEF Insert
<1> HIDE DEF I, place, n
<1>4. \A i \in 1..(n + 1) : I[i] = r \/ \E j \in 1..n : I[i] = s[j]
  <2> SUFFICES ASSUME NEW i \in 1..(n + 1), i # place PROVE \E j \in 1..n : I[i] = s[j]
    BY <1>2, <1>3
  <2>1. CASE i < place
    <3>1. i \in 1..n /\ I[i] = s[i]
      BY <1>1, <1>2, <1>3, <2>1
    <3> QED
      BY <3>1
  <2>2. CASE ~(i < place)
    <3>1. i - 1 \in 1..n /\ I[i] = s[i - 1]
      BY <1>1, <1>2, <1>3, <2>2
    <3> QED
      BY <3>1
  <2> QED
    BY <2>1, <2>2
<1>5. \A j \in 1..n : \E i \in 1..(n + 1) : I[i] = s[j]
  <2> SUFFICES ASSUME NEW j \in 1..n PROVE \E i \in 1..(n + 1) : I[i] = s[j]
    OBVIOUS
  <2>1. CASE j < place
    <3>1. j \in 1..(n + 1) /\ I[j] = s[j]
      BY <1>1, <1>2, <1>3, <2>1
    <3> QED
      BY <3>1
  <2>2. CASE ~(j < place)
    <3>1. j + 1 \in 1..(n + 1) /\ ~(j + 1 < place) /\ j + 1 # place /\ (j + 1) - 1 = j
      BY <1>1, <1>2, <2>2
    <3>2. I[j + 1] = s[j]
      BY <1>3, <3>1
    <3> QED
      BY <3>1, <3>2
  <2> QED
    BY <2>1, <2>2
<1>6. I[place] = r
  BY <1>2, <1>3
<1>7. \A i \in 1..(n + 1) : I[i] \in TimeRange
  BY <1>1, <1>4
<1>8. I \in Seq(TimeRange) /\ Len(I) = n + 1
  BY <1>1, <1>3, <1>7
<1>9. /\ \A i \in 1..(n + 1) : I[i] \in ToSet(I)
      /\ \A q \in ToSet(I) : \E i \in 1..(n + 1) : q = I[i]
  BY <1>8, ElementsOf
<1>10. ToSet(I) = ToSet(s) \cup {r}
  <2>1. ASSUME NEW q \in ToSet(I) PROVE q \in ToSet(s) \cup {r}
    BY <1>1, <1>4, <1>9
  <2>2. ASSUME NEW q \in ToSet(s) PROVE q \in ToSet(I)
    BY <1>1, <1>5, <1>9
  <2>3. r \in ToSet(I)
    BY <1>2, <1>6, <1>9
  <2> QED
    BY <2>1, <2>2, <2>3
<1>11. \A i \in 1..(n + 1) :
         \/ i < place /\ i \in 1..n /\ I[i] = s[i]
         \/ i = place /\ I[i] = r
         \/ i > place /\ i - 1 \in 1..n /\ I[i] = s[i - 1]
  <2> SUFFICES ASSUME NEW i \in 1..(n + 1)
               PROVE  \/ i < place /\ i \in 1..n /\ I[i] = s[i]
                      \/ i = place /\ I[i] = r
                      \/ i > place /\ i - 1 \in 1..n /\ I[i] = s[i - 1]
    OBVIOUS
  <2>1. /\ i < place => i \in 1..n
        /\ i > place => i - 1 \in 1..n
        /\ i < place \/ i = place \/ i > place
        /\ i > place => ~(i < place) /\ i # place
        /\ i = place => ~(i < place)
    BY <1>1, <1>2
  <2> QED
    BY <1>3, <2>1, Zenon
<1>12. ASSUME InOrder(s) PROVE InOrder(I)
  <2>1. \A i, j \in 1..n : i < j => s[i].start <= s[j].start
    BY <1>12, Zenon DEF InOrder, n
  <2>2. /\ \A i \in 1..n : s[i].start \in Nat
        /\ r.start \in Nat
    BY <1>1 DEF TimeRange
  <2>3. ASSUME NEW i \in 1..(n + 1), NEW j \in 1..(n + 1), i < j
        PROVE  I[i].start <= I[j].start
    <3>1. CASE i < place
      <4>1. i \in 1..n /\ I[i] = s[i] /\ s[i].start <= r.start
        BY <1>2, <1>11, <2>2, <3>1
      <4>2. CASE j < place
        BY <1>1, <1>2, <1>11, <2>1, <2>3, <4>1, <4>2
      <4>3. CASE j = place
        BY <1>1, <1>2, <1>11, <4>1, <4>3
      <4>4. CASE j > place
        <5>1. j - 1 \in 1..n /\ I[j] = s[j - 1] /\ i < j - 1
          BY <1>1, <1>2, <1>11, <3>1, <4>4
        <5> QED
          BY <2>1, <4>1, <5>1
      <4> QED
        BY <1>1, <1>2, <4>2, <4>3, <4>4
    <3>2. CASE ~(i < place)
      <4>1. j > place /\ j - 1 \in 1..n /\ I[j] = s[j - 1]
        BY <1>1, <1>2, <1>11, <2>3, <3>2
      <4>2. CASE i = place
        <5>1. I[i] = r /\ place \in 1..n /\ place <= j - 1
          BY <1>1, <1>2, <1>11, <4>1, <4>2
        <5>2. r.start < s[place].start
          BY <1>1, <1>2, <2>2, <5>1
        <5>3. s[place].start <= s[j - 1].start
          BY <2>1, <2>2, <4>1, <5>1
        <5>4. s[place].start \in Nat /\ s[j - 1].start \in Nat
          BY <2>2, <4>1, <5>1
        <5>5. r.start <= s[j - 1].start
          BY <2>2, <5>2, <5>3, <5>4
        <5> QED
          BY <4>1, <5>1, <5>5
      <4>3. CASE i > place
        <5>1. i - 1 \in 1..n /\ I[i] = s[i - 1] /\ i - 1 < j - 1
          BY <1>1, <1>2, <1>11, <2>3, <4>3
        <5> QED
          BY <2>1, <4>1, <5>1
      <4> QED
        BY <1>1, <1>2, <3>2, <4>2, <4>3
    <3> QED
      BY <3>1, <3>2
  <2> QED
    BY <1>8, <2>3, Zenon DEF InOrder
<1>13. ASSUME IsInjective(s), r \notin ToSet(s) PROVE IsInjective(I)
  <2>1. \A i, j \in 1..n : s[i] = s[j] => i = j
    <3>1. DOMAIN s = 1..n
      BY DEF n
    <3> QED
      BY <1>13, <3>1, Zenon DEF IsInjective
  <2>2. \A i \in 1..n : s[i] # r
    BY <1>1, <1>13
  <2>3. ASSUME NEW i \in 1..(n + 1), NEW j \in 1..(n + 1), i < j, I[i] = I[j]
        PROVE  FALSE
    <3>1. CASE i < place
      <4>1. i \in 1..n /\ I[i] = s[i]
        BY <1>1, <1>2, <1>11, <3>1
      <4>2. j < place
        <5>1. j # place
          <6> SUFFICES ASSUME j = place PROVE FALSE
            OBVIOUS
          <6>1. I[j] = r
            BY <1>1, <1>2, <1>11
          <6> QED
            BY <2>2, <2>3, <4>1, <6>1, Zenon
        <5>2. ~(j > place)
          <6> SUFFICES ASSUME j > place PROVE FALSE
            OBVIOUS
          <6>1. j - 1 \in 1..n /\ I[j] = s[j - 1] /\ i # j - 1
            BY <1>1, <1>2, <1>11, <3>1
          <6> QED
            BY <2>1, <2>3, <4>1, <6>1, Zenon
        <5> QED
          BY <1>1, <1>2, <5>1, <5>2
      <4>3. j \in 1..n /\ I[j] = s[j] /\ i # j
        BY <1>1, <1>2, <1>11, <2>3, <4>2
      <4> QED
        BY <2>1, <2>3, <4>1, <4>3, Zenon
    <3>2. CASE ~(i < place)
      <4>1. j > place /\ j - 1 \in 1..n /\ I[j] = s[j - 1]
        BY <1>1, <1>2, <1>11, <2>3, <3>2
      <4>2. CASE i = place
        <5>1. I[i] = r
          BY <1>1, <1>2, <1>11, <4>2
        <5> QED
          BY <2>2, <2>3, <4>1, <5>1, Zenon
      <4>3. CASE i > place
        <5>1. i - 1 \in 1..n /\ I[i] = s[i - 1] /\ i - 1 # j - 1
          BY <1>1, <1>2, <1>11, <2>3, <4>3
        <5> QED
          BY <2>1, <2>3, <4>1, <5>1, Zenon
      <4> QED
        BY <1>1, <1>2, <3>2, <4>2, <4>3
    <3> QED
      BY <3>1, <3>2
  <2>4. \A i, j \in 1..(n + 1) : I[i] = I[j] => i = j
    <3> SUFFICES ASSUME NEW i \in 1..(n + 1), NEW j \in 1..(n + 1), I[i] = I[j], i # j
                 PROVE  FALSE
      OBVIOUS
    <3>1. i < j \/ j < i
      BY <1>1
    <3> QED
      BY <2>3, <3>1, Zenon
  <2>5. DOMAIN I = 1..(n + 1)
    BY <1>3
  <2> QED
    BY <2>4, <2>5, Zenon DEF IsInjective
<1> QED
  BY <1>8, <1>10, <1>12, <1>13, Zenon DEF I, n

SortedUpTo(f, s, m) ==
    f = [i \in 0..m |-> IF i = 0 THEN <<>> ELSE Insert(f[i - 1], s[i])]

(* Sorting is a recursive function as well.                                *)
LEMMA SortedUpToExist ==
    ASSUME NEW s, NEW m \in Nat
    PROVE  \E f : SortedUpTo(f, s, m)
<1> DEFINE T == {k \in Nat : \E f : SortedUpTo(f, s, k)}
<1>1. 0 \in T
  <2>1. SortedUpTo([i \in 0..0 |-> <<>>], s, 0)
    BY DEF SortedUpTo
  <2> QED
    BY <2>1
<1>2. ASSUME NEW k \in Nat, k \in T PROVE k + 1 \in T
  <2>1. PICK f : SortedUpTo(f, s, k)
    BY <1>2
  <2> DEFINE next == Insert(f[k], s[k + 1])
             h == [i \in 0..(k + 1) |-> IF i = k + 1 THEN next ELSE f[i]]
  <2> HIDE DEF next
  <2>2. ASSUME NEW i \in 0..(k + 1)
        PROVE  h[i] = IF i = 0 THEN <<>> ELSE Insert(h[i - 1], s[i])
    <3>1. CASE i = k + 1
      <4>1. i # 0 /\ i - 1 = k /\ h[i] = next /\ h[k] = f[k]
        BY <3>1
      <4> HIDE DEF h
      <4> QED
        BY <3>1, <4>1 DEF next
    <3>2. CASE i = 0
      <4>1. h[i] = f[i]
        BY <3>2
      <4>2. f[i] = <<>>
        BY <2>1, <3>2 DEF SortedUpTo
      <4> QED
        BY <3>2, <4>1, <4>2
    <3>3. CASE i # k + 1 /\ i # 0
      <4>1. i \in 0..k /\ h[i] = f[i] /\ h[i - 1] = f[i - 1]
        BY <3>3
      <4>2. f[i] = Insert(f[i - 1], s[i])
        BY <2>1, <3>3, <4>1, Zenon DEF SortedUpTo
      <4> HIDE DEF h
      <4> QED
        BY <3>3, <4>1, <4>2
    <3> QED
      BY <3>1, <3>2, <3>3
  <2>3. h = [i \in 0..(k + 1) |-> IF i = 0 THEN <<>> ELSE Insert(h[i - 1], s[i])]
    BY <2>2, Zenon
  <2> HIDE DEF h
  <2> QED
    BY <2>3 DEF SortedUpTo
<1> HIDE DEF T
<1>3. m \in T
  BY <1>1, <1>2, SetInduction
<1> QED
  BY <1>3 DEF T

LEMMA SortedKeeps ==
    ASSUME NEW s \in Seq(TimeRange)
    PROVE  /\ Sorted(s) \in Seq(TimeRange) /\ Len(Sorted(s)) = Len(s)
           /\ ToSet(Sorted(s)) = ToSet(s) /\ InOrder(Sorted(s))
           /\ IsInjective(s) => IsInjective(Sorted(s))
<1> DEFINE n == Len(s)
           F == CHOOSE f : SortedUpTo(f, s, n)
           First(i) == {s[j] : j \in 1..i}
           Z == Sorted(s)
<1>1. /\ n \in Nat
      /\ \A i \in 1..n : s[i] \in ToSet(s) /\ s[i] \in TimeRange
      /\ \A q \in ToSet(s) : \E i \in 1..n : q = s[i]
  BY ElementsOf
<1>2. Z = F[n]
  BY Zenon DEF Sorted, SortedUpTo
<1> HIDE DEF Z
<1>3. \A i \in 0..n : F[i] = IF i = 0 THEN <<>> ELSE Insert(F[i - 1], s[i])
  <2>1. \E f : SortedUpTo(f, s, n)
    BY <1>1, SortedUpToExist
  <2>2. SortedUpTo(F, s, n)
    BY <2>1, Zenon
  <2> HIDE DEF F, n
  <2> QED
    BY <2>2, Zenon DEF SortedUpTo
<1> HIDE DEF F
<1> DEFINE T == {i \in Nat : i <= n =>
                   /\ F[i] \in Seq(TimeRange) /\ Len(F[i]) = i /\ ToSet(F[i]) = First(i)
                   /\ InOrder(F[i]) /\ (IsInjective(s) => IsInjective(F[i]))}
<1>4. 0 \in T
  <2> SUFFICES /\ F[0] \in Seq(TimeRange) /\ Len(F[0]) = 0 /\ ToSet(F[0]) = First(0)
               /\ InOrder(F[0]) /\ IsInjective(F[0])
    OBVIOUS
  <2>1. F[0] = <<>>
    BY <1>1, <1>3
  <2>2. ToSet(<<>>) = {} /\ First(0) = {}
    BY DEF ToSet
  <2>3. <<>> \in Seq(TimeRange) /\ Len(<<>>) = 0
    OBVIOUS
  <2>4. InOrder(<<>>) /\ IsInjective(<<>>)
    BY DEF InOrder, IsInjective
  <2> HIDE DEF First
  <2> QED
    BY <2>1, <2>2, <2>3, <2>4, Zenon
<1>5. ASSUME NEW i \in Nat, i \in T PROVE i + 1 \in T
  <2> SUFFICES ASSUME i + 1 <= n
               PROVE  /\ F[i + 1] \in Seq(TimeRange) /\ Len(F[i + 1]) = i + 1
                      /\ ToSet(F[i + 1]) = First(i + 1)
                      /\ InOrder(F[i + 1]) /\ (IsInjective(s) => IsInjective(F[i + 1]))
    OBVIOUS
  <2>1. i <= n /\ i + 1 \in 1..n /\ i + 1 \in 0..n /\ i + 1 # 0 /\ (i + 1) - 1 = i
    BY <1>1
  <2>2. /\ F[i] \in Seq(TimeRange) /\ Len(F[i]) = i /\ ToSet(F[i]) = First(i)
        /\ InOrder(F[i]) /\ (IsInjective(s) => IsInjective(F[i]))
    BY <1>5, <2>1
  <2>3. F[i + 1] = Insert(F[i], s[i + 1]) /\ s[i + 1] \in TimeRange
    BY <1>1, <1>3, <2>1, Zenon
  <2>4. First(i + 1) = First(i) \cup {s[i + 1]}
    <3>1. \A j : j \in 1..(i + 1) <=> j \in 1..i \/ j = i + 1
      OBVIOUS
    <3> QED
      BY <3>1, Zenon
  <2>5. IsInjective(s) => s[i + 1] \notin First(i)
    <3>1. \A j \in 1..i : j \in 1..n /\ j # i + 1
      BY <1>1, <2>1
    <3>2. DOMAIN s = 1..n
      OBVIOUS
    <3> QED
      BY <2>1, <3>1, <3>2, Zenon DEF IsInjective
  <2> HIDE DEF T, First
  <2>6. /\ Insert(F[i], s[i + 1]) \in Seq(TimeRange)
        /\ Len(Insert(F[i], s[i + 1])) = Len(F[i]) + 1
        /\ ToSet(Insert(F[i], s[i + 1])) = ToSet(F[i]) \cup {s[i + 1]}
        /\ InOrder(F[i]) => InOrder(Insert(F[i], s[i + 1]))
        /\ IsInjective(F[i]) /\ s[i + 1] \notin ToSet(F[i])
              => IsInjective(Insert(F[i], s[i + 1]))
    BY <2>2, <2>3, InsertKeeps
  <2> QED
    BY <2>2, <2>3, <2>4, <2>5, <2>6, Zenon
<1>6. n \in T
  <2> HIDE DEF T, n
  <2> QED
    BY <1>1, <1>4, <1>5, SetInduction
<1>7. /\ Z \in Seq(TimeRange) /\ Len(Z) = n /\ ToSet(Z) = First(n)
      /\ InOrder(Z) /\ (IsInjective(s) => IsInjective(Z))
  BY <1>1, <1>2, <1>6
<1>8. First(n) = ToSet(s)
  <2> HIDE DEF n
  <2> QED
    BY <1>1
<1> QED
  BY <1>7, <1>8, Zenon DEF Z, n

(* Ranges of which none follows another stay such ranges when sorted.      *)
LEMMA SortedSettles ==
    ASSUME NEW step, NEW S, NEW s, PieceList(s, S, step)
    PROVE  /\ PieceList(Sorted(s), S, step) /\ HoldsAll(Sorted(s), s)
           /\ Len(Sorted(s)) = Len(s)
           /\ NoneFollows(s, step) => NoneFollows(Sorted(s), step)
           /\ IsChain(s, step) => IsChain(Sorted(s), step)
           /\ Untouched(s, step) => Untouched(Sorted(s), step)
<1>1. s \in Seq(TimeRange) /\ HoldsAll(s, s)
  BY HoldsItself DEF PieceList
<1>2. /\ Sorted(s) \in Seq(TimeRange) /\ Len(Sorted(s)) = Len(s)
      /\ ToSet(Sorted(s)) = ToSet(s)
      /\ IsInjective(s) => IsInjective(Sorted(s))
  BY <1>1, SortedKeeps
<1>3. /\ IsChain(s, step) => IsChain(Sorted(s), step)
      /\ Untouched(s, step) => Untouched(Sorted(s), step)
  BY <1>2, Zenon DEF IsChain, Untouched
<1> QED
  BY <1>1, <1>2, <1>3, Zenon DEF PieceList, ArePieces, HoldsAll, HoldsRange, NoneFollows

(* What the calls of MergeRanges to itself make of any ranges, up to m     *)
(* calls deep.                                                             *)
SettleStep(g, d, x, step) ==
    IF d = 0 \/ Len(Pass(x, step)) = Len(x) THEN x ELSE g[Sorted(g[Pass(x, step)])]
SettledTo(f, step, m) ==
    f = [d \in 0..m |-> [x \in Seq(TimeRange) |-> SettleStep(f[d - 1], d, x, step)]]

(* So are the calls MergeRanges makes to itself.                           *)
LEMMA SettledToExist ==
    ASSUME NEW step, NEW m \in Nat
    PROVE  \E f : SettledTo(f, step, m)
<1> DEFINE T == {k \in Nat : \E f : SettledTo(f, step, k)}
<1>1. 0 \in T
  <2> DEFINE h == [d \in 0..0 |-> [x \in Seq(TimeRange) |-> x]]
  <2>1. \A d \in 0..0, x \in Seq(TimeRange) : x = SettleStep(h[d - 1], d, x, step)
    <3> HIDE DEF h
    <3> QED
      BY DEF SettleStep
  <2>2. [d \in 0..0 |-> [x \in Seq(TimeRange) |-> x]]
          = [d \in 0..0 |-> [x \in Seq(TimeRange) |-> SettleStep(h[d - 1], d, x, step)]]
    <3> HIDE DEF h
    <3> QED
      BY <2>1, Zenon
  <2>3. SettledTo(h, step, 0)
    BY <2>2, Zenon DEF SettledTo
  <2> QED
    BY <2>3, Zenon
<1>2. ASSUME NEW k \in Nat, k \in T PROVE k + 1 \in T
  <2>1. PICK f : SettledTo(f, step, k)
    BY <1>2
  <2> DEFINE next == [x \in Seq(TimeRange) |-> SettleStep(f[k], k + 1, x, step)]
             h == [d \in 0..(k + 1) |-> IF d = k + 1 THEN next ELSE f[d]]
  <2> HIDE DEF next
  <2>2. ASSUME NEW d \in 0..(k + 1)
        PROVE  h[d] = [x \in Seq(TimeRange) |-> SettleStep(h[d - 1], d, x, step)]
    <3>1. CASE d = k + 1
      <4>1. d - 1 = k /\ h[d] = next /\ h[k] = f[k]
        BY <3>1
      <4> HIDE DEF h
      <4> QED
        BY <3>1, <4>1, Zenon DEF next
    <3>2. CASE d = 0
      <4>1. h[d] = f[d] /\ d \in 0..k
        BY <3>2
      <4> HIDE DEF h
      <4>2. f[d] = [x \in Seq(TimeRange) |-> SettleStep(f[d - 1], d, x, step)]
        BY <2>1, <4>1, Zenon DEF SettledTo
      <4>3. \A x : SettleStep(f[d - 1], d, x, step) = SettleStep(h[d - 1], d, x, step)
        BY <3>2, Zenon DEF SettleStep
      <4> QED
        BY <4>1, <4>2, <4>3, Zenon
    <3>3. CASE d # k + 1 /\ d # 0
      <4>1. d \in 0..k /\ h[d] = f[d] /\ h[d - 1] = f[d - 1]
        BY <3>3
      <4> HIDE DEF h
      <4>2. f[d] = [x \in Seq(TimeRange) |-> SettleStep(f[d - 1], d, x, step)]
        BY <2>1, <4>1, Zenon DEF SettledTo
      <4> QED
        BY <4>1, <4>2, Zenon
    <3> QED
      BY <3>1, <3>2, <3>3
  <2>3. h = [d \in 0..(k + 1) |-> [x \in Seq(TimeRange) |-> SettleStep(h[d - 1], d, x, step)]]
    BY <2>2, Zenon
  <2> HIDE DEF h
  <2>4. SettledTo(h, step, k + 1)
    BY <2>3, Zenon DEF SettledTo
  <2> QED
    BY <2>4
<1> HIDE DEF T
<1>3. m \in T
  BY <1>1, <1>2, SetInduction
<1> QED
  BY <1>3 DEF T

(* What n calls deep make of no more than n ranges has settled.            *)
Settles(y, x, S, step) ==
    /\ PieceList(y, S, step) /\ HoldsAll(y, x)
    /\ Len(y) <= Len(x) /\ NoneFollows(y, step)
    /\ IsChain(x, step) => IsChain(y, step) /\ Untouched(y, step)

(* If the calls one less deep settle, so does this one.                    *)
LEMMA SettleStepKeeps ==
    ASSUME NEW step \in Nat \ {0}, NEW S, S \subseteq Nat, NEW g, NEW d \in Nat,
           d # 0 => \A x : PieceList(x, S, step) /\ Len(x) <= d - 1 =>
                       Settles(g[x], x, S, step),
           NEW s, PieceList(s, S, step), Len(s) <= d
    PROVE  Settles(SettleStep(g, d, s, step), s, S, step)
<1> DEFINE y == Pass(s, step)
           z == g[y]
           u == Sorted(z)
           v == g[u]
<1>1. s \in Seq(TimeRange) /\ Len(s) \in Nat
  BY ElementsOf DEF PieceList
<1>2. /\ PieceList(y, S, step) /\ HoldsAll(y, s) /\ Len(y) <= Len(s)
      /\ Len(y) = Len(s) => NoneFollows(s, step)
      /\ IsChain(s, step) => IsChain(y, step)
      /\ Len(y) = Len(s) /\ IsChain(s, step) => Untouched(s, step)
  BY <1>1, PassKeeps, PassChains, ChainUntouched
<1>3. y \in Seq(TimeRange) /\ Len(y) \in Nat
  BY <1>2, ElementsOf DEF PieceList
<1>4. CASE d = 0 \/ Len(y) = Len(s)
  <2>1. SettleStep(g, d, s, step) = s
    BY <1>4, Zenon DEF SettleStep
  <2>2. Len(y) = Len(s)
    BY <1>1, <1>2, <1>3, <1>4
  <2>3. Len(s) <= Len(s)
    BY <1>1
  <2> HIDE DEF y
  <2> QED
    BY <1>1, <1>2, <2>1, <2>2, <2>3, HoldsItself DEF Settles
<1>5. CASE ~(d = 0 \/ Len(y) = Len(s))
  <2>1. SettleStep(g, d, s, step) = v
    BY <1>5, Zenon DEF SettleStep
  <2>2. d # 0 /\ Len(y) <= d - 1
    BY <1>1, <1>2, <1>3, <1>5
  <2> HIDE DEF y
  <2>3. Settles(z, y, S, step)
    BY <1>2, <2>2, Zenon
  <2> HIDE DEF z
  <2>4. /\ PieceList(u, S, step) /\ HoldsAll(u, z) /\ Len(u) = Len(z)
        /\ IsChain(z, step) => IsChain(u, step)
    BY <2>3, SortedSettles DEF Settles
  <2>5. PieceList(z, S, step) /\ HoldsAll(z, y) /\ Len(z) <= Len(y)
    BY <2>3 DEF Settles
  <2>6. z \in Seq(TimeRange) /\ Len(z) \in Nat
    BY <2>5, ElementsOf DEF PieceList
  <2> HIDE DEF u
  <2>7. u \in Seq(TimeRange) /\ Len(u) \in Nat
    BY <2>4, ElementsOf DEF PieceList
  <2>8. Len(u) <= d - 1
    BY <1>3, <2>2, <2>4, <2>5, <2>6
  <2>9. Settles(v, u, S, step)
    BY <2>2, <2>4, <2>8, Zenon
  <2> HIDE DEF v
  <2>10. PieceList(v, S, step) /\ HoldsAll(v, u) /\ Len(v) <= Len(u) /\ NoneFollows(v, step)
    BY <2>9 DEF Settles
  <2>11. v \in Seq(TimeRange) /\ Len(v) \in Nat
    BY <2>10, ElementsOf DEF PieceList
  <2>12. HoldsAll(v, z)
    BY <2>4, <2>6, <2>7, <2>10, <2>11, HeldOnce
  <2>13. HoldsAll(v, y)
    BY <1>3, <2>5, <2>6, <2>11, <2>12, HeldOnce
  <2>14. HoldsAll(v, s)
    BY <1>1, <1>2, <1>3, <2>11, <2>13, HeldOnce
  <2>15. Len(v) <= Len(s)
    BY <1>1, <1>2, <1>3, <2>4, <2>5, <2>6, <2>10, <2>11
  <2>16. IsChain(s, step) => IsChain(v, step) /\ Untouched(v, step)
    BY <1>2, <2>3, <2>4, <2>9 DEF Settles
  <2> QED
    BY <2>1, <2>10, <2>14, <2>15, <2>16 DEF Settles
<1> QED
  BY <1>4, <1>5

(* All of them settle.                                                     *)
LEMMA SettledKeeps ==
    ASSUME NEW step \in Nat \ {0}, NEW S, S \subseteq Nat, NEW n \in Nat,
           NEW s, PieceList(s, S, step), Len(s) <= n
    PROVE  Settles(Settled(n, step)[s], s, S, step)
<1> DEFINE F == CHOOSE f : SettledTo(f, step, n)
           Good(d) == \A x : PieceList(x, S, step) /\ Len(x) <= d => Settles(F[d][x], x, S, step)
<1>1. Settled(n, step) = F[n]
  BY Zenon DEF Settled, SettledTo, SettleStep, TimeRange
<1>2. \A d \in 0..n : F[d] = [x \in Seq(TimeRange) |-> SettleStep(F[d - 1], d, x, step)]
  <2>1. \E f : SettledTo(f, step, n)
    BY SettledToExist
  <2>2. SettledTo(F, step, n)
    BY <2>1, Zenon
  <2> HIDE DEF F
  <2> QED
    BY <2>2, Zenon DEF SettledTo
<1> HIDE DEF F
<1>3. \A d \in 0..n, x \in Seq(TimeRange) : F[d][x] = SettleStep(F[d - 1], d, x, step)
  BY <1>2, Zenon
<1> DEFINE T == {d \in Nat : d <= n => Good(d)}
<1>4. ASSUME NEW d \in Nat, d <= n, d # 0 => Good(d - 1) PROVE Good(d)
  <2> SUFFICES ASSUME NEW x, PieceList(x, S, step), Len(x) <= d
               PROVE  Settles(F[d][x], x, S, step)
    OBVIOUS
  <2>1. d \in 0..n /\ x \in Seq(TimeRange)
    BY <1>4 DEF PieceList
  <2>2. F[d][x] = SettleStep(F[d - 1], d, x, step)
    BY <1>3, <2>1
  <2> DEFINE g == F[d - 1]
  <2>3. d # 0 => \A w : PieceList(w, S, step) /\ Len(w) <= d - 1 => Settles(g[w], w, S, step)
    BY <1>4, Zenon
  <2> HIDE DEF g
  <2>4. Settles(SettleStep(g, d, x, step), x, S, step)
    BY <2>3, SettleStepKeeps
  <2> QED
    BY <2>2, <2>4 DEF g
<1>5. 0 \in T
  <2> HIDE DEF Good
  <2> QED
    BY <1>4
<1>6. ASSUME NEW d \in Nat, d \in T PROVE d + 1 \in T
  <2> HIDE DEF Good
  <2> SUFFICES ASSUME d + 1 <= n PROVE Good(d + 1)
    OBVIOUS
  <2>1. d <= n /\ (d + 1) - 1 = d /\ d + 1 \in Nat
    OBVIOUS
  <2>2. Good(d)
    BY <1>6, <2>1
  <2> QED
    BY <1>4, <2>1, <2>2
<1>7. n \in T
  <2> HIDE DEF T
  <2> QED
    BY <1>5, <1>6, SetInduction
<1>8. Good(n)
  <2> HIDE DEF Good
  <2> QED
    BY <1>7
<1> QED
  BY <1>1, <1>8, Zenon

(* MergeRanges: the ranges it returns are pieces of the runs if those it   *)
(* got are, hold all of them, and none follows another.                    *)
LEMMA MergeKeeps ==
    ASSUME NEW step \in Nat \ {0}, NEW S, S \subseteq Nat, NEW s, PieceList(s, S, step)
    PROVE  /\ PieceList(MergeRanges(s, step), S, step)
           /\ HoldsAll(MergeRanges(s, step), s)
           /\ NoneFollows(MergeRanges(s, step), step)
           /\ IsChain(s, step) => /\ IsChain(MergeRanges(s, step), step)
                                   /\ Untouched(MergeRanges(s, step), step)
<1> DEFINE p == Pass(s, step)
           z == Settled(Len(p), step)[p]
<1>1. s \in Seq(TimeRange) /\ HoldsAll(s, s)
  BY HoldsItself DEF PieceList
<1>2. /\ PieceList(p, S, step) /\ HoldsAll(p, s)
      /\ Len(p) = Len(s) => NoneFollows(s, step)
      /\ IsChain(s, step) => IsChain(p, step)
      /\ Len(p) = Len(s) /\ IsChain(s, step) => Untouched(s, step)
  BY <1>1, PassKeeps, PassChains, ChainUntouched
<1>3. MergeRanges(s, step) = IF Len(p) = Len(s) THEN s ELSE Sorted(z)
  BY Zenon DEF MergeRanges
<1> HIDE DEF p
<1>4. p \in Seq(TimeRange) /\ Len(p) \in Nat /\ Len(p) <= Len(p)
  BY <1>2, ElementsOf DEF PieceList
<1>5. Settles(z, p, S, step)
  BY <1>2, <1>4, SettledKeeps
<1> HIDE DEF z
<1>6. /\ PieceList(z, S, step) /\ HoldsAll(z, p) /\ NoneFollows(z, step) /\ z \in Seq(TimeRange)
      /\ IsChain(p, step) => IsChain(z, step) /\ Untouched(z, step)
  BY <1>5 DEF Settles, PieceList
<1>7. /\ PieceList(Sorted(z), S, step) /\ HoldsAll(Sorted(z), z) /\ NoneFollows(Sorted(z), step)
      /\ IsChain(z, step) => IsChain(Sorted(z), step)
      /\ Untouched(z, step) => Untouched(Sorted(z), step)
  BY <1>6, SortedSettles
<1>8. Sorted(z) \in Seq(TimeRange)
  BY <1>7 DEF PieceList
<1>9. HoldsAll(Sorted(z), p)
  BY <1>4, <1>6, <1>7, <1>8, HeldOnce
<1>10. HoldsAll(Sorted(z), s)
  BY <1>1, <1>2, <1>4, <1>8, <1>9, HeldOnce
<1>11. IsChain(s, step) => /\ IsChain(MergeRanges(s, step), step)
                           /\ Untouched(MergeRanges(s, step), step)
  BY <1>2, <1>3, <1>6, <1>7
<1> QED
  BY <1>1, <1>2, <1>3, <1>7, <1>10, <1>11

(* A time is covered by the ranges made of samples when it is in a run.    *)
LEMMA WithinRuns ==
    ASSUME NEW step \in Nat \ {0}, NEW S, Bounded(S), NEW t
    PROVE  /\ Covers(RangesOf(S, step), t) <=> Within(t, S, step)
           /\ \E K : RunList(K, S, step) /\ (Within(t, S, step) <=> Covers(K, t))
<1> DEFINE K == RangesOf(S, step)
<1>1. RunList(K, S, step) /\ ToSet(K) = Runs(S, step)
  BY SamplesBecomeRuns
<1> HIDE DEF K
<1>2. K \in Seq(TimeRange)
  BY <1>1 DEF RunList
<1>3. /\ DOMAIN K = 1..Len(K)
      /\ \A i \in 1..Len(K) : K[i] \in ToSet(K)
      /\ \A r \in ToSet(K) : \E i \in 1..Len(K) : r = K[i]
  BY <1>2, ElementsOf
<1>4. Covers(K, t) <=> Within(t, S, step)
  BY <1>1, <1>3, Zenon DEF Covers, Within
<1> QED
  BY <1>1, <1>4, Zenon DEF K

(* Pieces that hold every sample, of which none follows another by a step  *)
(* or less, cover what the runs cover.                                     *)
LEMMA PiecesCover ==
    ASSUME NEW step \in Nat \ {0}, NEW S, Bounded(S), NEW s, PieceList(s, S, step),
           \A x \in S : InPiece(x, s, step), NoneFollows(s, step), NEW t \in Nat
    PROVE  Covers(s, t) <=> Within(t, S, step)
<1>1. S \subseteq Nat /\ s \in Seq(TimeRange)
  BY DEF Bounded, PieceList
<1>2. /\ DOMAIN s = 1..Len(s)
      /\ \A i \in 1..Len(s) : s[i] \in ToSet(s)
      /\ \A r \in ToSet(s) : r \in TimeRange /\ \E i \in 1..Len(s) : r = s[i]
  BY <1>1, ElementsOf
<1>3. Covers(s, t) <=> \E r \in ToSet(s) : r.start <= t /\ t <= r.end
  BY <1>2, Zenon DEF Covers
<1>4. PICK K : RunList(K, S, step) /\ (Within(t, S, step) <=> Covers(K, t))
  BY WithinRuns
<1>5. K \in Seq(TimeRange) /\ DOMAIN K = 1..Len(K)
      /\ \A i \in 1..Len(K) : K[i] \in TimeRange /\ K[i] \in ToSet(K)
  BY <1>4, ElementsOf DEF RunList
<1>6. /\ \A i \in 1..Len(K) :
           K[i].start \in S /\ K[i].end - step \in S /\ K[i].start + step <= K[i].end
      /\ \A x \in S : \E i \in 1..Len(K) : K[i].start <= x /\ x <= K[i].end - step
      /\ \A i \in 1..Len(K), x \in S : K[i].start <= x /\ x < K[i].end - step =>
           \E y \in S : x < y /\ y <= x + 2 * step /\ y <= K[i].end - step
  BY <1>4, Zenon DEF RunList
<1>7. ASSUME NEW r \in ToSet(s)
      PROVE  /\ r.start \in Nat /\ r.end \in Nat /\ r.start \in S /\ r.end - step \in S
             /\ r.start + step <= r.end
  BY <1>2 DEF PieceList, ArePieces, IsPiece, TimeRange
<1>8. \A i \in 1..Len(K) : K[i].start \in Nat /\ K[i].end \in Nat
  BY <1>5 DEF TimeRange
<1>9. ASSUME NEW r \in ToSet(s), r.start <= t, t <= r.end
      PROVE  Covers(K, t)
  <2>1. PICK i \in 1..Len(K) : K[i].start <= r.start /\ r.start <= K[i].end - step
    BY <1>6, <1>7
  <2>2. r.end <= K[i].end
    <3> SUFFICES ASSUME K[i].end < r.end PROVE FALSE
      BY <1>7, <1>8
    <3> DEFINE f == K[i].end - step
    <3>1. f \in S /\ f \in Nat /\ r.start <= f /\ f < r.end - step
      BY <1>1, <1>6, <1>7, <1>8, <2>1
    <3>2. IsPiece(r, S, step)
      BY Zenon DEF PieceList, ArePieces
    <3> HIDE DEF f
    <3>3. \E y \in S : f < y /\ y <= f + 2 * step /\ y <= r.end - step
      BY <3>1, <3>2, Zenon DEF IsPiece
    <3>4. K[i] \in ToSet(K) /\ ToSet(K) = Runs(S, step)
      BY <1>1, <1>4, <1>5, RunListIsRuns
    <3>5. IsRunOf(K[i], S, step)
      BY <3>4, RunsAre, Zenon
    <3>6. PICK a \in S, b \in S :
            RunOf(a, b, S, step) /\ K[i] = [start |-> a, end |-> b + step]
      BY <3>5, Zenon DEF IsRunOf
    <3>7. b = f
      BY <1>1, <3>6 DEF f
    <3> QED
      BY <3>3, <3>6, <3>7, Zenon DEF RunOf
  <2>3. K[i].start <= t /\ t <= K[i].end
    BY <1>7, <1>8, <1>9, <2>1, <2>2
  <2> QED
    BY <1>5, <2>3, Zenon DEF Covers
<1>10. ASSUME Covers(K, t) PROVE \E r \in ToSet(s) : r.start <= t /\ t <= r.end
  <2>1. PICK i \in 1..Len(K) : K[i].start <= t /\ t <= K[i].end
    BY <1>5, <1>10, Zenon DEF Covers
  <2>2. PICK g \in S : K[i].start <= g /\ g <= t /\ \A y \in S : y <= t => y <= g
    BY <1>1, <1>6, <2>1, GreatestUpTo
  <2>3. PICK r \in ToSet(s) : r.start <= g /\ g <= r.end - step
    BY Zenon DEF InPiece
  <2>4. g \in Nat
    BY <1>1
  <2>5. CASE t <= r.end
    BY <1>7, <2>2, <2>3, <2>4, <2>5
  <2>6. CASE ~(t <= r.end)
    <3>1. r.end = g + step
      <4>1. r.end - step <= t
        BY <1>7, <2>6
      <4>2. r.end - step <= g
        BY <1>7, <2>2, <4>1
      <4> QED
        BY <1>7, <2>3, <2>4, <4>2
    <3>2. g < K[i].end - step
      BY <1>8, <2>1, <2>4, <2>6, <3>1
    <3>3. PICK y \in S : g < y /\ y <= g + 2 * step /\ y <= K[i].end - step
      BY <1>6, <2>2, <3>2
    <3>4. y \in Nat /\ t < y
      <4>1. y \in Nat /\ ~(y <= g)
        BY <1>1, <2>4, <3>3
      <4>2. ~(y <= t)
        BY <2>2, <4>1
      <4> QED
        BY <4>1, <4>2
    <3>5. PICK q \in ToSet(s) : q.start <= y /\ y <= q.end - step
      BY Zenon DEF InPiece
    <3>6. t <= q.end
      BY <1>7, <3>4, <3>5
    <3>7. CASE q.start <= t
      BY <3>6, <3>7
    <3>8. CASE ~(q.start <= t)
      <4>1. r.end < q.start /\ q.start <= r.end + step
        BY <1>7, <2>4, <2>6, <3>1, <3>3, <3>4, <3>5, <3>8
      <4> QED
        BY <4>1, Zenon DEF NoneFollows
    <3> QED
      BY <3>7, <3>8
  <2> QED
    BY <2>5, <2>6
<1> QED
  BY <1>3, <1>4, <1>9, <1>10, Zenon
----------------------------------------------------------------------------
(* Division, and what the nonlinear steps below need of products.          *)
LEMMA DivMod ==
    ASSUME NEW a \in Int, NEW b \in Nat \ {0}
    PROVE  /\ a \div b \in Int /\ a % b \in Int
           /\ a = b * (a \div b) + (a % b)
           /\ 0 <= a % b /\ a % b < b
<1>1. a \div b \in Int /\ a % b \in Int
  OBVIOUS
<1>2. a = b * (a \div b) + (a % b)
  OBVIOUS
<1>3. 0 <= a % b /\ a % b < b
  OBVIOUS
<1> QED BY <1>1, <1>2, <1>3, Zenon

LEMMA DivOfNat ==
    ASSUME NEW a \in Nat, NEW b \in Nat \ {0}
    PROVE  a \div b \in Nat
BY DivMod

LEMMA ProductGrows ==
    ASSUME NEW a \in Int, NEW b \in Int, NEW c \in Nat, a <= b
    PROVE  a * c <= b * c
<1>1. (b - a) * c >= 0
  OBVIOUS
<1> QED BY <1>1

(* The evaluations of a range lie in it, and one is less than a step       *)
(* before each of its times.                                               *)
LEMMA PointsInside ==
    ASSUME NEW r, r.start \in Int, r.end \in Int, NEW step \in Nat \ {0},
           NEW p \in Points(r, step)
    PROVE  p \in Int /\ r.start <= p /\ p <= r.end
<1> DEFINE n == (r.end - r.start) \div step
<1>1. n \in Int /\ n * step <= r.end - r.start
  <2> DEFINE a == r.end - r.start
  <2>1. a \in Int
    OBVIOUS
  <2>2. /\ n \in Int /\ a % step \in Int
        /\ a = step * n + (a % step) /\ 0 <= a % step
    BY <2>1, DivMod
  <2> HIDE DEF n
  <2>3. step * n = n * step /\ n * step \in Int
    BY <2>2
  <2> QED BY <2>1, <2>2, <2>3
<1> HIDE DEF n
<1>2. PICK k \in 0..n : p = r.start + k * step
  BY DEF Points, n
<1>3. 0 * step <= k * step /\ k * step <= n * step
  BY <1>1, <1>2, ProductGrows
<1>4. k * step \in Int /\ n * step \in Int
  BY <1>1, <1>2
<1> QED BY <1>1, <1>2, <1>3, <1>4

LEMMA PointBefore ==
    ASSUME NEW r, r.start \in Int, r.end \in Int, NEW step \in Nat \ {0},
           NEW t \in r.start..r.end
    PROVE  \E p \in Points(r, step) : p <= t /\ t < p + step
<1> DEFINE k == (t - r.start) \div step
           n == (r.end - r.start) \div step
<1>1. /\ k \in Int /\ step * k <= t - r.start /\ t - r.start < step * k + step
      /\ n \in Int /\ r.end - r.start < step * n + step
  <2> DEFINE a == t - r.start
             b == r.end - r.start
  <2>1. a \in Int /\ b \in Int
    OBVIOUS
  <2>2. /\ k \in Int /\ a % step \in Int
        /\ a = step * k + (a % step) /\ 0 <= a % step /\ a % step < step
    BY <2>1, DivMod
  <2>3. /\ n \in Int /\ b % step \in Int
        /\ b = step * n + (b % step) /\ b % step < step
    BY <2>1, DivMod
  <2> HIDE DEF n, k
  <2> QED BY <2>1, <2>2, <2>3
<1>2. k \in Nat
  BY DivOfNat
<1> HIDE DEF k, n
<1>3. k <= n
  <2> SUFFICES ASSUME n + 1 <= k PROVE FALSE
    BY <1>1
  <2>1. (n + 1) * step <= k * step
    BY <1>1, ProductGrows
  <2>2. n * step + step <= k * step
    BY <2>1, <1>1
  <2> QED BY <2>2, <1>1
<1>4. r.start + k * step \in Points(r, step)
  BY <1>2, <1>3, <1>1 DEF Points, n
<1>5. k * step \in Int /\ k * step = step * k
  BY <1>1
<1> QED BY <1>1, <1>4, <1>5

(* The size of slices is never zero, and the first one begins at most its  *)
(* size before the window.                                                 *)
LEMMA RoundsNearby ==
    ASSUME NEW t \in Int, NEW d \in Nat \ {0}
    PROVE  /\ t % d \in Nat /\ t % d < d
           /\ RoundTo(t, d) = IF (t % d) + (t % d) < d THEN t - (t % d) ELSE t - (t % d) + d
<1>1. t % d \in Int /\ 0 <= t % d /\ t % d < d
  BY DivMod
<1> QED BY <1>1 DEF RoundTo

LEMMA SizeIsPositive ==
    ASSUME NEW step \in Steps, NEW lookback \in Nat \ {0}
    PROVE  SliceSize(lookback, step) \in Nat \ {0}
<1> DEFINE r == SliceBase % step
<1>1. step \in Nat \ {0} /\ SliceBase \in Nat /\ step <= 2 * SliceBase
  BY RangesAssumption
<1>2. /\ r \in Nat /\ r < step
      /\ RoundTo(SliceBase, step) = IF r + r < step THEN SliceBase - r ELSE SliceBase - r + step
  <2>1. SliceBase \in Int
    BY <1>1
  <2> QED BY <2>1, <1>1, RoundsNearby, Zenon
<1>3. SliceBase = step * (SliceBase \div step) + r /\ SliceBase \div step \in Nat
  BY <1>1, DivMod, DivOfNat
<1> HIDE DEF r
<1>4. r <= SliceBase
  <2>1. step * (SliceBase \div step) >= 0
    BY <1>1, <1>3
  <2> QED BY <2>1, <1>1, <1>2, <1>3
<1>5. CASE r + r < step
  <2>1. r # SliceBase
    BY <1>1, <1>2, <1>5
  <2>2. RoundTo(SliceBase, step) \in Nat \ {0}
    BY <2>1, <1>1, <1>2, <1>4, <1>5
  <2> QED BY <2>2 DEF SliceSize
<1>6. CASE ~(r + r < step)
  <2>1. RoundTo(SliceBase, step) \in Nat \ {0}
    BY <1>1, <1>2, <1>4, <1>6
  <2> QED BY <2>1 DEF SliceSize
<1> QED BY <1>5, <1>6

(* What Prometheus can be asked for: a time to look back on, and a step    *)
(* for which the size of slices is not zero.                               *)
IsWindow(w) ==
    /\ w.start \in Nat /\ w.end \in Nat /\ w.end - w.start \in Nat \ {0}
    /\ w.step \in Steps

LEMMA WindowsAre == ASSUME NEW w \in Windows PROVE IsWindow(w)
<1>1. PICK s \in Starts, l \in Lookbacks, step \in Steps :
        w = [start |-> s, end |-> s + l, step |-> step]
  BY DEF Windows
<1>2. s \in Nat /\ l \in Nat \ {0}
  BY RangesAssumption
<1>3. w.start = s /\ w.end = s + l /\ w.step = step
  BY <1>1
<1> QED BY <1>2, <1>3 DEF IsWindow

(* What sliceRange makes of a window longer than a step: from the last     *)
(* multiple of the size that is not after its start, as many slices as     *)
(* reach its end.                                                          *)
IsCut(w, base, size, n) ==
    /\ size = SliceSize(w.end - w.start, w.step)
    /\ base <= w.start /\ w.start < base + size
    /\ base + (n - 1) * size < w.end /\ w.end <= base + n * size
    /\ Slices(w) = [i \in 1..n |->
         [start |-> base + (i - 1) * size,
          end |-> IF i = n THEN w.end ELSE (base + i * size) - 1]]

LEMMA SlicesFrom ==
    ASSUME NEW w, IsWindow(w), ~(w.end - w.start <= w.step)
    PROVE  \E base \in Nat, size \in Nat \ {0}, n \in Nat \ {0} : IsCut(w, base, size, n)
<1> DEFINE size == SliceSize(w.end - w.start, w.step)
           r == w.start % size
           rounded == RoundTo(w.start, size)
           base == IF rounded > w.start THEN rounded - size ELSE rounded
           a == w.end - base + size - 1
           n == a \div size
<1>1. /\ w.start \in Nat /\ w.end \in Nat /\ w.step \in Steps
      /\ w.end - w.start \in Nat \ {0}
  BY DEF IsWindow
<1>2. size \in Nat \ {0}
  BY <1>1, SizeIsPositive
<1>3. Slices(w) = [i \in 1..n |->
                  [start |-> base + (i - 1) * size,
                   end |-> IF i = n THEN w.end ELSE (base + ((i + 1) - 1) * size) - 1]]
  <2>1. Slices(w) =
          IF w.end - w.start <= w.step THEN <<[start |-> w.start, end |-> w.end]>>
          ELSE [i \in 1..n |->
                  [start |-> base + (i - 1) * size,
                   end |-> IF i = n THEN w.end ELSE (base + ((i + 1) - 1) * size) - 1]]
    BY Zenon DEF Slices
  <2> HIDE DEF n, base, size
  <2> QED BY <2>1
<1> HIDE DEF size
<1>4. /\ r \in Nat /\ r < size
      /\ rounded = IF r + r < size THEN w.start - r ELSE w.start - r + size
  <2>1. w.start \in Int
    BY <1>1
  <2> QED BY <2>1, <1>2, RoundsNearby, Zenon
<1>14. r <= w.start
  <2> DEFINE st == w.start
             q == st \div size
  <2>0. st \in Nat /\ st \in Int /\ r = st % size
    BY <1>1
  <2> HIDE DEF st, r
  <2>1. q \in Nat /\ st = size * q + (st % size)
    BY <2>0, <1>2, DivMod, DivOfNat
  <2> HIDE DEF q
  <2>2. size * q \in Nat
    BY <1>2, <2>1
  <2>3. r <= st
    BY <1>4, <2>0, <2>1, <2>2
  <2> QED BY <2>3 DEF st
<1> HIDE DEF r, rounded
<1>5. base = w.start - r
  BY <1>1, <1>2, <1>4
<1> HIDE DEF base
<1>6. base \in Nat /\ base <= w.start /\ w.start < base + size
  BY <1>1, <1>2, <1>4, <1>5, <1>14
<1>7. a \in Nat /\ a - size + 1 = w.end - base /\ w.end - base > 0
  BY <1>1, <1>2, <1>6
<1> HIDE DEF a
<1>8. /\ n \in Nat /\ a % size \in Int
      /\ a = size * n + (a % size) /\ 0 <= a % size /\ a % size < size
  BY <1>2, <1>7, DivMod, DivOfNat
<1> HIDE DEF n
<1>9. size * n = n * size /\ (n - 1) * size = n * size - size /\ n * size \in Nat
  BY <1>2, <1>8
<1>10. n # 0
  BY <1>2, <1>7, <1>8, <1>9
<1>11. base + (n - 1) * size < w.end /\ w.end <= base + n * size
  BY <1>1, <1>2, <1>6, <1>7, <1>8, <1>9
<1>12. \A i \in 1..n : (i + 1) - 1 = i
  BY <1>8
<1>13. Slices(w) = [i \in 1..n |->
                  [start |-> base + (i - 1) * size,
                   end |-> IF i = n THEN w.end ELSE (base + i * size) - 1]]
  BY <1>3, <1>12
<1>15. size = SliceSize(w.end - w.start, w.step)
  BY DEF size
<1>16. IsCut(w, base, size, n)
  BY <1>6, <1>11, <1>13, <1>15, Zenon DEF IsCut
<1> QED BY <1>2, <1>6, <1>8, <1>10, <1>16

(* A slice begins after the last time of all those before it.              *)
LEMMA SlicesInOrder ==
    ASSUME NEW w, IsWindow(w), NEW i \in DOMAIN Slices(w), NEW j \in DOMAIN Slices(w), i < j
    PROVE  Slices(w)[i].end < Slices(w)[j].start
<1>1. CASE w.end - w.start <= w.step
  <2>1. Slices(w) = <<[start |-> w.start, end |-> w.end]>>
    BY <1>1 DEF Slices
  <2> QED BY <2>1
<1>2. CASE ~(w.end - w.start <= w.step)
  <2>0. PICK base \in Nat, size \in Nat \ {0}, n \in Nat \ {0} : IsCut(w, base, size, n)
    BY <1>2, SlicesFrom
  <2>1. /\ base <= w.start /\ w.start < base + size
        /\ base + (n - 1) * size < w.end /\ w.end <= base + n * size
        /\ Slices(w) = [k \in 1..n |->
             [start |-> base + (k - 1) * size,
              end |-> IF k = n THEN w.end ELSE (base + k * size) - 1]]
    BY <2>0, Zenon DEF IsCut
  <2>2. i \in 1..n /\ j \in 1..n /\ i < n /\ i <= j - 1
    BY <2>1
  <2>3. Slices(w)[i].end = (base + i * size) - 1
    BY <2>1, <2>2
  <2>4. Slices(w)[j].start = base + (j - 1) * size
    BY <2>1, <2>2
  <2>5. i * size <= (j - 1) * size
    BY <2>2, ProductGrows
  <2>6. i * size \in Int /\ (j - 1) * size \in Int
    BY <2>2
  <2> QED BY <2>3, <2>4, <2>5, <2>6
<1> QED BY <1>1, <1>2

(* Of three slices the first and the last are more than the middle one     *)
(* apart.                                                                  *)
LEMMA SlicesApart ==
    ASSUME NEW w, IsWindow(w), NEW i \in DOMAIN Slices(w), NEW k \in DOMAIN Slices(w), i + 1 < k
    PROVE  Slices(w)[i].end + SliceSize(w.end - w.start, w.step) < Slices(w)[k].start
<1>1. CASE w.end - w.start <= w.step
  <2>1. Slices(w) = <<[start |-> w.start, end |-> w.end]>>
    BY <1>1 DEF Slices
  <2> QED BY <2>1
<1>2. CASE ~(w.end - w.start <= w.step)
  <2>0. PICK base \in Nat, size \in Nat \ {0}, n \in Nat \ {0} : IsCut(w, base, size, n)
    BY <1>2, SlicesFrom
  <2>1. /\ base <= w.start /\ w.start < base + size
        /\ base + (n - 1) * size < w.end /\ w.end <= base + n * size
        /\ Slices(w) = [j \in 1..n |->
             [start |-> base + (j - 1) * size,
              end |-> IF j = n THEN w.end ELSE (base + j * size) - 1]]
    BY <2>0, Zenon DEF IsCut
  <2>2. i \in 1..n /\ k \in 1..n /\ i # n /\ i + 1 <= k - 1
    BY <2>1
  <2>3. Slices(w)[i].end = (base + i * size) - 1
    BY <2>1, <2>2
  <2>4. Slices(w)[k].start = base + (k - 1) * size
    BY <2>1, <2>2
  <2>5. (i + 1) * size <= (k - 1) * size
    BY <2>2, ProductGrows
  <2>6. /\ i * size \in Int /\ (k - 1) * size \in Int /\ (i + 1) * size = i * size + size
        /\ size \in Nat
    BY <2>2
  <2>7. Slices(w)[i].end + size < Slices(w)[k].start
    BY <2>3, <2>4, <2>5, <2>6
  <2>8. size = SliceSize(w.end - w.start, w.step)
    BY <2>0, Zenon DEF IsCut
  <2> QED BY <2>7, <2>8
<1> QED BY <1>1, <1>2

(* Slices begin at a natural number of seconds and end by the window's     *)
(* end.                                                                    *)
LEMMA SlicesAreTimes ==
    ASSUME NEW w, IsWindow(w), NEW i \in DOMAIN Slices(w)
    PROVE  /\ Slices(w)[i].start \in Nat /\ Slices(w)[i].end \in Int /\ i \in Nat
           /\ Slices(w)[i].end <= w.end
<1>0. w.start \in Nat /\ w.end \in Nat
  BY DEF IsWindow
<1>1. CASE w.end - w.start <= w.step
  <2>1. Slices(w) = <<[start |-> w.start, end |-> w.end]>>
    BY <1>1 DEF Slices
  <2> QED BY <2>1, <1>0
<1>2. CASE ~(w.end - w.start <= w.step)
  <2>0. PICK base \in Nat, size \in Nat \ {0}, n \in Nat \ {0} : IsCut(w, base, size, n)
    BY <1>2, SlicesFrom
  <2>1. /\ base <= w.start /\ w.start < base + size
        /\ base + (n - 1) * size < w.end /\ w.end <= base + n * size
        /\ Slices(w) = [k \in 1..n |->
             [start |-> base + (k - 1) * size,
              end |-> IF k = n THEN w.end ELSE (base + k * size) - 1]]
    BY <2>0, Zenon DEF IsCut
  <2>2. i \in 1..n
    BY <2>1
  <2>3. (i - 1) * size \in Nat /\ i * size \in Int /\ (n - 1) * size \in Int
    BY <2>2
  <2>4. Slices(w)[i] = [start |-> base + (i - 1) * size,
                        end |-> IF i = n THEN w.end ELSE (base + i * size) - 1]
    BY <2>1, <2>2
  <2>5. i # n => i * size <= (n - 1) * size
    BY <2>2, ProductGrows
  <2>6. (IF i = n THEN w.end ELSE (base + i * size) - 1) <= w.end
    BY <2>1, <2>3, <2>5, <1>0
  <2> QED BY <2>2, <2>3, <2>4, <2>6, <1>0
<1> QED BY <1>1, <1>2

(* Every time of the window is in a slice.                                 *)
LEMMA SliceOfTime ==
    ASSUME NEW w, IsWindow(w), NEW t \in w.start..w.end
    PROVE  \E i \in DOMAIN Slices(w) : t \in Slices(w)[i].start..Slices(w)[i].end
<1>0. w.start \in Nat /\ w.end \in Nat
  BY DEF IsWindow
<1>1. CASE w.end - w.start <= w.step
  <2>1. Slices(w) = <<[start |-> w.start, end |-> w.end]>>
    BY <1>1 DEF Slices
  <2>2. 1 \in DOMAIN Slices(w) /\ Slices(w)[1] = [start |-> w.start, end |-> w.end]
    BY <2>1
  <2> QED BY <2>2
<1>2. CASE ~(w.end - w.start <= w.step)
  <2>0. PICK base \in Nat, size \in Nat \ {0}, n \in Nat \ {0} : IsCut(w, base, size, n)
    BY <1>2, SlicesFrom
  <2>1. /\ base <= w.start /\ w.start < base + size
        /\ base + (n - 1) * size < w.end /\ w.end <= base + n * size
        /\ Slices(w) = [k \in 1..n |->
             [start |-> base + (k - 1) * size,
              end |-> IF k = n THEN w.end ELSE (base + k * size) - 1]]
    BY <2>0, Zenon DEF IsCut
  <2> DEFINE a == t - base
             q == a \div size
  <2>2. a \in Nat /\ t \in Int
    BY <1>0, <2>1
  <2>3. /\ q \in Nat /\ a % size \in Int
        /\ a = size * q + (a % size) /\ 0 <= a % size /\ a % size < size
    BY <2>2, DivMod, DivOfNat
  <2>4. t = base + a
    BY <2>2, <2>1
  <2> HIDE DEF q, a
  <2>5. /\ size * q = q * size /\ (q + 1) * size = q * size + size /\ q * size \in Nat
        /\ base + q * size <= t /\ t < base + (q + 1) * size
    BY <2>1, <2>2, <2>3, <2>4
  <2>6. CASE q + 1 < n
    <3>1. q + 1 \in 1..n /\ q + 1 # n
      BY <2>3, <2>6
    <3>2. Slices(w)[q + 1] = [start |-> base + q * size,
                              end |-> (base + (q + 1) * size) - 1]
      BY <3>1, <2>1, <2>3
    <3>3. q + 1 \in DOMAIN Slices(w)
      BY <3>1, <2>1
    <3>4. t \in (base + q * size)..((base + (q + 1) * size) - 1)
      BY <2>1, <2>2, <2>5
    <3> QED BY <3>2, <3>3, <3>4
  <2>7. CASE n <= q + 1
    <3>1. Slices(w)[n] = [start |-> base + (n - 1) * size, end |-> w.end]
          /\ n \in DOMAIN Slices(w)
      BY <2>1
    <3>2. (n - 1) * size <= q * size
      BY <2>7, <2>3, <2>1, ProductGrows
    <3>3. (n - 1) * size \in Int
      BY <2>1
    <3>4. t \in (base + (n - 1) * size)..w.end
      BY <3>2, <3>3, <2>1, <2>2, <2>5, <1>0
    <3> QED BY <3>1, <3>4
  <2>8. q + 1 < n \/ n <= q + 1
    BY <2>1, <2>3
  <2> QED BY <2>6, <2>7, <2>8, Zenon
<1> QED BY <1>1, <1>2
----------------------------------------------------------------------------
LEMMA WindowStays == Spec => [](window \in Windows)
<1>1. Init => window \in Windows
  BY DEF Init
<1>2. window \in Windows /\ [Next]_vars => (window \in Windows)'
  BY DEF Next, Arrive, Merge, LookForGaps, Terminated, vars
<1> QED BY <1>1, <1>2, PTL DEF Spec

(* sliceRange: whatever the look-back, the step and the alignment of the   *)
(* window, no time of it is a step or more after the last evaluation, and  *)
(* no two slices make the same one.                                        *)
THEOREM SlicesCover == Spec => []SlicesCoverWindow
<1>1. ASSUME window \in Windows PROVE SlicesCoverWindow
  <2> DEFINE s == Slices(window)
  <2>. IsWindow(window)
    BY <1>1, WindowsAre
  <2>0. window.step \in Nat \ {0}
    BY RangesAssumption DEF IsWindow
  <2>1. ASSUME NEW t \in window.start..window.end
        PROVE  \E p \in AllPoints(window) : p <= t /\ t < p + window.step
    <3>1. PICK i \in DOMAIN s : t \in s[i].start..s[i].end
      BY <1>1, SliceOfTime
    <3>2. s[i].start \in Int /\ s[i].end \in Int
      BY <1>1, <3>1, SlicesAreTimes
    <3>3. PICK p \in Points(s[i], window.step) : p <= t /\ t < p + window.step
      BY <3>1, <3>2, <2>0, PointBefore
    <3>4. p \in AllPoints(window)
      BY <3>1, <3>3 DEF AllPoints
    <3> QED BY <3>3, <3>4
  <2>2. ASSUME NEW i \in DOMAIN s, NEW j \in DOMAIN s, i < j
        PROVE  Points(s[i], window.step) \cap Points(s[j], window.step) = {}
    <3> SUFFICES ASSUME NEW p \in Points(s[i], window.step), p \in Points(s[j], window.step)
                 PROVE  FALSE
      OBVIOUS
    <3>1. /\ s[i].start \in Int /\ s[i].end \in Int
          /\ s[j].start \in Int /\ s[j].end \in Int
      BY <1>1, SlicesAreTimes
    <3>2. p \in Int /\ p <= s[i].end /\ s[j].start <= p
      BY <3>1, <2>0, PointsInside
    <3>3. s[i].end < s[j].start
      BY <1>1, <2>2, SlicesInOrder
    <3> QED BY <3>1, <3>2, <3>3
  <2>3. \A i \in DOMAIN s : i \in Nat
    BY <1>1, SlicesAreTimes
  <2> HIDE DEF s
  <2>4. \A i, j \in DOMAIN s :
          i # j => Points(s[i], window.step) \cap Points(s[j], window.step) = {}
    <3> SUFFICES ASSUME NEW i \in DOMAIN s, NEW j \in DOMAIN s, i # j
                 PROVE  Points(s[i], window.step) \cap Points(s[j], window.step) = {}
      OBVIOUS
    <3>1. i < j \/ j < i
      BY <2>3
    <3> QED BY <3>1, <2>2
  <2> QED BY <2>1, <2>4 DEF SlicesCoverWindow, s
<1> QED BY <1>1, WindowStays, PTL

(* The key says where a slice starts and, to a step, where it ends.        *)
LEMMA SameKey ==
    ASSUME NEW old, NEW new, NEW step \in Nat \ {0},
           old.end \in Int, new.end \in Int,
           CacheKey(old, step) = CacheKey(new, step)
    PROVE  old.start = new.start /\ new.end < old.end + step
<1>1. old.start = new.start /\ RoundTo(old.end, step) = RoundTo(new.end, step)
  BY DEF CacheKey
<1> DEFINE e == old.end
           f == new.end
           x == RoundTo(e, step)
           y == RoundTo(f, step)
           r == e % step
           q == f % step
<1>2. e \in Int /\ f \in Int /\ x = y
  BY <1>1
<1>3. r \in Nat /\ r < step /\ x = IF r + r < step THEN e - r ELSE e - r + step
  BY <1>2, RoundsNearby, Zenon
<1>4. q \in Nat /\ q < step /\ y = IF q + q < step THEN f - q ELSE f - q + step
  BY <1>2, RoundsNearby, Zenon
<1> HIDE DEF r, q, x, y
<1>5. f < e + step
  <2> HIDE DEF e, f
  <2>1. x \in Int /\ x + x <= (e + e) + step
    BY <1>2, <1>3
  <2>2. y \in Int /\ f + f < (y + y) + step
    BY <1>2, <1>4
  <2> QED BY <1>2, <2>1, <2>2
<1> QED BY <1>1, <1>5

(* A whole number of steps after the start.                                *)
IsPoint(p, start, step) == \E k \in Nat : p = start + k * step

(* Of two ranges with the same start, every evaluation of the one that the *)
(* other lacks is after the end of the other.                              *)
LEMMA PointAfterEnd ==
    ASSUME NEW old, NEW new, NEW step \in Nat \ {0}, old.start = new.start,
           new.start \in Int, old.end \in Int, new.end \in Int,
           NEW p \in Points(new, step), p \notin Points(old, step)
    PROVE  old.end < p /\ p <= new.end /\ IsPoint(p, new.start, step)
<1> DEFINE m == (new.end - new.start) \div step
           n == (old.end - old.start) \div step
           b == old.end - old.start
<1>1. p \in Int /\ p <= new.end
  BY PointsInside
<1>2. PICK k \in 0..m : p = new.start + k * step
  BY DEF Points
<1>3. k \in Nat
  BY <1>2
<1>4. b \in Int
  OBVIOUS
<1>5. /\ n \in Int /\ b % step \in Int
      /\ b = step * n + (b % step) /\ b % step < step
  BY <1>4, DivMod
<1> HIDE DEF n, m
<1>6. n < k
  <2> SUFFICES ASSUME k <= n PROVE FALSE
    BY <1>3, <1>5
  <2>1. k \in 0..n
    BY <1>3, <1>5
  <2>2. old.start + k * step \in Points(old, step)
    BY <2>1 DEF Points, n
  <2> QED BY <2>2, <1>2
<1>7. (n + 1) * step <= k * step
  BY <1>3, <1>5, <1>6, ProductGrows
<1>8. (n + 1) * step = step * n + step /\ k * step \in Int /\ step * n \in Int
  BY <1>3, <1>5
<1>9. old.end < p
  BY <1>2, <1>5, <1>7, <1>8
<1> QED BY <1>1, <1>2, <1>3, <1>9 DEF IsPoint

(* rangeQuery.CacheKey: of any window the check asks about, a slice in the *)
(* cache from any time before lacks one evaluation at most.                *)
THEOREM CacheLacksOnePoint == Spec => []CacheHidesOnePoint
<1>1. ASSUME window \in Windows PROVE CacheHidesOnePoint
  <2> SUFFICES ASSUME NEW d \in 0..(2 * SliceBase), d <= window.start
               PROVE  LET earlier == [window EXCEPT !.start = @ - d, !.end = @ - d] IN
                      \A i \in DOMAIN Slices(earlier), j \in DOMAIN Slices(window) :
                        LET old == Slices(earlier)[i]  new == Slices(window)[j] IN
                        CacheKey(old, window.step) = CacheKey(new, window.step) =>
                          Cardinality(Points(new, window.step) \ Points(old, window.step)) <= 1
    BY Zenon DEF CacheHidesOnePoint
  <2> DEFINE earlier == [window EXCEPT !.start = @ - d, !.end = @ - d]
  <2>1. IsWindow(window) /\ window.step \in Nat \ {0}
    BY <1>1, WindowsAre, RangesAssumption DEF IsWindow
  <2>2. IsWindow(earlier)
    <3>1. PICK s \in Starts, l \in Lookbacks, step \in Steps :
            window = [start |-> s, end |-> s + l, step |-> step]
      BY <1>1 DEF Windows
    <3>2. s \in Nat /\ l \in Nat \ {0} /\ SliceBase \in Nat
      BY RangesAssumption
    <3>3. /\ earlier.start = window.start - d /\ earlier.end = window.end - d
          /\ earlier.step = window.step
      BY <3>1
    <3>4. window.start = s /\ window.end = s + l /\ window.step = step
      BY <3>1
    <3> HIDE DEF earlier
    <3>5. earlier.start = s - d /\ earlier.end = (s + l) - d /\ earlier.step = step
      BY <3>3, <3>4, Zenon
    <3>6. s - d \in Nat /\ (s + l) - d \in Nat /\ ((s + l) - d) - (s - d) \in Nat \ {0}
      BY <3>2, <3>4
    <3> QED BY <3>5, <3>6 DEF IsWindow
  <2> HIDE DEF earlier
  <2>3. ASSUME NEW i \in DOMAIN Slices(earlier), NEW j \in DOMAIN Slices(window),
               CacheKey(Slices(earlier)[i], window.step)
                 = CacheKey(Slices(window)[j], window.step)
        PROVE  Cardinality(Points(Slices(window)[j], window.step)
                             \ Points(Slices(earlier)[i], window.step)) <= 1
    <3> DEFINE old == Slices(earlier)[i]
               new == Slices(window)[j]
               step == window.step
               hidden == Points(new, step) \ Points(old, step)
    <3>1. new.start \in Int /\ new.end \in Int
      BY <2>1, SlicesAreTimes
    <3>2. old.end \in Int
      BY <2>2, SlicesAreTimes
    <3>3. CacheKey(old, step) = CacheKey(new, step) /\ step \in Nat \ {0}
      BY <2>1, <2>3
    <3> HIDE DEF old, new, step
    <3>4. old.start = new.start /\ new.end < old.end + step
      BY <3>1, <3>2, <3>3, SameKey
    <3>5. ASSUME NEW p \in hidden, NEW q \in hidden PROVE p = q
      <4>1. old.end < p /\ p <= new.end /\ IsPoint(p, new.start, step)
        <5>1. p \in Points(new, step) /\ p \notin Points(old, step)
          BY Zenon
        <5> HIDE DEF hidden
        <5> QED BY <5>1, <3>1, <3>2, <3>3, <3>4, PointAfterEnd
      <4>2. old.end < q /\ q <= new.end /\ IsPoint(q, new.start, step)
        <5>1. q \in Points(new, step) /\ q \notin Points(old, step)
          BY Zenon
        <5> HIDE DEF hidden
        <5> QED BY <5>1, <3>1, <3>2, <3>3, <3>4, PointAfterEnd
      <4>3. PICK k \in Nat : p = new.start + k * step
        BY <4>1 DEF IsPoint
      <4>4. PICK m \in Nat : q = new.start + m * step
        BY <4>2 DEF IsPoint
      <4>5. k * step \in Int /\ m * step \in Int
        BY <3>3
      <4>6. k * step < m * step + step /\ m * step < k * step + step
        BY <3>1, <3>2, <3>3, <3>4, <4>1, <4>2, <4>3, <4>4, <4>5
      <4>7. ~(k + 1 <= m)
        <5> SUFFICES ASSUME k + 1 <= m PROVE FALSE
          OBVIOUS
        <5>1. (k + 1) * step <= m * step
          BY <3>3, ProductGrows
        <5>2. (k + 1) * step = k * step + step
          BY <3>3
        <5> QED BY <5>1, <5>2, <4>5, <4>6, <3>3
      <4>8. ~(m + 1 <= k)
        <5> SUFFICES ASSUME m + 1 <= k PROVE FALSE
          OBVIOUS
        <5>1. (m + 1) * step <= k * step
          BY <3>3, ProductGrows
        <5>2. (m + 1) * step = m * step + step
          BY <3>3
        <5> QED BY <5>1, <5>2, <4>5, <4>6, <3>3
      <4>9. k = m
        BY <4>7, <4>8
      <4> QED BY <4>3, <4>4, <4>9
    <3> HIDE DEF hidden
    <3>6. hidden = {} \/ \E p : hidden = {p}
      <4> SUFFICES ASSUME NEW p \in hidden PROVE hidden = {p}
        OBVIOUS
      <4> QED BY <3>5
    <3>7. Cardinality(hidden) = 0 \/ Cardinality(hidden) = 1
      BY <3>6, FS_EmptySet, FS_Singleton, Zenon
    <3>8. Cardinality(hidden) <= 1
      BY <3>7
    <3> QED BY <3>8, Zenon DEF hidden, new, old, step
  <2> QED BY <2>3, Zenon DEF earlier
<1> QED BY <1>1, WindowStays, PTL
----------------------------------------------------------------------------
(* The evaluations of a window are bounded: it ends.                       *)
LEMMA EvaluationsAreTimes ==
    ASSUME NEW w, IsWindow(w), NEW S, S \subseteq AllPoints(w)
    PROVE  Bounded(S)
<1>1. w.end \in Nat /\ w.step \in Nat \ {0}
  BY RangesAssumption DEF IsWindow
<1>2. ASSUME NEW p \in S PROVE p \in Nat /\ p <= w.end
  <2>1. PICK i \in DOMAIN Slices(w) : p \in Points(Slices(w)[i], w.step)
    BY DEF AllPoints
  <2> DEFINE r == Slices(w)[i]
  <2>2. r.start \in Nat /\ r.end \in Int /\ r.end <= w.end
    BY SlicesAreTimes
  <2>3. p \in Points(r, w.step)
    BY <2>1
  <2> HIDE DEF r
  <2>4. r.start \in Int
    BY <2>2
  <2>5. p \in Int /\ r.start <= p /\ p <= r.end
    BY <1>1, <2>2, <2>3, <2>4, PointsInside
  <2> QED
    BY <1>1, <2>2, <2>5
<1> QED
  BY <1>1, <1>2 DEF Bounded

LEMMA PartIsBounded ==
    ASSUME NEW S, Bounded(S), NEW T, T \subseteq S
    PROVE  Bounded(T)
BY DEF Bounded

LEMMA InPieceStays ==
    ASSUME NEW step \in Nat, NEW s \in Seq(TimeRange), NEW t \in Seq(TimeRange),
           HoldsAll(t, s), NEW x \in Nat, InPiece(x, s, step)
    PROVE  InPiece(x, t, step)
<1>1. PICK r \in ToSet(s) : r.start <= x /\ x <= r.end - step
  BY Zenon DEF InPiece
<1>2. PICK q \in ToSet(t) : q.start <= r.start /\ r.end <= q.end
  BY Zenon DEF HoldsAll, HoldsRange
<1>3. r \in TimeRange /\ q \in TimeRange
  BY ElementsOf
<1>4. q.start <= x /\ x <= q.end - step
  BY <1>1, <1>2, <1>3 DEF TimeRange
<1> QED
  BY <1>4, Zenon DEF InPiece

(* Appending ranges adds them and nothing else.                            *)
LEMMA JoinedElements ==
    ASSUME NEW s \in Seq(TimeRange), NEW t \in Seq(TimeRange)
    PROVE  s \o t \in Seq(TimeRange) /\ ToSet(s \o t) = ToSet(s) \cup ToSet(t)
<1> DEFINE n == Len(s)
           m == Len(t)
           u == s \o t
<1>1. /\ n \in Nat /\ m \in Nat /\ u \in Seq(TimeRange) /\ Len(u) = n + m
      /\ \A i \in 1..n : u[i] = s[i]
      /\ \A i \in 1..m : u[n + i] = t[i]
  OBVIOUS
<1> HIDE DEF u
<1>2. /\ \A i \in 1..(n + m) : u[i] \in ToSet(u)
      /\ \A r \in ToSet(u) : \E i \in 1..(n + m) : r = u[i]
  BY <1>1, ElementsOf
<1>3. /\ \A i \in 1..n : s[i] \in ToSet(s)
      /\ \A r \in ToSet(s) : \E i \in 1..n : r = s[i]
  BY ElementsOf
<1>4. /\ \A i \in 1..m : t[i] \in ToSet(t)
      /\ \A r \in ToSet(t) : \E i \in 1..m : r = t[i]
  BY ElementsOf
<1> HIDE DEF n, m
<1>5. ASSUME NEW r \in ToSet(u) PROVE r \in ToSet(s) \cup ToSet(t)
  <2>1. PICK i \in 1..(n + m) : r = u[i]
    BY <1>2
  <2>2. CASE i <= n
    BY <1>1, <1>3, <2>1, <2>2
  <2>3. CASE ~(i <= n)
    <3>1. i - n \in 1..m /\ n + (i - n) = i
      BY <1>1, <2>3
    <3>2. u[i] = t[i - n]
      BY <1>1, <3>1, Zenon
    <3> QED
      BY <1>4, <2>1, <3>1, <3>2, Zenon
  <2> QED
    BY <2>2, <2>3
<1>6. ASSUME NEW r \in ToSet(s) PROVE r \in ToSet(u)
  <2>1. PICK i \in 1..n : r = s[i]
    BY <1>3
  <2>2. i \in 1..(n + m) /\ u[i] = s[i]
    BY <1>1
  <2> QED
    BY <1>2, <2>1, <2>2, Zenon
<1>7. ASSUME NEW r \in ToSet(t) PROVE r \in ToSet(u)
  <2>1. PICK i \in 1..m : r = t[i]
    BY <1>4
  <2>2. n + i \in 1..(n + m) /\ u[n + i] = t[i]
    BY <1>1
  <2> QED
    BY <1>2, <2>1, <2>2, Zenon
<1>8. ToSet(u) = ToSet(s) \cup ToSet(t)
  BY <1>5, <1>6, <1>7
<1> QED
  BY <1>1, <1>8, Zenon DEF u

(* Once all slices have arrived and are merged, their ranges cover what    *)
(* the runs of all the samples cover.                                      *)
LEMMA InvCovers ==
    ASSUME RangesInv, pc # "querying", NEW t \in Nat
    PROVE  Covers(ranges, t) <=> Within(t, present, window.step)
<1>1. window \in Windows /\ present \subseteq AllPoints(window) /\ left = {}
      /\ ranges \in Seq(TimeRange) /\ ArePieces(ranges, present, window.step)
      /\ NoneFollows(ranges, window.step)
  BY DEF RangesInv, TimeRange
<1>2. IsWindow(window) /\ window.step \in Nat \ {0}
  BY <1>1, WindowsAre, RangesAssumption DEF IsWindow
<1>3. Bounded(present)
  BY <1>1, <1>2, EvaluationsAreTimes
<1>4. ASSUME NEW x \in present PROVE InPiece(x, ranges, window.step)
  <2>1. PICK i \in DOMAIN Slices(window) : x \in Points(Slices(window)[i], window.step)
    BY <1>1 DEF AllPoints
  <2>2. i \in DOMAIN Slices(window) \ left
    BY <1>1
  <2> QED
    BY <2>1, <2>2 DEF RangesInv
<1>5. PieceList(ranges, present, window.step)
  BY <1>1 DEF PieceList
<1> DEFINE step == window.step
<1>6. /\ step \in Nat \ {0} /\ PieceList(ranges, present, step) /\ NoneFollows(ranges, step)
      /\ \A x \in present : InPiece(x, ranges, step)
  BY <1>1, <1>2, <1>4, <1>5
<1> HIDE DEF step
<1>7. Covers(ranges, t) <=> Within(t, present, step)
  BY <1>3, <1>6, PiecesCover
<1> QED
  BY <1>7 DEF step

(* Nothing has arrived: there is nothing to say.                           *)
LEMMA InitRanges == Init => RangesInv
<1> SUFFICES ASSUME Init PROVE RangesInv
  OBVIOUS
<1>1. /\ window \in Windows /\ present \subseteq AllPoints(window)
      /\ left = DOMAIN Slices(window) /\ ranges = <<>> /\ pc = "querying"
  BY DEF Init
<1>2. ranges \in Seq([start : Nat, end : Nat]) /\ ToSet(ranges) = {}
  BY <1>1 DEF ToSet
<1>3. ArePieces(ranges, present, window.step)
  BY <1>2 DEF ArePieces
<1>4. GapsAreReal
  BY <1>1 DEF GapsAreReal
<1>5. DOMAIN Slices(window) \ left = {}
  BY <1>1
<1> QED
  BY <1>1, <1>2, <1>3, <1>4, <1>5 DEF RangesInv

(* The runs of a slice's samples are pieces of the runs of all of them.    *)
LEMMA ArriveKeeps ==
    ASSUME RangesInv, NEW i \in left, Arrive(i)
    PROVE  RangesInv'
<1> DEFINE step == window.step
           S == present \cap Points(Slices(window)[i], step)
           N == RangesOf(S, step)
<1>1. /\ pc = "querying" /\ left' = left \ {i} /\ ranges' = ranges \o N
      /\ window' = window /\ present' = present /\ pc' = pc /\ gaps' = gaps /\ up' = up
  BY DEF Arrive
<1>2. /\ window \in Windows /\ present \subseteq AllPoints(window)
      /\ left \subseteq DOMAIN Slices(window)
      /\ ranges \in Seq(TimeRange) /\ ArePieces(ranges, present, step)
      /\ \A j \in DOMAIN Slices(window) \ left :
           \A t \in present \cap Points(Slices(window)[j], step) : InPiece(t, ranges, step)
  BY DEF RangesInv, TimeRange
<1>3. IsWindow(window) /\ step \in Nat \ {0}
  BY <1>2, WindowsAre, RangesAssumption DEF IsWindow
<1>4. Bounded(present) /\ present \subseteq Nat
  BY <1>2, <1>3, EvaluationsAreTimes DEF Bounded
<1>5. Bounded(S) /\ S \subseteq present
  BY <1>4, PartIsBounded
<1>6. RunList(N, S, step)
  <2> HIDE DEF S, step
  <2> QED
    BY <1>3, <1>5, SamplesBecomeRuns
<1> HIDE DEF N
<1>7. N \in Seq(TimeRange) /\ ArePieces(N, S, step) /\ \A t \in S : InPiece(t, N, step)
  BY <1>6, RunsArePieces
<1>8. ArePieces(N, present, step)
  <2> SUFFICES ASSUME NEW r \in ToSet(N) PROVE IsPiece(r, present, step)
    BY DEF ArePieces
  <2>1. r \in TimeRange /\ IsPiece(r, S, step)
    BY <1>7, ElementsOf DEF ArePieces
  <2> HIDE DEF S, step
  <2> QED
    BY <1>3, <1>4, <1>5, <2>1, PiecesGrow
<1>9. ranges' \in Seq(TimeRange) /\ ToSet(ranges') = ToSet(ranges) \cup ToSet(N)
  BY <1>1, <1>2, <1>7, JoinedElements
<1>10. ArePieces(ranges', present, step)
  BY <1>2, <1>8, <1>9, Zenon DEF ArePieces
<1>11. ASSUME NEW j \in DOMAIN Slices(window) \ left',
              NEW t \in present \cap Points(Slices(window)[j], step)
       PROVE  InPiece(t, ranges', step)
  <2>1. CASE j = i
    <3>1. InPiece(t, N, step)
      BY <1>7, <2>1
    <3> QED
      BY <1>9, <3>1, Zenon DEF InPiece
  <2>2. CASE j # i
    <3>1. j \in DOMAIN Slices(window) \ left
      BY <1>1, <2>2
    <3>2. InPiece(t, ranges, step)
      BY <1>2, <3>1
    <3> QED
      BY <1>9, <3>2, Zenon DEF InPiece
  <2> QED
    BY <2>1, <2>2
<1>12. GapsAreReal'
  BY <1>1 DEF GapsAreReal
<1> QED
  BY <1>1, <1>2, <1>9, <1>10, <1>11, <1>12, Zenon DEF RangesInv, TimeRange

(* Merging keeps the pieces, and no two of them are left to be joined.     *)
LEMMA MergeStepKeeps ==
    ASSUME RangesInv, Merge
    PROVE  RangesInv'
<1> DEFINE step == window.step
           M == IF Len(ranges) > 1 THEN MergeRanges(ranges, window.step) ELSE ranges
<1>1. /\ left = {} /\ ranges' = Sorted(M) /\ pc' = "merged" /\ pc = "querying"
      /\ window' = window /\ present' = present /\ left' = left
  BY DEF Merge
<1>2. /\ window \in Windows /\ present \subseteq AllPoints(window)
      /\ left \subseteq DOMAIN Slices(window)
      /\ ranges \in Seq(TimeRange) /\ ArePieces(ranges, present, step)
      /\ \A j \in DOMAIN Slices(window) \ left :
           \A t \in present \cap Points(Slices(window)[j], step) : InPiece(t, ranges, step)
  BY DEF RangesInv, TimeRange
<1>3. IsWindow(window) /\ step \in Nat \ {0}
  BY <1>2, WindowsAre, RangesAssumption DEF IsWindow
<1>4. present \subseteq Nat
  BY <1>2, <1>3, EvaluationsAreTimes DEF Bounded
<1>5. PieceList(ranges, present, step) /\ HoldsAll(ranges, ranges)
  BY <1>2, HoldsItself DEF PieceList
<1>6. PieceList(M, present, step) /\ HoldsAll(M, ranges) /\ NoneFollows(M, step)
  <2>1. CASE Len(ranges) > 1
    <3>1. M = MergeRanges(ranges, step)
      BY <2>1
    <3> HIDE DEF M, step
    <3> QED
      BY <1>3, <1>4, <1>5, <3>1, MergeKeeps
  <2>2. CASE ~(Len(ranges) > 1)
    <3>1. M = ranges
      BY <2>2
    <3>2. ASSUME NEW r \in ToSet(ranges), NEW q \in ToSet(ranges) PROVE ~(r.end < q.start)
      <4>1. PICK a \in 1..Len(ranges) : r = ranges[a]
        BY <1>2, ElementsOf
      <4>2. PICK b \in 1..Len(ranges) : q = ranges[b]
        BY <1>2, ElementsOf
      <4>3. a = b
        <5>1. Len(ranges) \in Nat
          BY <1>2
        <5> QED
          BY <2>2, <5>1
      <4>4. q \in TimeRange /\ IsPiece(q, present, step) /\ r = q
        BY <1>2, <4>1, <4>2, <4>3, ElementsOf DEF ArePieces
      <4> HIDE DEF step
      <4>5. q.start + step <= q.end /\ q.start \in Nat /\ q.end \in Nat
        BY <4>4 DEF IsPiece, TimeRange
      <4> QED
        BY <1>3, <4>4, <4>5
    <3>3. NoneFollows(ranges, step)
      BY <3>2, Zenon DEF NoneFollows
    <3> QED
      BY <1>5, <3>1, <3>3
  <2> QED
    BY <2>1, <2>2
<1> HIDE DEF M
<1>7. /\ PieceList(ranges', present, step) /\ HoldsAll(ranges', M)
      /\ NoneFollows(ranges', step)
  BY <1>1, <1>6, SortedSettles
<1>8. ranges' \in Seq(TimeRange) /\ M \in Seq(TimeRange) /\ ArePieces(ranges', present, step)
  BY <1>6, <1>7 DEF PieceList
<1>9. HoldsAll(ranges', ranges)
  BY <1>2, <1>6, <1>7, <1>8, HeldOnce
<1>10. ASSUME NEW j \in DOMAIN Slices(window) \ left,
              NEW t \in present \cap Points(Slices(window)[j], step)
       PROVE  InPiece(t, ranges', step)
  <2>1. InPiece(t, ranges, step) /\ t \in Nat
    BY <1>2, <1>4
  <2> HIDE DEF step
  <2> QED
    BY <1>2, <1>3, <1>8, <1>9, <2>1, InPieceStays
<1>11. GapsAreReal'
  BY <1>1 DEF GapsAreReal
<1> QED
  BY <1>1, <1>2, <1>7, <1>8, <1>10, <1>11, Zenon DEF RangesInv, TimeRange

(* The gaps are looked for in what the merged ranges cover exactly.        *)
LEMMA GapsKeeps ==
    ASSUME RangesInv, LookForGaps
    PROVE  RangesInv'
<1> DEFINE step == window.step
<1>1. PICK points \in SUBSET AllPoints(window) :
         /\ up' = points
         /\ gaps' = FindGaps(ranges, RangesOf(points, window.step), window)
  BY Zenon DEF LookForGaps
<1>2. /\ pc = "merged" /\ pc' = "done"
      /\ window' = window /\ present' = present /\ left' = left /\ ranges' = ranges
  BY DEF LookForGaps
<1>3. /\ window \in Windows /\ present \subseteq AllPoints(window)
      /\ left = {} /\ NoneFollows(ranges, window.step)
  BY <1>2 DEF RangesInv
<1>4. IsWindow(window) /\ step \in Nat \ {0}
  BY <1>3, WindowsAre, RangesAssumption DEF IsWindow
<1> DEFINE P == Points(window, step)
           T == {t \in P : ~Covers(ranges, t) /\ Covers(RangesOf(points, step), t)}
           U == {t \in P : ~Within(t, present, step) /\ Within(t, points, step)}
<1>5. P \subseteq Nat /\ \A p \in P : p <= window.end
  <2>1. window.start \in Int /\ window.end \in Int /\ window.start \in Nat
    BY <1>4 DEF IsWindow
  <2>2. \A p \in P : p \in Int /\ window.start <= p /\ p <= window.end
    <3> HIDE DEF step
    <3> QED
      BY <1>4, <2>1, PointsInside
  <2> HIDE DEF P
  <2> QED
    BY <2>1, <2>2
<1>6. Bounded(points)
  BY <1>3, <1>4, EvaluationsAreTimes
<1>7. ASSUME NEW t \in P
      PROVE  /\ Covers(ranges, t) <=> Within(t, present, step)
             /\ Covers(RangesOf(points, step), t) <=> Within(t, points, step)
  <2>1. t \in Nat
    BY <1>5
  <2>2. Covers(ranges, t) <=> Within(t, present, step)
    BY <1>2, <2>1, InvCovers
  <2> HIDE DEF step
  <2>3. Covers(RangesOf(points, step), t) <=> Within(t, points, step)
    BY <1>4, <1>6, WithinRuns
  <2> QED
    BY <2>2, <2>3
<1>8. T = U
  <2> HIDE DEF P, step
  <2> QED
    BY <1>7, Zenon
<1>9. Bounded(T)
  <2>1. Bounded(P)
    <3>1. window.end \in Nat
      BY <1>4 DEF IsWindow
    <3> HIDE DEF P
    <3> QED
      BY <1>5, <3>1 DEF Bounded
  <2>2. T \subseteq P
    <3> HIDE DEF P
    <3> QED
      OBVIOUS
  <2> HIDE DEF T, P
  <2> QED
    BY <2>1, <2>2, PartIsBounded
<1>10. ToSet(RangesOf(T, step)) = Runs(T, step)
  <2> HIDE DEF T, step
  <2> QED
    BY <1>4, <1>9, SamplesBecomeRuns
<1>11. gaps' = RangesOf(T, step)
  BY <1>1, Zenon DEF FindGaps
<1>12. ToSet(gaps') = Runs(U, step)
  <2> HIDE DEF T, U, step
  <2> QED
    BY <1>8, <1>10, <1>11, Zenon
<1>13. GapsAreReal'
  <2>1. U = {t \in Points(window', window'.step) :
                  /\ ~Within(t, present', window'.step)
                  /\ Within(t, up', window'.step)} /\ step = window'.step
    BY <1>1, <1>2, Zenon
  <2> HIDE DEF U, step
  <2> QED
    BY <1>12, <2>1, Zenon DEF GapsAreReal
<1> QED
  BY <1>2, <1>3, <1>13, Zenon DEF RangesInv

(* The inductive invariant: whatever has arrived, in whatever order, is in *)
(* pieces of the runs of all the samples; merged, none follows another.    *)
THEOREM RangesInvariant == Spec => []RangesInv
<1>1. Init => RangesInv
  BY InitRanges
<1>2. RangesInv /\ [Next]_vars => RangesInv'
  <2> SUFFICES ASSUME RangesInv, [Next]_vars PROVE RangesInv'
    OBVIOUS
  <2>1. ASSUME NEW i \in left, Arrive(i) PROVE RangesInv'
    BY <2>1, ArriveKeeps
  <2>2. CASE Merge
    BY <2>2, MergeStepKeeps
  <2>3. CASE LookForGaps
    BY <2>3, GapsKeeps
  <2>4. CASE Terminated \/ UNCHANGED vars
    BY <2>4 DEF Terminated, vars, RangesInv, GapsAreReal
  <2> QED
    BY <2>1, <2>2, <2>3, <2>4, Zenon DEF Next
<1> QED
  BY <1>1, <1>2, PTL DEF Spec

(* MergeRanges: for any window, samples and order of arrival, the merged   *)
(* ranges cover the runs of the samples and no time besides.               *)
THEOREM CoverageIsExact == Spec => []RangesCoverRuns
<1>1. RangesInv => RangesCoverRuns
  <2> SUFFICES ASSUME RangesInv, pc # "querying"
               PROVE  UNION {r.start..r.end : r \in ToSet(ranges)} =
                        UNION {r.start..r.end : r \in Runs(present, window.step)}
    BY DEF RangesCoverRuns
  <2> DEFINE step == window.step
  <2>1. /\ window \in Windows /\ present \subseteq AllPoints(window)
        /\ ranges \in Seq(TimeRange)
    BY DEF RangesInv, TimeRange
  <2>2. IsWindow(window) /\ step \in Nat \ {0}
    BY <2>1, WindowsAre, RangesAssumption DEF IsWindow
  <2>3. Bounded(present)
    BY <2>1, <2>2, EvaluationsAreTimes
  <2>4. PICK K : K \in Seq(TimeRange) /\ ToSet(K) = Runs(present, step)
    <3> HIDE DEF step
    <3> QED
      BY <2>2, <2>3, SamplesBecomeRuns DEF RunList
  <2>5. \A r \in ToSet(ranges) \cup Runs(present, step) : r.start \in Nat /\ r.end \in Nat
    BY <2>1, <2>4, ElementsOf DEF TimeRange
  <2>6. /\ DOMAIN ranges = 1..Len(ranges)
        /\ \A j \in 1..Len(ranges) : ranges[j] \in ToSet(ranges)
        /\ \A r \in ToSet(ranges) : \E j \in 1..Len(ranges) : r = ranges[j]
    BY <2>1, ElementsOf
  <2>7. \A t : Covers(ranges, t) <=> \E r \in ToSet(ranges) : r.start <= t /\ t <= r.end
    BY <2>6, Zenon DEF Covers
  <2>8. \A t \in Nat : Covers(ranges, t) <=> Within(t, present, step)
    BY InvCovers
  <2>9. \A t \in Nat : (\E r \in ToSet(ranges) : r.start <= t /\ t <= r.end)
                          <=> \E r \in Runs(present, step) : r.start <= t /\ t <= r.end
    BY <2>7, <2>8, Zenon DEF Within
  <2> DEFINE A == ToSet(ranges)
             B == Runs(present, step)
  <2> HIDE DEF A, B
  <2>10. \A t \in Nat : (\E r \in A : r.start <= t /\ t <= r.end)
                          <=> \E r \in B : r.start <= t /\ t <= r.end
    BY <2>9, Zenon DEF A, B
  <2>11. \A r \in A \cup B : r.start \in Nat /\ r.end \in Nat
    BY <2>5, Zenon DEF A, B
  <2>12. UNION {r.start..r.end : r \in A} = UNION {r.start..r.end : r \in B}
    <3>1. ASSUME NEW C, NEW D, \A r \in C \cup D : r.start \in Nat /\ r.end \in Nat,
                 \A t \in Nat : (\E r \in C : r.start <= t /\ t <= r.end)
                                  => \E r \in D : r.start <= t /\ t <= r.end,
                 NEW t \in UNION {r.start..r.end : r \in C}
          PROVE  t \in UNION {r.start..r.end : r \in D}
      <4>1. PICK r \in C : t \in r.start..r.end
        OBVIOUS
      <4>2. t \in Nat /\ r.start <= t /\ t <= r.end
        BY <3>1, <4>1
      <4>3. PICK q \in D : q.start <= t /\ t <= q.end
        BY <3>1, <4>2
      <4>4. t \in q.start..q.end
        BY <3>1, <4>2, <4>3
      <4> QED
        BY <4>4
    <3>2. \A r \in B \cup A : r.start \in Nat /\ r.end \in Nat
      BY <2>11
    <3>3. ASSUME NEW t \in UNION {r.start..r.end : r \in A}
          PROVE  t \in UNION {r.start..r.end : r \in B}
      BY <2>10, <2>11, <3>1, Zenon
    <3>4. ASSUME NEW t \in UNION {r.start..r.end : r \in B}
          PROVE  t \in UNION {r.start..r.end : r \in A}
      BY <2>10, <3>1, <3>2, Zenon
    <3> QED
      BY <3>3, <3>4
  <2> QED
    BY <2>12 DEF A, B
<1> QED
  BY <1>1, RangesInvariant, PTL

(* Pieces that are in order and more than a step apart are the runs, if    *)
(* all samples are in them.                                                *)
FarApart(s, step) == \A i, j \in 1..Len(s) : i < j => s[i].end + step < s[j].start

LEMMA PiecesAreRuns ==
    ASSUME NEW step \in Nat \ {0}, NEW S, S \subseteq Nat, NEW s, PieceList(s, S, step),
           \A x \in S : InPiece(x, s, step), FarApart(s, step)
    PROVE  RunList(s, S, step)
<1>1. /\ s \in Seq(TimeRange)
      /\ \A i \in 1..Len(s) : s[i] \in ToSet(s) /\ s[i] \in TimeRange
      /\ \A r \in ToSet(s) : \E i \in 1..Len(s) : r = s[i]
  BY ElementsOf DEF PieceList
<1>2. ASSUME NEW i \in 1..Len(s) PROVE IsPiece(s[i], S, step)
  BY <1>1, Zenon DEF PieceList, ArePieces
<1>3. \A x \in S : \E i \in 1..Len(s) : s[i].start <= x /\ x <= s[i].end - step
  BY <1>1, Zenon DEF InPiece
<1>4. ASSUME NEW i \in 1..Len(s), NEW x \in S, s[i].start < x, x <= s[i].end - step
      PROVE  \E y \in S : y < x /\ x <= y + 2 * step
  <2> DEFINE r == s[i]
  <2>1. r \in TimeRange /\ IsPiece(r, S, step) /\ r.start < x /\ x <= r.end - step
    BY <1>1, <1>2, <1>4
  <2> HIDE DEF r
  <2>2. r.start \in S /\ r.start \in Nat /\ r.end \in Nat /\ x \in Nat
    BY <2>1 DEF IsPiece, TimeRange
  <2>3. x - 1 \in Nat /\ r.start <= x - 1
    BY <2>1, <2>2
  <2>4. PICK y \in S : r.start <= y /\ y <= x - 1 /\ \A z \in S : z <= x - 1 => z <= y
    BY <2>2, <2>3, GreatestUpTo
  <2>5. y \in Nat /\ y < r.end - step /\ y < x
    BY <2>1, <2>2, <2>4
  <2>6. PICK z \in S : y < z /\ z <= y + 2 * step /\ z <= r.end - step
    BY <2>1, <2>4, <2>5, Zenon DEF IsPiece
  <2>7. z \in Nat /\ ~(z <= x - 1)
    BY <2>4, <2>5, <2>6
  <2>8. x <= y + 2 * step
    BY <2>2, <2>5, <2>6, <2>7
  <2> QED
    BY <2>5, <2>8
<1>5. \A i \in 1..Len(s) : s[i].start \in S /\ s[i].end - step \in S /\ s[i].start + step <= s[i].end
  BY <1>2, Zenon DEF IsPiece
<1>6. \A i \in 1..Len(s), x \in S : s[i].start <= x /\ x < s[i].end - step =>
         \E y \in S : x < y /\ y <= x + 2 * step /\ y <= s[i].end - step
  BY <1>2, Zenon DEF IsPiece
<1>7. \A i, j \in 1..Len(s) : i < j => s[i].end + step < s[j].start
  BY Zenon DEF FarApart
<1> QED
  BY <1>1, <1>3, <1>4, <1>5, <1>6, <1>7, Zenon DEF RunList

(* Chained ranges of which no two touch are that when they are in order.   *)
LEMMA OrderedAreApart ==
    ASSUME NEW step \in Nat \ {0}, NEW s \in Seq(TimeRange), IsInjective(s),
           \A r \in ToSet(s) : r.start + step <= r.end, Untouched(s, step), InOrder(s)
    PROVE  FarApart(s, step)
<1> SUFFICES ASSUME NEW i \in 1..Len(s), NEW j \in 1..Len(s), i < j
             PROVE  s[i].end + step < s[j].start
  BY DEF FarApart
<1>1. /\ DOMAIN s = 1..Len(s) /\ s[i] \in ToSet(s) /\ s[j] \in ToSet(s)
      /\ s[i] \in TimeRange /\ s[j] \in TimeRange
  BY ElementsOf
<1>2. i # j
  OBVIOUS
<1>3. s[i] # s[j]
  BY <1>1, <1>2, Zenon DEF IsInjective
<1>4. ~Touch(s[i], s[j], step)
  BY <1>1, <1>3, Zenon DEF Untouched
<1>5. s[i].start <= s[j].start
  BY Zenon DEF InOrder
<1>6. s[j].start + step <= s[j].end
  BY <1>1
<1> QED
  BY <1>1, <1>4, <1>5, <1>6 DEF Touch, TimeRange

(* What a slice brings: ranges of its own times, far apart.                *)
LEMMA SliceBrings ==
    ASSUME window \in Windows, present \subseteq AllPoints(window),
           NEW i \in DOMAIN Slices(window)
    PROVE  LET step == window.step
               S == present \cap Points(Slices(window)[i], step)
               N == RangesOf(S, step)
           IN /\ N \in Seq(TimeRange) /\ IsInjective(N) /\ ToSet(N) = Runs(S, step)
              /\ \A r \in Runs(S, step) :
                   /\ r \in TimeRange /\ r.start + step <= r.end
                   /\ Slices(window)[i].start <= r.start
                   /\ r.end - step <= Slices(window)[i].end
              /\ \A r, q \in Runs(S, step) : r # q =>
                   r.end + step < q.start \/ q.end + step < r.start
<1> DEFINE step == window.step
           c == Slices(window)[i]
           S == present \cap Points(c, step)
           N == RangesOf(S, step)
<1>1. IsWindow(window) /\ step \in Nat \ {0}
  BY WindowsAre, RangesAssumption DEF IsWindow
<1>2. Bounded(present)
  BY <1>1, EvaluationsAreTimes
<1>3. Bounded(S)
  BY <1>2, PartIsBounded
<1>4. c.start \in Nat /\ c.end \in Int
  BY <1>1, SlicesAreTimes
<1>5. \A p \in S : c.start <= p /\ p <= c.end
  <2>1. S \subseteq Points(c, step) /\ c.start \in Int
    BY <1>4
  <2> HIDE DEF c, step, S
  <2> QED
    BY <1>1, <1>4, <2>1, PointsInside
<1>6. RunList(N, S, step) /\ ToSet(N) = Runs(S, step)
  <2> HIDE DEF S, step
  <2> QED
    BY <1>1, <1>3, SamplesBecomeRuns
<1> HIDE DEF N
<1>7. /\ N \in Seq(TimeRange)
      /\ \A a \in 1..Len(N) :
           N[a].start \in S /\ N[a].end - step \in S /\ N[a].start + step <= N[a].end
      /\ \A a, b \in 1..Len(N) : a < b => N[a].end + step < N[b].start
  BY <1>6, Zenon DEF RunList
<1>8. /\ Len(N) \in Nat /\ DOMAIN N = 1..Len(N)
      /\ \A a \in 1..Len(N) : N[a] \in TimeRange
      /\ \A r \in ToSet(N) : r \in TimeRange /\ \E a \in 1..Len(N) : r = N[a]
  BY <1>7, ElementsOf
<1>9. \A a, b \in 1..Len(N) : a # b =>
         N[a].end + step < N[b].start \/ N[b].end + step < N[a].start
  <2>1. \A a, b \in 1..Len(N) : a # b => a < b \/ b < a
    BY <1>8
  <2> QED
    BY <1>7, <2>1, Zenon
<1> HIDE DEF S
<1>10. IsInjective(N)
  <2>1. \A a, b \in 1..Len(N) : N[a] = N[b] => a = b
    <3> SUFFICES ASSUME NEW a \in 1..Len(N), NEW b \in 1..Len(N), N[a] = N[b], a # b
                 PROVE  FALSE
      OBVIOUS
    <3>1. N[a].end + step < N[a].start
      BY <1>9
    <3>2. N[a].start \in Nat /\ N[a].end \in Nat /\ N[a].start + step <= N[a].end
      BY <1>7, <1>8 DEF TimeRange
    <3> HIDE DEF step
    <3> QED
      BY <1>1, <3>1, <3>2
  <2> QED
    BY <1>8, <2>1, Zenon DEF IsInjective
<1>11. ASSUME NEW r \in ToSet(N)
       PROVE  /\ r \in TimeRange /\ r.start + step <= r.end
              /\ c.start <= r.start /\ r.end - step <= c.end
  <2>1. PICK a \in 1..Len(N) : r = N[a]
    BY <1>8
  <2>2. r.start \in S /\ r.end - step \in S /\ r.start + step <= r.end
    BY <1>7, <2>1
  <2> QED
    BY <1>5, <1>8, <2>2, Zenon
<1>12. ASSUME NEW r \in ToSet(N), NEW q \in ToSet(N), r # q
       PROVE  r.end + step < q.start \/ q.end + step < r.start
  BY <1>8, <1>9, <1>12, Zenon
<1> HIDE DEF c, step
<1>13. /\ N \in Seq(TimeRange) /\ IsInjective(N) /\ ToSet(N) = Runs(S, step)
       /\ \A r \in Runs(S, step) :
            /\ r \in TimeRange /\ r.start + step <= r.end
            /\ c.start <= r.start /\ r.end - step <= c.end
       /\ \A r, q \in Runs(S, step) : r # q =>
            r.end + step < q.start \/ q.end + step < r.start
  BY <1>6, <1>7, <1>10, <1>11, <1>12, Zenon
<1> QED
  BY <1>13, Zenon DEF N, S, c, step

(* The ranges that slices of two evaluations bring follow one another,     *)
(* whatever the order they came in.                                        *)
LEMMA ArrivedAreChain ==
    ASSUME RangesInv, RunsInv, pc = "querying",
           SliceSize(window.end - window.start, window.step) >= 2 * window.step
    PROVE  IsChain(ranges, window.step)
<1> DEFINE step == window.step
           size == SliceSize(window.end - window.start, step)
           s == Slices(window)
           Brought(i) == Runs(present \cap Points(s[i], step), step)
           R == ToSet(ranges)
<1>1. /\ window \in Windows /\ present \subseteq AllPoints(window)
      /\ ranges \in Seq(TimeRange)
  BY DEF RangesInv, TimeRange
<1>2. IsWindow(window) /\ step \in Nat \ {0} /\ size \in Nat /\ size >= 2 * step
  <2>1. IsWindow(window)
    BY <1>1, WindowsAre
  <2>2. /\ step \in Steps /\ step \in Nat \ {0}
        /\ window.end - window.start \in Nat \ {0}
    BY <2>1, RangesAssumption DEF IsWindow
  <2>3. size \in Nat \ {0}
    BY <2>2, SizeIsPositive
  <2> QED
    BY <2>1, <2>2, <2>3
<1>3. IsInjective(ranges) /\ \A r \in R : \E i \in DOMAIN s : r \in Brought(i)
  BY Zenon DEF RunsInv, IsRunOfSlice
<1>4. ASSUME NEW i \in DOMAIN s
      PROVE  /\ i \in Nat /\ s[i].start \in Nat /\ s[i].end \in Int
             /\ \A r \in Brought(i) :
                  /\ r \in TimeRange /\ r.start + step <= r.end
                  /\ s[i].start <= r.start /\ r.end - step <= s[i].end
             /\ \A r, q \in Brought(i) : r # q =>
                  r.end + step < q.start \/ q.end + step < r.start
  <2>1. i \in Nat /\ s[i].start \in Nat /\ s[i].end \in Int
    BY <1>2, SlicesAreTimes
  <2> QED
    BY <1>1, <2>1, SliceBrings, Zenon
<1>5. ASSUME NEW i \in DOMAIN s, NEW j \in DOMAIN s, i < j
      PROVE  s[i].end < s[j].start
  BY <1>2, <1>5, SlicesInOrder
<1>6. ASSUME NEW i \in DOMAIN s, NEW j \in DOMAIN s, i + 1 < j
      PROVE  s[i].end + size < s[j].start
  BY <1>2, <1>6, SlicesApart
<1> HIDE DEF step, size, s, Brought, R
<1>7. ASSUME NEW r \in R
      PROVE  \E i \in DOMAIN s :
               /\ r \in Brought(i) /\ i \in Nat /\ s[i].start \in Nat /\ s[i].end \in Int
               /\ r.start \in Nat /\ r.end \in Nat /\ r.start + step <= r.end
               /\ s[i].start <= r.start /\ r.end - step <= s[i].end
               /\ r \in TimeRange
  <2>1. PICK i \in DOMAIN s : r \in Brought(i)
    BY <1>3
  <2>2. /\ i \in Nat /\ s[i].start \in Nat /\ s[i].end \in Int
        /\ r \in TimeRange /\ r.start + step <= r.end
        /\ s[i].start <= r.start /\ r.end - step <= s[i].end
    BY <1>4, <2>1
  <2>3. r.start \in Nat /\ r.end \in Nat
    BY <2>2 DEF TimeRange
  <2> QED
    BY <2>1, <2>2, <2>3
<1>8. ASSUME NEW a \in R, NEW b \in R, NEW i \in DOMAIN s, NEW j \in DOMAIN s,
             a \in Brought(i), b \in Brought(j), a # b
      PROVE  /\ i = j => a.end + step < b.start \/ b.end + step < a.start
             /\ i < j => a.start < b.start /\ a.end < b.end
             /\ i < j => a.end - step <= s[i].end /\ s[j].start <= b.start
             /\ i \in Nat /\ j \in Nat
  <2>1. i = j => a.end + step < b.start \/ b.end + step < a.start
    BY <1>4, <1>8
  <2>2. /\ i \in Nat /\ j \in Nat /\ s[i].end \in Int /\ s[j].start \in Nat
        /\ a \in TimeRange /\ a.start + step <= a.end /\ a.end - step <= s[i].end
        /\ b \in TimeRange /\ b.start + step <= b.end /\ s[j].start <= b.start
    BY <1>4, <1>8
  <2>3. a.start \in Nat /\ a.end \in Nat /\ b.start \in Nat /\ b.end \in Nat
    BY <2>2 DEF TimeRange
  <2>4. ASSUME i < j PROVE a.start < b.start /\ a.end < b.end
    <3>1. s[i].end < s[j].start
      BY <1>5, <2>4
    <3> QED
      BY <1>2, <2>2, <2>3, <3>1
  <2> QED
    BY <2>1, <2>2, <2>4
<1>9. \A r \in R : r \in TimeRange /\ r.start + step <= r.end
                   /\ r.start \in Nat /\ r.end \in Nat
  BY <1>7
<1>10. ASSUME NEW a \in R, NEW b \in R, a # b
       PROVE  (a.start < b.start /\ a.end < b.end) \/ (b.start < a.start /\ b.end < a.end)
  <2>1. PICK i \in DOMAIN s : a \in Brought(i)
    BY <1>3
  <2>2. PICK j \in DOMAIN s : b \in Brought(j)
    BY <1>3
  <2>3. i \in Nat /\ j \in Nat
    BY <1>4
  <2>4. CASE i = j
    <3>1. a.end + step < b.start \/ b.end + step < a.start
      BY <1>8, <1>10, <2>1, <2>2, <2>4
    <3> QED
      BY <1>2, <1>9, <3>1
  <2>5. CASE i < j
    BY <1>8, <1>10, <2>1, <2>2, <2>5
  <2>6. CASE j < i
    BY <1>8, <1>10, <2>1, <2>2, <2>6
  <2> QED
    BY <2>3, <2>4, <2>5, <2>6
<1>11. ASSUME NEW a \in R, NEW b \in R, NEW c \in R, a.start < b.start, b.start < c.start
       PROVE  a.end + step < c.start
  <2>1. PICK i \in DOMAIN s : a \in Brought(i)
    BY <1>3
  <2>2. PICK j \in DOMAIN s : b \in Brought(j)
    BY <1>3
  <2>3. PICK k \in DOMAIN s : c \in Brought(k)
    BY <1>3
  <2>4. i \in Nat /\ j \in Nat /\ k \in Nat
    BY <1>4
  <2>5. /\ a.start \in Nat /\ a.end \in Nat /\ a.start + step <= a.end
        /\ b.start \in Nat /\ b.end \in Nat /\ b.start + step <= b.end
        /\ c.start \in Nat /\ c.end \in Nat /\ c.start + step <= c.end
    BY <1>9
  <2>6. a # b /\ b # c /\ a.start < c.start /\ a # c
    BY <1>11, <2>5
  <2>7. i <= j
    <3>1. ~(j < i)
      <4> SUFFICES ASSUME j < i PROVE FALSE
        OBVIOUS
      <4>1. b.start < a.start
        BY <1>8, <2>1, <2>2, <2>6
      <4> QED
        BY <1>11, <2>5, <4>1
    <3> QED
      BY <2>4, <3>1
  <2>8. j <= k
    <3>1. ~(k < j)
      <4> SUFFICES ASSUME k < j PROVE FALSE
        OBVIOUS
      <4>1. c.start < b.start
        BY <1>8, <2>2, <2>3, <2>6
      <4> QED
        BY <1>11, <2>5, <4>1
    <3> QED
      BY <2>4, <3>1
  <2>9. CASE i = j
    <3>1. a.end + step < b.start \/ b.end + step < a.start
      BY <1>8, <2>1, <2>2, <2>6, <2>9
    <3> QED
      BY <1>2, <1>11, <2>5, <3>1
  <2>10. CASE j = k
    <3>1. b.end + step < c.start \/ c.end + step < b.start
      BY <1>8, <2>2, <2>3, <2>6, <2>10
    <3>2. a.end < b.end
      <4>1. (a.start < b.start /\ a.end < b.end) \/ (b.start < a.start /\ b.end < a.end)
        BY <1>10, <2>6
      <4> QED
        BY <1>11, <2>5, <4>1
    <3> QED
      BY <1>2, <1>11, <2>5, <3>1, <3>2
  <2>11. CASE i < j /\ j < k
    <3>1. i + 1 < k /\ i < k
      BY <2>4, <2>11
    <3>2. s[i].end + size < s[k].start
      BY <1>6, <3>1
    <3>3. a.end - step <= s[i].end /\ s[k].start <= c.start
      BY <1>8, <2>1, <2>3, <2>6, <3>1
    <3>4. s[i].end \in Int /\ s[k].start \in Nat
      BY <1>4
    <3> QED
      BY <1>2, <2>5, <3>2, <3>3, <3>4
  <2> QED
    BY <2>4, <2>7, <2>8, <2>9, <2>10, <2>11
<1>12. Chain(R, step)
  BY <1>9, <1>10, <1>11, Zenon DEF Chain
<1> QED
  BY <1>3, <1>12 DEF IsChain, R, step

(* Two lists without repetition and with nothing in common make one.       *)
LEMMA JoinedOnce ==
    ASSUME NEW s \in Seq(TimeRange), NEW t \in Seq(TimeRange),
           IsInjective(s), IsInjective(t), \A r \in ToSet(s) : r \notin ToSet(t)
    PROVE  IsInjective(s \o t)
<1> DEFINE n == Len(s)
           m == Len(t)
           u == s \o t
<1>1. /\ n \in Nat /\ m \in Nat /\ DOMAIN u = 1..(n + m)
      /\ \A i \in 1..n : u[i] = s[i]
      /\ \A i \in 1..m : u[n + i] = t[i]
  OBVIOUS
<1>2. DOMAIN s = 1..n /\ DOMAIN t = 1..m
      /\ (\A i \in 1..n : s[i] \in ToSet(s)) /\ (\A i \in 1..m : t[i] \in ToSet(t))
  BY ElementsOf
<1>3. /\ \A i, j \in 1..n : s[i] = s[j] => i = j
      /\ \A i, j \in 1..m : t[i] = t[j] => i = j
      /\ \A i \in 1..n, j \in 1..m : s[i] # t[j]
  BY <1>2, Zenon DEF IsInjective
<1> HIDE DEF n, m, u
<1>4. \A i \in 1..(n + m) : \/ i \in 1..n /\ u[i] = s[i]
                            \/ i - n \in 1..m /\ u[i] = t[i - n]
  <2> SUFFICES ASSUME NEW i \in 1..(n + m)
               PROVE  \/ i \in 1..n /\ u[i] = s[i]
                      \/ i - n \in 1..m /\ u[i] = t[i - n]
    OBVIOUS
  <2>1. i \in 1..n \/ (i - n \in 1..m /\ n + (i - n) = i)
    BY <1>1
  <2> QED
    BY <1>1, <2>1, Zenon
<1>5. ASSUME NEW i \in 1..(n + m), NEW j \in 1..(n + m), u[i] = u[j]
      PROVE  i = j
  <2>1. CASE i \in 1..n /\ u[i] = s[i]
    <3>1. j \in 1..n /\ u[j] = s[j]
      BY <1>3, <1>4, <1>5, <2>1, Zenon
    <3> QED
      BY <1>3, <1>5, <2>1, <3>1, Zenon
  <2>2. CASE i - n \in 1..m /\ u[i] = t[i - n]
    <3>1. j - n \in 1..m /\ u[j] = t[j - n]
      BY <1>3, <1>4, <1>5, <2>2, Zenon
    <3>2. i - n = j - n
      BY <1>3, <1>5, <2>2, <3>1, Zenon
    <3> QED
      BY <1>1, <3>2
  <2> QED
    BY <1>4, <2>1, <2>2
<1>6. IsInjective(u)
  BY <1>1, <1>5, Zenon DEF IsInjective
<1> QED
  BY <1>6 DEF u

(* A slice brings ranges that no other slice brought.                      *)
LEMMA RunsArrive ==
    ASSUME RangesInv, RunsInv, NEW i \in left, Arrive(i)
    PROVE  RunsInv'
<1> DEFINE step == window.step
           s == Slices(window)
           Brought(j) == Runs(present \cap Points(s[j], step), step)
           N == RangesOf(present \cap Points(s[i], step), step)
<1>1. /\ pc = "querying" /\ left' = left \ {i} /\ ranges' = ranges \o N
      /\ window' = window /\ present' = present /\ pc' = pc
  BY DEF Arrive
<1>2. /\ window \in Windows /\ present \subseteq AllPoints(window)
      /\ ranges \in Seq(TimeRange) /\ left \subseteq DOMAIN s
  BY DEF RangesInv, TimeRange
<1>3. IsWindow(window) /\ step \in Nat \ {0}
  BY <1>2, WindowsAre, RangesAssumption DEF IsWindow
<1>4. /\ IsInjective(ranges)
      /\ \A r \in ToSet(ranges) : \E j \in DOMAIN s \ left : r \in Brought(j)
  BY <1>1, Zenon DEF RunsInv, IsRunOfSlice
<1>5. i \in DOMAIN s
  BY <1>2
<1>6. N \in Seq(TimeRange) /\ IsInjective(N) /\ ToSet(N) = Brought(i)
  BY <1>2, <1>5, SliceBrings, Zenon
<1>7. ASSUME NEW j \in DOMAIN s
      PROVE  /\ j \in Nat /\ s[j].start \in Nat /\ s[j].end \in Int
             /\ \A r \in Brought(j) :
                  /\ r \in TimeRange /\ r.start + step <= r.end
                  /\ s[j].start <= r.start /\ r.end - step <= s[j].end
  <2>1. j \in Nat /\ s[j].start \in Nat /\ s[j].end \in Int
    BY <1>3, SlicesAreTimes
  <2> QED
    BY <1>2, <2>1, SliceBrings, Zenon
<1>8. ASSUME NEW j \in DOMAIN s, NEW k \in DOMAIN s, j < k
      PROVE  s[j].end < s[k].start
  BY <1>3, <1>8, SlicesInOrder
<1> HIDE DEF N, Brought, s, step
<1>9. ASSUME NEW r \in ToSet(ranges) PROVE r \notin ToSet(N)
  <2> SUFFICES ASSUME r \in Brought(i) PROVE FALSE
    BY <1>6
  <2>1. PICK j \in DOMAIN s \ left : r \in Brought(j)
    BY <1>4
  <2>2. j # i /\ j \in DOMAIN s
    BY <2>1
  <2>3. /\ i \in Nat /\ s[i].start \in Nat /\ s[i].end \in Int
        /\ r \in TimeRange /\ r.start + step <= r.end
        /\ s[i].start <= r.start /\ r.end - step <= s[i].end
    BY <1>5, <1>7
  <2>4. /\ j \in Nat /\ s[j].start \in Nat /\ s[j].end \in Int
        /\ s[j].start <= r.start /\ r.end - step <= s[j].end
    BY <1>7, <2>1, <2>2
  <2>5. s[i].end < s[j].start \/ s[j].end < s[i].start
    <3>1. i < j \/ j < i
      BY <2>2, <2>3, <2>4
    <3> QED
      BY <1>5, <1>8, <2>2, <3>1
  <2>6. r.start \in Nat /\ r.end \in Nat
    BY <2>3 DEF TimeRange
  <2> QED
    BY <1>3, <2>3, <2>4, <2>5, <2>6
<1>10. IsInjective(ranges') /\ ToSet(ranges') = ToSet(ranges) \cup ToSet(N)
  BY <1>1, <1>2, <1>4, <1>6, <1>9, JoinedOnce, JoinedElements
<1>11. ASSUME NEW r \in ToSet(ranges') PROVE IsRunOfSlice(r)'
  <2>1. \E j \in DOMAIN s \ left' : r \in Brought(j)
    <3>1. CASE r \in ToSet(ranges)
      <4>1. PICK j \in DOMAIN s \ left : r \in Brought(j)
        BY <1>4, <3>1
      <4>2. j \in DOMAIN s \ left'
        BY <1>1, <4>1
      <4> QED
        BY <4>1, <4>2
    <3>2. CASE r \in ToSet(N)
      <4>1. i \in DOMAIN s \ left'
        BY <1>1, <1>5
      <4> QED
        BY <1>6, <3>2, <4>1
    <3> QED
      BY <1>10, <3>1, <3>2
  <2> QED
    BY <1>1, <2>1, Zenon DEF IsRunOfSlice, Brought, s, step
<1> QED
  BY <1>1, <1>10, <1>11, Zenon DEF RunsInv

(* Merged and sorted, they are more than a step apart.                     *)
LEMMA RunsMerge ==
    ASSUME RangesInv, RunsInv, Merge
    PROVE  RunsInv'
<1> DEFINE step == window.step
           M == IF Len(ranges) > 1 THEN MergeRanges(ranges, window.step) ELSE ranges
<1>1. /\ left = {} /\ ranges' = Sorted(M) /\ pc' = "merged" /\ pc = "querying"
      /\ window' = window
  BY DEF Merge
<1>2. /\ window \in Windows /\ present \subseteq AllPoints(window)
      /\ ranges \in Seq(TimeRange) /\ ArePieces(ranges, present, step)
  BY DEF RangesInv, TimeRange
<1>3. IsWindow(window) /\ step \in Nat \ {0}
  BY <1>2, WindowsAre, RangesAssumption DEF IsWindow
<1>4. present \subseteq Nat
  BY <1>2, <1>3, EvaluationsAreTimes DEF Bounded
<1>5. PieceList(ranges, present, step)
  BY <1>2 DEF PieceList
<1>6. ASSUME SliceSize(window.end - window.start, window.step) >= 2 * window.step
      PROVE  FarApart(ranges', step) /\ ranges' \in Seq(TimeRange)
  <2>1. IsChain(ranges, step)
    BY <1>1, <1>6, ArrivedAreChain
  <2>2. PieceList(M, present, step) /\ IsChain(M, step) /\ Untouched(M, step)
    <3>1. CASE Len(ranges) > 1
      <4>1. M = MergeRanges(ranges, step)
        BY <3>1
      <4> HIDE DEF M, step
      <4> QED
        BY <1>3, <1>4, <1>5, <2>1, <4>1, MergeKeeps
    <3>2. CASE ~(Len(ranges) > 1)
      <4>1. ASSUME NEW p \in ToSet(ranges), NEW q \in ToSet(ranges) PROVE p = q
        <5>1. PICK a \in 1..Len(ranges) : p = ranges[a]
          BY <1>2, ElementsOf
        <5>2. PICK b \in 1..Len(ranges) : q = ranges[b]
          BY <1>2, ElementsOf
        <5>3. a = b
          <6>1. Len(ranges) \in Nat
            BY <1>2
          <6> QED
            BY <3>2, <6>1
        <5> QED
          BY <5>1, <5>2, <5>3
      <4>2. Untouched(ranges, step)
        BY <4>1, Zenon DEF Untouched
      <4>3. M = ranges
        BY <3>2
      <4> QED
        BY <1>5, <2>1, <4>2, <4>3
    <3> QED
      BY <3>1, <3>2
  <2> HIDE DEF M
  <2>3. M \in Seq(TimeRange)
    BY <2>2 DEF PieceList
  <2>4. IsChain(ranges', step) /\ Untouched(ranges', step)
    BY <1>1, <2>2, SortedSettles
  <2>5. ranges' \in Seq(TimeRange) /\ InOrder(ranges')
    BY <1>1, <2>3, SortedKeeps
  <2>6. IsInjective(ranges') /\ \A r \in ToSet(ranges') : r.start + step <= r.end
    BY <2>4 DEF IsChain, Chain
  <2> DEFINE u == ranges'
  <2>7. /\ u \in Seq(TimeRange) /\ IsInjective(u) /\ InOrder(u) /\ Untouched(u, step)
        /\ \A r \in ToSet(u) : r.start + step <= r.end
    BY <2>4, <2>5, <2>6
  <2> HIDE DEF u, step
  <2>8. FarApart(u, step)
    BY <1>3, <2>7, OrderedAreApart
  <2> QED
    BY <2>7, <2>8 DEF u
<1>7. ASSUME SliceSize(window.end - window.start, window.step) >= 2 * window.step,
             NEW a \in DOMAIN ranges', NEW b \in DOMAIN ranges', a < b
      PROVE  ranges'[a].end + step < ranges'[b].start
  <2>1. FarApart(ranges', step) /\ DOMAIN ranges' = 1..Len(ranges')
    BY <1>6, <1>7
  <2> QED
    BY <1>7, <2>1, Zenon DEF FarApart
<1>8. pc' # "querying"
  BY <1>1
<1> QED
  BY <1>1, <1>7, <1>8, Zenon DEF RunsInv

LEMMA RunsInvariant == Spec => []RunsInv
<1>1. Init => RunsInv
  <2> SUFFICES ASSUME Init PROVE RunsInv
    OBVIOUS
  <2>1. pc = "querying" /\ ranges = <<>>
    BY DEF Init
  <2>2. ToSet(<<>>) = {} /\ IsInjective(<<>>)
    BY DEF ToSet, IsInjective
  <2> QED
    BY <2>1, <2>2 DEF RunsInv
<1>2. RangesInv /\ RunsInv /\ [Next]_vars => RunsInv'
  <2> SUFFICES ASSUME RangesInv, RunsInv, [Next]_vars PROVE RunsInv'
    OBVIOUS
  <2>1. ASSUME NEW i \in left, Arrive(i) PROVE RunsInv'
    BY <2>1, RunsArrive
  <2>2. CASE Merge
    BY <2>2, RunsMerge
  <2>3. CASE LookForGaps
    <3>1. /\ pc # "querying" /\ pc' # "querying"
          /\ window' = window /\ ranges' = ranges
      BY <2>3 DEF LookForGaps
    <3> QED
      BY <3>1, Zenon DEF RunsInv
  <2>4. CASE Terminated \/ UNCHANGED vars
    <3>1. /\ pc' = pc /\ window' = window /\ ranges' = ranges
          /\ present' = present /\ left' = left
      BY <2>4 DEF Terminated, vars
    <3> QED
      BY <3>1, Zenon DEF RunsInv, IsRunOfSlice
  <2> QED
    BY <2>1, <2>2, <2>3, <2>4, Zenon DEF Next
<1> QED
  BY <1>1, <1>2, RangesInvariant, PTL DEF Spec

(* AppendSampleToRanges and MergeRanges, for any window cut in slices of   *)
(* two evaluations at least, any samples and any order of arrival: the     *)
(* answer has the runs of all the samples, each once and in order.         *)
THEOREM MergedAreRuns == Spec => []RangesAreRuns
<1>1. RangesCoverRuns /\ RangesInv /\ RunsInv => RangesAreRuns
  <2> SUFFICES ASSUME RangesInv, RunsInv, pc # "querying",
                      SliceSize(window.end - window.start, window.step) >= 2 * window.step
               PROVE  /\ ToSet(ranges) = Runs(present, window.step)
                      /\ \A i, j \in DOMAIN ranges : i < j => ranges[i].end < ranges[j].start
    BY DEF RangesAreRuns
  <2> DEFINE step == window.step
  <2>1. /\ window \in Windows /\ present \subseteq AllPoints(window) /\ left = {}
        /\ ranges \in Seq(TimeRange) /\ ArePieces(ranges, present, step)
        /\ \A i \in DOMAIN Slices(window) \ left :
             \A t \in present \cap Points(Slices(window)[i], step) : InPiece(t, ranges, step)
    BY DEF RangesInv, TimeRange
  <2>2. IsWindow(window) /\ step \in Nat \ {0}
    BY <2>1, WindowsAre, RangesAssumption DEF IsWindow
  <2>3. present \subseteq Nat
    BY <2>1, <2>2, EvaluationsAreTimes DEF Bounded
  <2>4. ASSUME NEW t \in present PROVE InPiece(t, ranges, step)
    <3>1. PICK i \in DOMAIN Slices(window) : t \in Points(Slices(window)[i], step)
      BY <2>1 DEF AllPoints
    <3> QED
      BY <2>1, <3>1
  <2>5. PieceList(ranges, present, step)
    BY <2>1 DEF PieceList
  <2>6. DOMAIN ranges = 1..Len(ranges) /\ Len(ranges) \in Nat
    BY <2>1, ElementsOf
  <2>7. FarApart(ranges, step)
    BY <2>6, Zenon DEF RunsInv, FarApart
  <2> HIDE DEF step
  <2>8. RunList(ranges, present, step)
    BY <2>2, <2>3, <2>4, <2>5, <2>7, PiecesAreRuns
  <2>9. ToSet(ranges) = Runs(present, step)
    BY <2>2, <2>3, <2>8, RunListIsRuns
  <2>10. ASSUME NEW i \in DOMAIN ranges, NEW j \in DOMAIN ranges, i < j
         PROVE  ranges[i].end < ranges[j].start
    <3>1. ranges[i].end + step < ranges[j].start
      BY <2>6, <2>7, <2>10, Zenon DEF FarApart
    <3>2. ranges[i] \in TimeRange /\ ranges[j] \in TimeRange
      BY <2>1, <2>6, ElementsOf
    <3> QED
      BY <2>2, <3>1, <3>2 DEF TimeRange
  <2> QED
    BY <2>9, <2>10, Zenon DEF step
<1> QED
  BY <1>1, CoverageIsExact, RangesInvariant, RunsInvariant, PTL

(* FindGaps: every gap is a run of evaluations at which the server was up  *)
(* and the series was not there, and there is no other run of them.        *)
THEOREM GapsAreTrue == Spec => []GapsAreReal
<1>1. RangesInv => GapsAreReal
  BY DEF RangesInv
<1> QED
  BY <1>1, RangesInvariant, PTL
----------------------------------------------------------------------------
(* The evaluations of the look-back are times of it, so their ranges are   *)
(* runs of them.                                                           *)
LEMMA EvaluationsBounded ==
    ASSUME NEW S \in SUBSET Evaluations
    PROVE  /\ Bounded(S) /\ S \subseteq Nat
           /\ Window.step \in Nat \ {0} /\ RunList(Ranges(S), S, Window.step)
<1>1. Window.start \in Nat /\ Window.end \in Nat /\ Window.step \in Nat \ {0}
  BY SeriesAssumption
<1>2. ASSUME NEW t \in S PROVE t \in Nat /\ t <= Window.end
  <2>1. t \in Points(Window, Window.step)
    BY DEF Evaluations
  <2>2. t \in Int /\ Window.start <= t /\ t <= Window.end
    BY <1>1, <2>1, PointsInside
  <2> QED
    BY <1>1, <2>2
<1>3. Bounded(S) /\ S \subseteq Nat
  BY <1>1, <1>2 DEF Bounded
<1> QED
  BY <1>1, <1>3, SamplesBecomeRuns DEF Ranges

(* Evaluations are a step apart, or more.                                  *)
LEMMA EvaluationsApart ==
    ASSUME NEW x \in Evaluations, NEW y \in Evaluations, x < y
    PROVE  x + Window.step <= y
<1> DEFINE step == Window.step
           start == Window.start
           n == (Window.end - start) \div step
<1>1. start \in Nat /\ step \in Nat \ {0} /\ Window.end - start \in Nat
  BY SeriesAssumption
<1>2. n \in Nat
  BY <1>1, DivOfNat
<1>3. /\ \E j \in 0..n : x = start + j * step
      /\ \E k \in 0..n : y = start + k * step
  BY Zenon DEF Evaluations, Points
<1> HIDE DEF n, start, step
<1>4. PICK j \in Nat, k \in Nat : x = start + j * step /\ y = start + k * step
  BY <1>2, <1>3
<1>5. j * step \in Nat /\ k * step \in Nat
  BY <1>1, <1>4
<1>6. j < k
  <2> SUFFICES ASSUME k <= j PROVE FALSE
    BY <1>4
  <2>1. k * step <= j * step
    BY <1>1, <1>4, ProductGrows
  <2> QED
    BY <1>1, <1>4, <1>5, <2>1
<1>7. (j + 1) * step <= k * step /\ (j + 1) * step = j * step + step
  <2>1. j + 1 \in Int /\ k \in Int /\ j + 1 <= k
    BY <1>4, <1>6
  <2>2. (j + 1) * step <= k * step
    BY <1>1, <2>1, ProductGrows
  <2> QED
    BY <1>1, <1>4, <2>2
<1>8. x + step <= y
  BY <1>1, <1>4, <1>5, <1>7
<1> QED
  BY <1>8 DEF step

(* A sample is covered by the ranges of its series.                        *)
LEMMA SampleCovered ==
    ASSUME NEW S \in SUBSET Evaluations, NEW t \in S
    PROVE  Covers(Ranges(S), t)
<1> DEFINE L == Ranges(S)
<1>1. RunList(L, S, Window.step) /\ Window.step \in Nat \ {0} /\ t \in Nat
  BY EvaluationsBounded
<1> HIDE DEF L
<1>2. PICK i \in 1..Len(L) : L[i].start <= t /\ t <= L[i].end - Window.step
  BY <1>1 DEF RunList
<1>3. L \in Seq(TimeRange) /\ DOMAIN L = 1..Len(L) /\ L[i] \in TimeRange
  BY <1>1, ElementsOf DEF RunList
<1>4. t <= L[i].end
  BY <1>1, <1>2, <1>3 DEF TimeRange
<1> QED
  BY <1>2, <1>3, <1>4 DEF Covers, L

(* FindGaps finds something exactly if at some evaluation the baseline has *)
(* a range and the series has none.                                        *)
LEMMA GapsAreFound ==
    ASSUME NEW R, NEW B
    PROVE  (\E t \in Evaluations : ~Covers(R, t) /\ Covers(B, t))
              <=> FindGaps(R, B, Window) # <<>>
<1> DEFINE G == {t \in Evaluations : ~Covers(R, t) /\ Covers(B, t)}
           L == RangesOf(G, Window.step)
<1>1. FindGaps(R, B, Window) = L
  BY DEF FindGaps, Evaluations
<1>2. RunList(L, G, Window.step) /\ G \subseteq Evaluations
  <2>1. G \in SUBSET Evaluations
    OBVIOUS
  <2> HIDE DEF G
  <2> QED
    BY <2>1, EvaluationsBounded DEF Ranges
<1>3. (\E t \in Evaluations : ~Covers(R, t) /\ Covers(B, t)) <=> G # {}
  OBVIOUS
<1> HIDE DEF G, L
<1>4. L \in Seq(TimeRange) /\ Len(L) \in Nat
  BY <1>2, ElementsOf DEF RunList
<1>5. ASSUME NEW t \in G PROVE L # <<>>
  <2>1. PICK i \in 1..Len(L) : L[i].start <= t
    BY <1>2 DEF RunList
  <2> QED
    BY <1>4, <2>1
<1>6. ASSUME L # <<>> PROVE G # {}
  <2>1. 1 \in 1..Len(L)
    BY <1>4, <1>6
  <2> QED
    BY <1>2, <2>1 DEF RunList
<1> QED
  BY <1>1, <1>3, <1>5, <1>6

(* What was there now and then was missing while the server was up.        *)
LEMMA SometimesIsFact ==
    ASSUME NEW times \in SUBSET Evaluations, uptime \in SUBSET Evaluations, GapsOf(times) # <<>>
    PROVE  \E t \in Evaluations \ times : Within(t, uptime, Window.step)
<1>1. PICK t \in Evaluations : ~Covers(Ranges(times), t) /\ Covers(Ranges(uptime), t)
  BY GapsAreFound DEF GapsOf
<1>2. t \notin times
  BY <1>1, SampleCovered
<1>3. Bounded(uptime) /\ Window.step \in Nat \ {0}
  BY EvaluationsBounded
<1>4. Within(t, uptime, Window.step)
  BY <1>1, <1>3, WithinRuns DEF Ranges
<1> QED
  BY <1>1, <1>2, <1>4

(* What ended in one range has no sample after the end of that.            *)
LEMMA EndIsLast ==
    ASSUME NEW times \in SUBSET Evaluations, Len(Ranges(times)) = 1, NEW t \in times
    PROVE  newest(times) \in Nat /\ t \in Nat /\ t + Window.step <= newest(times)
<1> DEFINE L == Ranges(times)
           E == {r.end : r \in ToSet(L)}
           step == Window.step
<1>1. RunList(L, times, step) /\ step \in Nat \ {0} /\ t \in Nat
  BY EvaluationsBounded
<1>2. L \in Seq(TimeRange) /\ Len(L) = 1
  BY <1>1 DEF RunList
<1>3. newest(times) = Max(E)
  BY DEF newest
<1>4. PICK i \in 1..Len(L) : L[i].start <= t /\ t <= L[i].end - step
  BY <1>1, Zenon DEF RunList
<1> HIDE DEF L
<1>5. i = 1
  BY <1>2
<1>6. \A r : r \in ToSet(L) <=> r = L[1]
  <2>1. /\ \A j \in 1..1 : L[j] \in ToSet(L)
        /\ \A r \in ToSet(L) : \E j \in 1..1 : r = L[j]
    BY <1>2, ElementsOf
  <2> QED
    BY <2>1
<1>7. L[1].end \in Nat
  <2>1. 1 \in 1..Len(L)
    BY <1>2
  <2>2. L[1] \in TimeRange
    BY <1>2, <2>1, ElementsOf
  <2> QED
    BY <2>2 DEF TimeRange
<1>8. E = {L[1].end}
  BY <1>6, Zenon
<1> HIDE DEF E
<1>9. Bounded(E) /\ E # {}
  BY <1>7, <1>8 DEF Bounded
<1>10. Max(E) = L[1].end
  <2>1. Max(E) \in E
    BY <1>9, LastOf
  <2> QED
    BY <1>8, <2>1, Zenon
<1> QED
  BY <1>1, <1>3, <1>4, <1>5, <1>7, <1>10

(* A label that is never there while the server is up is at no time there  *)
(* in two evaluations in a row: the times it is absent are one run, so     *)
(* there would be samples on one side of the two only, and the server      *)
(* being up when the label was absent, or after it, would be a gap.        *)
LEMMA UnlabelledIsFact ==
    ASSUME NEW times \in SUBSET Evaluations, uptime \in SUBSET Evaluations,
           IsNeverLabelled(times),
           NEW t \in Evaluations, t \in times, t \in uptime,
           t + Window.step \in times, t + Window.step \in uptime
    PROVE  FALSE
<1> DEFINE absent == Evaluations \ times
           L == Ranges(absent)
           step == Window.step
           S == {x \in absent : x <= t}
<1>1. Len(L) = 1 /\ FindGaps(L, Ranges(uptime), Window) = <<>>
  BY Zenon DEF IsNeverLabelled
<1>2. /\ absent \in SUBSET Evaluations /\ absent \subseteq Nat /\ t \in Nat
      /\ RunList(L, absent, step) /\ step \in Nat \ {0}
  <2>1. absent \in SUBSET Evaluations
    OBVIOUS
  <2> HIDE DEF absent
  <2> QED
    BY <2>1, EvaluationsBounded
<1>3. /\ \A e \in uptime : Covers(L, e)
  <2> SUFFICES ASSUME NEW e \in uptime, ~Covers(L, e) PROVE FALSE
    OBVIOUS
  <2>1. Covers(Ranges(uptime), e) /\ e \in Evaluations
    BY SampleCovered
  <2>2. FindGaps(L, Ranges(uptime), Window) # <<>>
    BY <2>1, GapsAreFound
  <2> QED
    BY <1>1, <2>2
<1>4. /\ L \in Seq(TimeRange) /\ 1 \in 1..Len(L) /\ DOMAIN L = 1..1
      /\ L[1].start \in Nat /\ L[1].end \in Nat
  <2>1. L \in Seq(TimeRange)
    BY <1>2 DEF RunList
  <2> HIDE DEF L
  <2>2. 1 \in 1..Len(L) /\ DOMAIN L = 1..1
    BY <1>1, <2>1
  <2>3. L[1] \in TimeRange
    BY <2>1, <2>2, ElementsOf
  <2> QED
    BY <2>1, <2>2, <2>3 DEF TimeRange
<1>5. /\ L[1].start \in absent /\ L[1].end - step \in absent
      /\ \A x \in absent : L[1].start <= x /\ x < L[1].end - step =>
           \E y \in absent : x < y /\ y <= x + 2 * step
  <2>1. /\ \A i \in 1..Len(L) : L[i].start \in absent /\ L[i].end - step \in absent
        /\ \A i \in 1..Len(L), x \in absent : L[i].start <= x /\ x < L[i].end - step =>
             \E y \in absent : x < y /\ y <= x + 2 * step
    BY <1>2, Zenon DEF RunList
  <2> HIDE DEF L, absent, step
  <2> QED
    BY <1>4, <2>1
<1>6. L[1].start <= t /\ t + step <= L[1].end
  <2>1. Covers(L, t) /\ Covers(L, t + step)
    BY <1>3
  <2> HIDE DEF L, absent, step
  <2> QED
    BY <1>4, <2>1 DEF Covers
<1>7. /\ L[1].end - step # t /\ t \notin absent /\ t + step \notin absent
  BY <1>5
<1>8. \A x, y \in Evaluations : x < y => x + step <= y
  BY EvaluationsApart
<1> HIDE DEF L, absent, step
<1>9. PICK x \in absent : /\ L[1].start <= x /\ x <= t
                          /\ \A y \in absent : y <= t => y <= x
  BY <1>2, <1>5, <1>6, GreatestUpTo
<1>10. x \in Nat /\ x < t /\ x < L[1].end - step
  BY <1>2, <1>4, <1>6, <1>7, <1>9
<1>11. PICK y \in absent : x < y /\ y <= x + 2 * step
  BY <1>5, <1>9, <1>10
<1>12. y \in Nat /\ t < y
  BY <1>2, <1>9, <1>10, <1>11
<1>13. x + step <= t /\ t + step <= y
  BY <1>2, <1>8, <1>10, <1>12
<1>14. y = t + step
  BY <1>2, <1>10, <1>11, <1>12, <1>13
<1> QED
  BY <1>7, <1>14

(* The comment of the most specific scope gives the min-age, and there is  *)
(* always one.                                                             *)
LEMMA MinAgeIsAskedFor ==
    ASSUME rule \in Rules, NEW s
    PROVE  getMinAge(s) = MinAgeAskedFor(s) /\ getMinAge(s) \in Nat
<1> DEFINE Scope(i) == Scopes(s)[i]
           Gives(i) == HasMinAge(Scope(i)) /\ ValueOf(Scope(i)) # None
           V(i) == ValueOf(Scope(i))
           asked == {i \in 1..3 : Gives(i)}
<1>1. Scope(1) = AnySelector /\ Scope(2) = stripLabels(s) /\ Scope(3) = s
  BY DEF Scopes
<1>2. ASSUME NEW i \in 1..3, Gives(i) PROVE V(i) \in Nat
  <2>1. \E c \in rule.minAges : c.scope = Scope(i)
    BY <1>2 DEF HasMinAge
  <2>2. (CHOOSE c \in rule.minAges : c.scope = Scope(i)) \in rule.minAges
    BY <2>1
  <2>3. rule.minAges \subseteq [scope : SelectorType, value : Nat \cup {None}]
    BY SeriesAssumption DEF RuleType
  <2>4. \A c \in rule.minAges : c.value \in Nat \cup {None}
    BY <2>3
  <2>5. V(i) \in Nat \cup {None}
    BY <2>2, <2>4, Zenon DEF ValueOf
  <2> QED
    BY <1>2, <2>5
<1>3. getMinAge(s) = IF Gives(3) THEN V(3) ELSE IF Gives(2) THEN V(2)
                     ELSE IF Gives(1) THEN V(1) ELSE DefaultMinAge
  BY <1>1, Zenon DEF getMinAge, Override
<1>4. MinAgeAskedFor(s) = IF asked = {} THEN DefaultMinAge ELSE V(Max(asked))
  BY Zenon DEF MinAgeAskedFor
<1> HIDE DEF Scope, Gives, V
<1>5. DefaultMinAge \in Nat
  BY SeriesAssumption
<1>6. \A i \in 1..3 : i \in asked <=> Gives(i)
  OBVIOUS
<1>7. asked # {} => /\ Max(asked) \in 1..3 /\ Gives(Max(asked))
                    /\ \A i \in asked : i <= Max(asked)
  <2>1. Bounded(asked)
    BY DEF Bounded
  <2>2. asked \subseteq 1..3
    OBVIOUS
  <2> HIDE DEF asked
  <2> QED
    BY <1>6, <2>1, <2>2, LastOf
<1>8. asked = {} => \A i \in 1..3 : ~Gives(i)
  BY <1>6
<1>9. asked # {} => \E i \in 1..3 : Gives(i)
  OBVIOUS
<1> DEFINE last == Max(asked)
<1> HIDE DEF asked, last
<1>10. 1 \in 1..3 /\ 2 \in 1..3 /\ 3 \in 1..3
  OBVIOUS
<1>11. CASE asked = {}
  BY <1>3, <1>4, <1>5, <1>8, <1>10, <1>11, Zenon
<1>12. CASE asked # {}
  <2>1. last \in 1..3 /\ Gives(last) /\ \A i \in 1..3 : Gives(i) => i <= last
    BY <1>6, <1>7, <1>12, Zenon DEF last
  <2>2. MinAgeAskedFor(s) = V(last)
    BY <1>4, <1>12, Zenon DEF last
  <2>3. \/ last = 3 /\ Gives(3)
        \/ last = 2 /\ ~Gives(3) /\ Gives(2)
        \/ last = 1 /\ ~Gives(3) /\ ~Gives(2) /\ Gives(1)
    BY <2>1
  <2>4. getMinAge(s) = V(last)
    BY <1>3, <2>3, Zenon
  <2> QED
    BY <1>2, <2>1, <2>2, <2>4
<1> QED
  BY <1>11, <1>12

(* A series reported to be gone has no sample younger than min-age.        *)
LEMMA GoneIsFact ==
    ASSUME rule \in Rules, NEW times \in SUBSET Evaluations, EndedEarly(times), ~IsRecent(times),
           NEW t \in times
    PROVE  t + Window.step < Window.end - MinAgeAskedFor(Selector)
<1>1. Len(Ranges(times)) = 1
  BY DEF EndedEarly
<1>2. newest(times) \in Nat /\ t \in Nat /\ t + Window.step <= newest(times)
  BY <1>1, EndIsLast
<1>3. getMinAge(Selector) = MinAgeAskedFor(Selector) /\ getMinAge(Selector) \in Nat
  BY MinAgeIsAskedFor
<1>4. ~(newest(times) >= Window.end - getMinAge(Selector))
  BY DEF IsRecent
<1>5. Window.end \in Nat /\ Window.step \in Nat
  BY SeriesAssumption
<1> QED
  BY <1>2, <1>3, <1>4, <1>5

(* The queries of a selector are different ones.                           *)
LEMMA QueriesAre ==
    /\ Instant.on = "selector" /\ Bare.on = "metric"
    /\ \A i : Label(i).on = "label" /\ Label(i).of = i
    /\ \A i : Value(i).on = "value" /\ Value(i).of = i
BY DEF Instant, Bare, Label, Value, Query

(* The selector being checked, and the positions of its matchers.          *)
LEMMA SelectorIs ==
    ASSUME CheckTypeOK, at > 0
    PROVE  /\ at \in 1..Len(rule.selectors) /\ Selector \in SelectorType
           /\ DOMAIN Selector.matchers \subseteq Nat
<1>1. rule.selectors \in Seq(SelectorType)
  BY SeriesAssumption DEF CheckTypeOK, RuleType
<1>2. at \in 1..Len(rule.selectors)
  BY <1>1 DEF CheckTypeOK
<1>3. Selector \in SelectorType
  BY <1>1, <1>2 DEF Selector
<1>4. DOMAIN Selector.matchers \subseteq Nat
  <2> DEFINE m == Selector.matchers
  <2>1. m \in Seq([label : STRING, value : STRING, positive : BOOLEAN])
    BY <1>3 DEF SelectorType
  <2> HIDE DEF m
  <2>2. DOMAIN m = 1..Len(m) /\ Len(m) \in Nat
    BY <2>1
  <2> QED
    BY <2>2 DEF m
<1> QED
  BY <1>2, <1>3, <1>4

LEMMA NextToAsk ==
    ASSUME CheckTypeOK, at > 0, NEW S, S \subseteq Positive(Selector), S # {}
    PROVE  Min(S) \in S
<1>1. S \subseteq Nat
  BY SelectorIs DEF Positive
<1> QED
  BY <1>1, LeastOf

(* The label of a matcher is asked for once, by the first that names it.   *)
LEMMA NameIsItsOwn ==
    ASSUME NEW s, DOMAIN s.matchers \subseteq Nat, NEW i \in labelNames(s)
    PROVE  NameOf(s, i) = i
<1> DEFINE label(j) == s.matchers[j].label
<1>1. i \in Nat /\ i \in Positive(s)
      /\ \A j \in labelNames(s) : j \in Nat /\ j \in Positive(s)
  BY DEF labelNames, Positive
<1>2. ASSUME NEW j \in labelNames(s), label(j) = label(i) PROVE j = i
  <2>1. j <= i
    BY <1>1, <1>2, Zenon DEF labelNames
  <2>2. i <= j
    BY <1>1, <1>2, Zenon DEF labelNames
  <2> QED
    BY <1>1, <2>1, <2>2
<1>3. (CHOOSE j \in labelNames(s) : label(j) = label(i)) \in labelNames(s)
      /\ label(CHOOSE j \in labelNames(s) : label(j) = label(i)) = label(i)
  BY Zenon
<1> QED
  BY <1>2, <1>3, Zenon DEF NameOf

(* A new answer leaves those that are there.                               *)
LEMMA AnswerIs ==
    ASSUME NEW q, NEW a, answers' = Answer(q, a)
    PROVE  /\ DOMAIN answers' = DOMAIN answers \cup {q} /\ answers'[q] = a
           /\ \A x \in DOMAIN answers : x # q => answers'[x] = answers[x]
BY DEF Answer

FactKinds == {"never", "unlabelled", "gone", "sometimes"}

LEMMA MinAgeStays ==
    ASSUME rule' = rule, at' = at
    PROVE  MinAgeAskedFor(Selector)' = MinAgeAskedFor(Selector)
BY DEF MinAgeAskedFor, Selector, HasMinAge, ValueOf, Scopes, AnySelector, stripLabels

(* Findings stay facts if answers are only added, and what is added to     *)
(* them is a fact about an answer.                                         *)
Report(p, all) ==
    /\ p.selector = at
    /\ p.kind \in FactKinds =>
          p.of \in DOMAIN all /\ all[p.of] # None /\ IsFact(p.kind, all[p.of])

LEMMA ReportsStay ==
    ASSUME CheckTypeOK, FindingsAreFacts, at > 0,
           rule' = rule, at' = at, uptime' = uptime,
           NEW P, problems' = problems \cup P,
           NEW all, answers' = all,
           \A x \in DOMAIN answers : x \in DOMAIN all /\ all[x] = answers[x],
           \A x \in DOMAIN all : all[x] \in (SUBSET Evaluations) \cup {None},
           \A p \in P : Report(p, all)
    PROVE  CheckTypeOK' /\ FindingsAreFacts'
<1>1. CheckTypeOK'
  <2>1. \A p \in P : p.selector = at
    BY DEF Report
  <2>2. /\ rule \in Rules /\ at \in 0..Len(rule.selectors)
        /\ uptime \in (SUBSET Evaluations) \cup {None}
        /\ \A p \in problems : p.selector \in 0..at
    BY DEF CheckTypeOK
  <2>3. at \in 0..at
    BY SelectorIs
  <2>4. \A p \in problems' : p.selector \in 0..at
    BY <2>1, <2>2, <2>3
  <2> QED
    BY <2>2, <2>4 DEF CheckTypeOK
<1>2. FindingsAreFacts'
  <2> SUFFICES ASSUME NEW p \in problems', p.selector = at, p.kind \in FactKinds
               PROVE  (Answered(p.of) /\ IsFact(p.kind, answers[p.of]))'
    BY DEF FindingsAreFacts, FactKinds
  <2>1. p.of \in DOMAIN all /\ all[p.of] # None /\ IsFact(p.kind, all[p.of])
    <3>1. CASE p \in P
      BY <3>1 DEF Report
    <3>2. CASE p \in problems
      <4>1. Answered(p.of) /\ IsFact(p.kind, answers[p.of])
        BY <3>2, Zenon DEF FindingsAreFacts, FactKinds
      <4>2. p.of \in DOMAIN all /\ all[p.of] = answers[p.of]
        BY <4>1 DEF Answered
      <4> QED
        BY <4>1, <4>2, Zenon DEF Answered
    <3> QED
      BY <3>1, <3>2
  <2>2. Answered(p.of)'
    BY <2>1 DEF Answered
  <2>3. IsFact(p.kind, answers[p.of])'
    BY <2>1, MinAgeStays, Zenon DEF IsFact
  <2> QED
    BY <2>2, <2>3
<1> QED
  BY <1>1, <1>2

(* One more answer is such an addition; a query that fails adds a problem  *)
(* that is not a finding.                                                  *)
LEMMA AnswerKeeps ==
    ASSUME CheckTypeOK, FindingsAreFacts, at > 0,
           rule' = rule, at' = at, uptime' = uptime,
           NEW q, q \notin DOMAIN answers, NEW a \in (SUBSET Evaluations) \cup {None},
           answers' = Answer(q, a), NEW P, problems' = problems \cup P,
           \A p \in P : /\ p.selector = at
                        /\ p.kind \in FactKinds => p.of = q /\ a # None /\ IsFact(p.kind, a)
    PROVE  CheckTypeOK' /\ FindingsAreFacts'
<1> DEFINE all == Answer(q, a)
<1>1. /\ DOMAIN all = DOMAIN answers \cup {q} /\ all[q] = a
      /\ \A x \in DOMAIN answers : all[x] = answers[x]
  BY DEF Answer
<1> HIDE DEF all
<1>2. \A x \in DOMAIN all : all[x] \in (SUBSET Evaluations) \cup {None}
  <2>1. \A x \in DOMAIN answers : answers[x] \in (SUBSET Evaluations) \cup {None}
    BY DEF CheckTypeOK
  <2> QED
    BY <1>1, <2>1
<1>3. \A p \in P : Report(p, all)
  BY <1>1, Zenon DEF Report
<1>4. answers' = all /\ \A x \in DOMAIN answers : x \in DOMAIN all /\ all[x] = answers[x]
  BY <1>1 DEF all
<1> QED
  BY <1>2, <1>3, <1>4, ReportsStay

LEMMA FailureKeeps ==
    ASSUME CheckTypeOK, FindingsAreFacts, at > 0,
           rule' = rule, at' = at, uptime' = uptime,
           NEW q, q \notin DOMAIN answers, Fails(q)
    PROVE  CheckTypeOK' /\ FindingsAreFacts' /\ problems' # {}
<1>1. PICK p \in queryProblem(q) : problems' = problems \cup {p}
  BY DEF Fails
<1>2. p.selector = at /\ p.kind = "failed"
  BY DEF queryProblem, Problem, ProblemIn
<1>3. answers' = Answer(q, None)
  BY Zenon DEF Fails
<1>4. \A x \in {p} : /\ x.selector = at
                     /\ x.kind \in FactKinds => x.of = q /\ None # None /\ IsFact(x.kind, None)
  BY <1>2 DEF FactKinds
<1>5. problems' # {}
  BY <1>1
<1>6. None \in (SUBSET Evaluations) \cup {None}
  OBVIOUS
<1> QED
  BY <1>1, <1>3, <1>4, <1>5, <1>6, AnswerKeeps

(* A problem of the current selector, by its parts.                        *)
LEMMA ProblemIs ==
    ASSUME NEW kind, NEW of, NEW severity
    PROVE  LET p == Problem(kind, of, severity) IN
           p.selector = at /\ p.kind = kind /\ p.of = of
BY DEF Problem, ProblemIn

(* Step 4 and step 6: what is reported to be gone is.                      *)
LEMMA GoneReports ==
    ASSUME rule \in Rules, NEW times \in SUBSET Evaluations, EndedEarly(times),
           NEW of, NEW p \in Gone(of, times)
    PROVE  /\ p.selector = at
           /\ p.kind \in FactKinds => p.of = of /\ IsFact(p.kind, times)
<1>1. CASE p \in BadComments
  <2>1. PICK scope : p = Problem("comment", Bare, "Warning")
    BY <1>1 DEF BadComments
  <2> QED
    BY <2>1, ProblemIs DEF FactKinds
<1>2. CASE p \notin BadComments
  <2>1. ~IsRecent(times) /\ p = Problem("gone", of, textAndSeverity(Selector.metric))
    BY <1>2 DEF Gone
  <2>2. p.selector = at /\ p.kind = "gone" /\ p.of = of
    BY <2>1, ProblemIs
  <2>3. \A t \in times : t + Window.step < Window.end - MinAgeAskedFor(Selector)
    BY <2>1, GoneIsFact
  <2>4. IsFact(p.kind, times)
    BY <2>2, <2>3 DEF IsFact
  <2> QED
    BY <2>2, <2>4
<1> QED
  BY <1>1, <1>2

LEMMA SometimesReports ==
    ASSUME NEW times \in SUBSET Evaluations, uptime \in SUBSET Evaluations,
           IsSometimesThere(times)
    PROVE  IsFact("sometimes", times)
<1>1. \E t \in Evaluations \ times : Within(t, uptime, Window.step)
  BY SometimesIsFact DEF IsSometimesThere
<1> QED
  BY <1>1 DEF IsFact

(* Steps 5 to 7.                                                           *)
LEMMA ValueReports ==
    ASSUME rule \in Rules, uptime \in SUBSET Evaluations,
           NEW times \in SUBSET Evaluations, NEW i, NEW p \in ValueProblems(i, times)
    PROVE  /\ p.selector = at
           /\ p.kind \in FactKinds => p.of = Value(i) /\ IsFact(p.kind, times)
<1>1. CASE times = {}
  <2>1. p = Problem("never", Value(i), textAndSeverity(Selector.metric))
    BY <1>1, Zenon DEF ValueProblems
  <2>2. p.selector = at /\ p.kind = "never" /\ p.of = Value(i)
    BY <2>1, ProblemIs
  <2> QED
    BY <1>1, <2>2 DEF IsFact
<1>2. CASE times # {} /\ EndedEarly(times)
  <2>0. ~IsSometimesThere(times)
    BY <1>2 DEF EndedEarly, IsSometimesThere
  <2>1. ValueProblems(i, times) = Gone(Value(i), times)
    BY <1>2, <2>0, Zenon DEF ValueProblems
  <2> QED
    BY <1>2, <2>1, GoneReports
<1>3. CASE times # {} /\ ~EndedEarly(times) /\ IsSometimesThere(times)
  <2>1. p \in {Problem("sometimes", Value(i), "Warning")}
    BY <1>3, Zenon DEF ValueProblems
  <2>2. p.selector = at /\ p.kind = "sometimes" /\ p.of = Value(i)
    BY <2>1, ProblemIs
  <2> QED
    BY <1>3, <2>2, SometimesReports
<1>4. CASE times # {} /\ ~EndedEarly(times) /\ ~IsSometimesThere(times)
  <2>1. p \in {}
    BY <1>4, Zenon DEF ValueProblems
  <2> QED
    BY <2>1
<1> QED
  BY <1>1, <1>2, <1>3, <1>4

(* Step 3.                                                                 *)
LEMMA LabelReports ==
    ASSUME uptime \in SUBSET Evaluations,
           NEW times \in SUBSET Evaluations, NEW i, NEW p \in LabelProblems(i, times)
    PROVE  /\ p.selector = at
           /\ p.kind \in FactKinds => p.of = Label(i) /\ IsFact(p.kind, times)
<1>1. IsNeverLabelled(times) /\ p = Problem("unlabelled", Label(i), "Bug")
  BY Zenon DEF LabelProblems
<1>2. p.selector = at /\ p.kind = "unlabelled" /\ p.of = Label(i)
  BY <1>1, ProblemIs
<1>3. ~\E t \in Evaluations : {t, t + Window.step} \subseteq times \cap uptime
  BY <1>1, UnlabelledIsFact
<1> QED
  BY <1>2, <1>3 DEF IsFact

----------------------------------------------------------------------------
(* The parts of the invariant, for use one at a time.                      *)
LEMMA PartsOfInv ==
    ASSUME CheckInv
    PROVE  /\ CheckTypeOK /\ NothingAskedTwice /\ FindingsAreFacts
           /\ DeadSoFar /\ DeadSelectorsAreReported
BY DEF CheckInv

LEMMA SelectorStays ==
    ASSUME rule' = rule, at' = at
    PROVE  /\ labelNames(Selector)' = labelNames(Selector)
           /\ ValuesToAsk(Selector)' = ValuesToAsk(Selector)
           /\ \A i : i \in Positive(Selector)' <=> i \in Positive(Selector)
BY DEF Selector, labelNames, ValuesToAsk, Positive, isLabelValueIgnored, Scopes,
       stripLabels, AnySelector

LEMMA JustNowStays ==
    ASSUME rule' = rule, at' = at, answers' = answers
    PROVE  WentAwayJustNow(answers[Bare])' <=> WentAwayJustNow(answers[Bare])
<1>1. getMinAge(Selector)' = getMinAge(Selector)
  BY DEF getMinAge, Override, HasMinAge, ValueOf, Selector, stripLabels, AnySelector
<1> QED
  BY <1>1 DEF WentAwayJustNow, EndedEarly, WasAlwaysThere, IsRecent, newest, oldest, Ranges,
              Bare, Query

(* What is asked is a matcher that is positive.                            *)
LEMMA AskedArePositive ==
    ASSUME NEW s
    PROVE  labelNames(s) \subseteq Positive(s) /\ ValuesToAsk(s) \subseteq Positive(s)
BY DEF labelNames, ValuesToAsk

LEMMA CheckBegins == CheckInit => CheckInv
<1> SUFFICES ASSUME CheckInit PROVE CheckInv
  OBVIOUS
<1>1. /\ rule \in Rules /\ at = 0 /\ uptime = {} /\ DOMAIN answers = {}
      /\ problems = {} /\ stage = "next"
  BY DEF CheckInit, NoAnswers
<1>2. CheckTypeOK
  <2>1. rule.selectors \in Seq(SelectorType)
    BY <1>1, SeriesAssumption DEF RuleType
  <2>2. at \in 0..Len(rule.selectors)
    BY <1>1, <2>1
  <2> QED
    BY <1>1, <2>2 DEF CheckTypeOK
<1>3. NothingAskedTwice
  BY <1>1 DEF NothingAskedTwice
<1>4. FindingsAreFacts /\ DeadSoFar /\ DeadSelectorsAreReported
  BY <1>1 DEF FindingsAreFacts, DeadSoFar, DeadSelectorsAreReported
<1> QED
  BY <1>2, <1>3, <1>4 DEF CheckInv

LEMMA NextSelectorKeeps ==
    ASSUME CheckInv, NextSelector
    PROVE  CheckInv'
<1>1. CheckTypeOK /\ FindingsAreFacts
  BY PartsOfInv
<1>2. /\ stage = "next" /\ at < Len(rule.selectors) /\ at' = at + 1 /\ rule' = rule
      /\ uptime' = {} /\ DOMAIN answers' = {}
  BY Zenon DEF NextSelector, NoAnswers
<1>3. /\ stage' \in {"next", "instant"}
      /\ problems' = problems \/ problems' = problems \cup AlertProblems(at')
  BY Zenon DEF NextSelector
<1>4. \A p \in AlertProblems(at') : p.selector = at' /\ p.kind = "alert"
  BY DEF AlertProblems, ProblemIn
<1>5. rule.selectors \in Seq(SelectorType) /\ Len(rule.selectors) \in Nat
  <2>1. rule.selectors \in Seq(SelectorType)
    BY <1>1, SeriesAssumption DEF CheckTypeOK, RuleType
  <2> QED
    BY <2>1
<1>6. at \in Nat /\ at' \in 0..Len(rule.selectors) /\ at' > 0 /\ at' \in 0..at' /\ at' \notin 0..at
      /\ 0..at \subseteq 0..at'
  BY <1>1, <1>2, <1>5 DEF CheckTypeOK
<1>7. \A p \in problems' : \/ p.selector \in 0..at
                           \/ p.selector = at' /\ p.kind = "alert"
  BY <1>1, <1>3, <1>4 DEF CheckTypeOK
<1>8. CheckTypeOK'
  <2>1. \A p \in problems' : p.selector \in 0..at'
    BY <1>6, <1>7
  <2> QED
    BY <1>1, <1>2, <1>6, <2>1 DEF CheckTypeOK
<1>9. NothingAskedTwice'
  BY <1>2, <1>3 DEF NothingAskedTwice
<1>10. FindingsAreFacts'
  BY <1>6, <1>7 DEF FindingsAreFacts
<1>11. DeadSoFar'
  BY <1>3 DEF DeadSoFar
<1>12. DeadSelectorsAreReported'
  BY <1>2 DEF DeadSelectorsAreReported, IsDead, NeverThere, Answered
<1> QED
  BY <1>8, <1>9, <1>10, <1>11, <1>12 DEF CheckInv

LEMMA AskInstantKeeps ==
    ASSUME CheckInv, AskInstant
    PROVE  CheckInv'
<1>1. CheckTypeOK /\ NothingAskedTwice /\ FindingsAreFacts
  BY PartsOfInv
<1>2. /\ stage = "instant" /\ stage' \in {"next", "uptime"}
      /\ rule' = rule /\ at' = at /\ uptime' = uptime
      /\ \/ Fails(Instant) /\ stage' = "next"
         \/ problems' = problems /\ answers' = answers
  BY Zenon DEF AskInstant
<1>3. DOMAIN answers = {} /\ at > 0
  BY <1>1, <1>2 DEF NothingAskedTwice, CheckTypeOK
<1>4. CheckTypeOK' /\ FindingsAreFacts'
  <2>1. CASE Fails(Instant)
    BY <1>1, <1>2, <1>3, <2>1, FailureKeeps
  <2>2. CASE problems' = problems /\ answers' = answers
    <3>1. CheckTypeOK'
      BY <1>1, <1>2, <1>3, <2>2 DEF CheckTypeOK
    <3>2. FindingsAreFacts'
      BY <1>1, <1>2, <1>3, <2>2 DEF FindingsAreFacts, Answered
    <3> QED
      BY <3>1, <3>2
  <2> QED
    BY <1>2, <2>1, <2>2
<1>5. \A q \in DOMAIN answers' : q = Instant
  <2>1. CASE Fails(Instant)
    <3>1. answers' = Answer(Instant, None)
      BY <2>1, Zenon DEF Fails
    <3> QED
      BY <1>3, <3>1, AnswerIs
  <2> QED
    BY <1>2, <1>3, <2>1
<1>6. stage' = "uptime" => DOMAIN answers' = {}
  BY <1>2, <1>3
<1>7. NothingAskedTwice'
  BY <1>2, <1>5, <1>6, QueriesAre DEF NothingAskedTwice
<1>8. DeadSoFar'
  BY <1>2 DEF DeadSoFar
<1>9. DeadSelectorsAreReported'
  <2>1. CASE Fails(Instant)
    BY <1>1, <1>2, <1>3, <2>1, FailureKeeps DEF DeadSelectorsAreReported
  <2>2. CASE problems' = problems /\ answers' = answers
    BY <1>3, <2>2 DEF DeadSelectorsAreReported, IsDead, NeverThere, Answered
  <2> QED
    BY <1>2, <2>1, <2>2
<1> QED
  BY <1>4, <1>7, <1>8, <1>9 DEF CheckInv

LEMMA AskUptimeKeeps ==
    ASSUME CheckInv, AskUptime
    PROVE  CheckInv'
<1>1. CheckTypeOK /\ NothingAskedTwice /\ FindingsAreFacts
  BY PartsOfInv
<1>2. /\ stage = "uptime" /\ stage' = "bare" /\ uptime' \in Uptimes \cup {None}
      /\ rule' = rule /\ at' = at /\ problems' = problems /\ answers' = answers
  BY Zenon DEF AskUptime
<1>3. DOMAIN answers = {} /\ at > 0
  BY <1>1, <1>2 DEF NothingAskedTwice, CheckTypeOK
<1>4. CheckTypeOK'
  <2>1. uptime' \in (SUBSET Evaluations) \cup {None}
    BY <1>2, SeriesAssumption
  <2> QED
    BY <1>1, <1>2, <1>3, <2>1 DEF CheckTypeOK
<1>5. NothingAskedTwice'
  BY <1>2, <1>3 DEF NothingAskedTwice
<1>6. FindingsAreFacts'
  BY <1>1, <1>2, <1>3 DEF FindingsAreFacts, Answered
<1>7. DeadSoFar' /\ DeadSelectorsAreReported'
  BY <1>2 DEF DeadSoFar, DeadSelectorsAreReported
<1> QED
  BY <1>4, <1>5, <1>6, <1>7 DEF CheckInv

(* A metric never there is reported; of one that was, labels are asked.   *)
LEMMA AskBareKeeps ==
    ASSUME CheckInv, AskBare
    PROVE  CheckInv'
<1>1. CheckTypeOK /\ NothingAskedTwice /\ FindingsAreFacts
  BY PartsOfInv
<1>2. stage = "bare" /\ rule' = rule /\ at' = at /\ uptime' = uptime
  BY Zenon DEF AskBare
<1>3. DOMAIN answers = {} /\ at > 0
  BY <1>1, <1>2 DEF NothingAskedTwice, CheckTypeOK
<1>4. CASE Fails(Bare) /\ stage' = "next"
  <2>1. CheckTypeOK' /\ FindingsAreFacts' /\ problems' # {}
    BY <1>1, <1>2, <1>3, <1>4, FailureKeeps
  <2>2. answers' = Answer(Bare, None)
    BY <1>4, Zenon DEF Fails
  <2>3. \A q \in DOMAIN answers' : q = Bare
    BY <1>3, <2>2, AnswerIs
  <2>4. NothingAskedTwice'
    BY <1>4, <2>3, QueriesAre DEF NothingAskedTwice
  <2>5. DeadSoFar' /\ DeadSelectorsAreReported'
    BY <1>4, <2>1 DEF DeadSoFar, DeadSelectorsAreReported
  <2> QED
    BY <2>1, <2>4, <2>5 DEF CheckInv
<1>5. ASSUME NEW times \in SUBSET Evaluations,
             answers' = Answer(Bare, times),
             IF uptime = None THEN stage' = "panicked" /\ UNCHANGED <<problems, todo>>
             ELSE IF times = {}
             THEN /\ problems' = problems \cup {MetricProblem}
                  /\ stage' = "next" /\ UNCHANGED todo
             ELSE /\ stage' = "labels" /\ todo' = labelNames(Selector)
                  /\ UNCHANGED problems
      PROVE  CheckInv'
  <2>1. \/ stage' = "panicked" /\ problems' = problems
        \/ stage' = "next" /\ problems' = problems \cup {MetricProblem} /\ times = {}
        \/ /\ stage' = "labels" /\ problems' = problems /\ times # {} /\ uptime # None
           /\ todo' = labelNames(Selector)
    BY <1>5, Zenon
  <2> DEFINE P == IF stage' = "next" THEN {MetricProblem} ELSE {}
  <2>2. problems' = problems \cup P
    BY <2>1
  <2>3. \A p \in P : /\ p.selector = at
                     /\ p.kind \in FactKinds => p.of = Bare /\ times # None /\ IsFact(p.kind, times)
    <3> SUFFICES ASSUME stage' = "next"
                 PROVE  LET p == MetricProblem IN
                        /\ p.selector = at
                        /\ p.kind \in FactKinds =>
                              p.of = Bare /\ times # None /\ IsFact(p.kind, times)
      OBVIOUS
    <3>1. times = {} /\ times # None
      BY <2>1, SeriesAssumption
    <3>2. \/ MetricProblem = Problem("recorded", Bare, "Information")
          \/ MetricProblem = Problem("never", Bare, textAndSeverity(Selector.metric))
      BY Zenon DEF MetricProblem
    <3>3. /\ MetricProblem.selector = at
          /\ MetricProblem.kind \in FactKinds => MetricProblem.of = Bare /\ MetricProblem.kind = "never"
      BY <3>2, ProblemIs DEF FactKinds
    <3>4. IsFact("never", times)
      BY <3>1 DEF IsFact
    <3> QED
      BY <3>1, <3>3, <3>4
  <2> HIDE DEF P
  <2>4. times \in (SUBSET Evaluations) \cup {None} /\ Bare \notin DOMAIN answers
    BY <1>3
  <2>5. CheckTypeOK' /\ FindingsAreFacts'
    BY <1>1, <1>2, <1>3, <1>5, <2>2, <2>3, <2>4, AnswerKeeps
  <2>6. (\A q \in DOMAIN answers' : q = Bare) /\ Bare \in DOMAIN answers' /\ answers'[Bare] = times
    BY <1>3, <1>5, AnswerIs
  <2>7. NothingAskedTwice'
    <3>1. times # None
      BY SeriesAssumption
    <3>2. stage' \in {"panicked", "next", "labels"}
      BY <2>1
    <3>3. stage' = "labels" => /\ times # {} /\ uptime' # None
                               /\ todo' = labelNames(Selector)'
      BY <1>2, <2>1, SelectorStays
    <3> QED
      BY <2>6, <3>1, <3>2, <3>3, QueriesAre DEF NothingAskedTwice, Answered
  <2>8. DeadSoFar' /\ DeadSelectorsAreReported'
    BY <2>1 DEF DeadSoFar, DeadSelectorsAreReported
  <2> QED
    BY <2>5, <2>7, <2>8 DEF CheckInv
<1> QED
  BY <1>4, <1>5, Zenon DEF AskBare

(* The next label has not been asked for.                                  *)
LEMMA NextLabelIs ==
    ASSUME CheckTypeOK, NothingAskedTwice, stage = "labels", todo # {}
    PROVE  /\ Min(todo) \in todo /\ Min(todo) \in labelNames(Selector)
           /\ Label(Min(todo)) \notin DOMAIN answers /\ at > 0
           /\ Bare \in DOMAIN answers /\ answers[Bare] # None
           /\ answers[Bare] \in SUBSET Evaluations /\ uptime \in SUBSET Evaluations
<1>1. at > 0 /\ todo \subseteq labelNames(Selector)
  BY DEF CheckTypeOK, NothingAskedTwice
<1>2. todo \subseteq Positive(Selector)
  BY <1>1, AskedArePositive
<1>3. Min(todo) \in todo
  BY <1>1, <1>2, NextToAsk
<1>4. \A q \in DOMAIN answers : q.on = "label" => q.of \notin todo
  BY DEF NothingAskedTwice
<1>5. Label(Min(todo)) \notin DOMAIN answers
  BY <1>3, <1>4, QueriesAre
<1>6. Bare \in DOMAIN answers /\ answers[Bare] # None /\ uptime # None
  BY DEF NothingAskedTwice, Answered
<1>7. answers[Bare] \in SUBSET Evaluations /\ uptime \in SUBSET Evaluations
  BY <1>6 DEF CheckTypeOK
<1> QED
  BY <1>1, <1>3, <1>5, <1>6, <1>7

LEMMA NextValueIs ==
    ASSUME CheckTypeOK, NothingAskedTwice, stage = "values", todo # {}
    PROVE  /\ Min(todo) \in todo /\ Min(todo) \in ValuesToAsk(Selector)
           /\ Value(Min(todo)) \notin DOMAIN answers /\ at > 0
           /\ Bare \in DOMAIN answers /\ answers[Bare] # None
           /\ answers[Bare] \in SUBSET Evaluations /\ uptime \in SUBSET Evaluations
<1>1. at > 0 /\ todo \subseteq ValuesToAsk(Selector)
  BY DEF CheckTypeOK, NothingAskedTwice
<1>2. todo \subseteq Positive(Selector)
  BY <1>1, AskedArePositive
<1>3. Min(todo) \in todo
  BY <1>1, <1>2, NextToAsk
<1>4. \A q \in DOMAIN answers : q.on = "value" => q.of \notin todo
  BY DEF NothingAskedTwice
<1>5. Value(Min(todo)) \notin DOMAIN answers
  BY <1>3, <1>4, QueriesAre
<1>6. Bare \in DOMAIN answers /\ answers[Bare] # None /\ uptime # None
  BY DEF NothingAskedTwice, Answered
<1>7. answers[Bare] \in SUBSET Evaluations /\ uptime \in SUBSET Evaluations
  BY <1>6 DEF CheckTypeOK
<1> QED
  BY <1>1, <1>3, <1>5, <1>6, <1>7

(* What Prometheus can answer are evaluations.                             *)
LEMMA PossibleAnswers ==
    ASSUME CheckTypeOK, answers[Bare] \in SUBSET Evaluations, NEW q, NEW times \in Possible(q)
    PROVE  times \in SUBSET Evaluations
<1>1. CASE Answered(q)
  <2>1. answers[q] \in SUBSET Evaluations
    BY <1>1 DEF Answered, CheckTypeOK
  <2> QED
    BY <1>1, <2>1 DEF Possible
<1>2. CASE ~Answered(q)
  BY <1>2 DEF Possible
<1> QED
  BY <1>1, <1>2

LEMMA AskLabelKeeps ==
    ASSUME CheckInv, AskLabel
    PROVE  CheckInv'
<1> DEFINE i == Min(todo)
           q == Label(i)
<1>1. CheckTypeOK /\ NothingAskedTwice /\ FindingsAreFacts
  BY PartsOfInv
<1>2. /\ stage = "labels" /\ todo # {} /\ todo' = todo \ {i} /\ stage' = stage
      /\ rule' = rule /\ at' = at /\ uptime' = uptime
      /\ \/ Fails(q)
         \/ \E times \in Possible(Bare) :
              /\ answers' = Answer(q, times)
              /\ problems' = problems \cup LabelProblems(i, times)
  BY Zenon DEF AskLabel
<1>3. /\ i \in todo /\ i \in labelNames(Selector) /\ q \notin DOMAIN answers /\ at > 0
      /\ Bare \in DOMAIN answers /\ answers[Bare] # None
      /\ answers[Bare] \in SUBSET Evaluations /\ uptime \in SUBSET Evaluations
  BY <1>1, <1>2, NextLabelIs
<1>4. q.on = "label" /\ q.of = i /\ q # Bare
  BY QueriesAre
<1> HIDE DEF i
<1>5. CheckTypeOK' /\ FindingsAreFacts' /\ \E a : answers' = Answer(q, a)
  <2>1. CASE Fails(q)
    <3>1. CheckTypeOK' /\ FindingsAreFacts'
      BY <1>1, <1>2, <1>3, <2>1, FailureKeeps
    <3>2. answers' = Answer(q, None)
      BY <2>1, Zenon DEF Fails
    <3> QED
      BY <3>1, <3>2
  <2>2. ASSUME NEW times \in Possible(Bare), answers' = Answer(q, times),
               problems' = problems \cup LabelProblems(i, times)
        PROVE  CheckTypeOK' /\ FindingsAreFacts' /\ \E a : answers' = Answer(q, a)
    <3>1. times \in SUBSET Evaluations
      BY <1>1, <1>3, PossibleAnswers
    <3>2. times # None /\ times \in (SUBSET Evaluations) \cup {None}
      BY <3>1, SeriesAssumption
    <3> DEFINE P == LabelProblems(i, times)
    <3>3. \A p \in P : /\ p.selector = at
                       /\ p.kind \in FactKinds => p.of = q /\ times # None /\ IsFact(p.kind, times)
      BY <1>3, <3>1, <3>2, LabelReports
    <3>4. problems' = problems \cup P
      BY <2>2
    <3> HIDE DEF P, q
    <3>5. CheckTypeOK' /\ FindingsAreFacts'
      BY <1>1, <1>2, <1>3, <2>2, <3>2, <3>3, <3>4, AnswerKeeps
    <3> QED
      BY <2>2, <3>5
  <2> QED
    BY <1>2, <2>1, <2>2
<1> HIDE DEF q
<1>6. /\ DOMAIN answers' = DOMAIN answers \cup {q}
      /\ answers'[Bare] = answers[Bare] /\ Bare \in DOMAIN answers'
  BY <1>3, <1>4, <1>5, AnswerIs
<1>7. NothingAskedTwice'
  <2>1. /\ labelNames(Selector)' = labelNames(Selector)
        /\ answers[Bare] # {} /\ uptime # None /\ todo \subseteq labelNames(Selector)
        /\ \A x \in DOMAIN answers :
             /\ x.on # "value" /\ (x.on = "label" => x.of \notin todo)
             /\ x.on = "label" => x.of \in labelNames(Selector)
    BY <1>1, <1>2, SelectorStays DEF NothingAskedTwice
  <2>2. \A x \in DOMAIN answers' :
             /\ x.on # "value" /\ (x.on = "label" => x.of \notin todo')
             /\ x.on = "label" => x.of \in labelNames(Selector)
    BY <1>2, <1>3, <1>4, <1>6, <2>1
  <2>3. Answered(Bare)' /\ answers'[Bare] # {} /\ uptime' # None
    BY <1>2, <1>3, <1>6, <2>1 DEF Answered
  <2>4. todo' \subseteq labelNames(Selector) /\ stage' = "labels"
    BY <1>2, <2>1
  <2> QED
    BY <2>1, <2>2, <2>3, <2>4 DEF NothingAskedTwice
<1>8. DeadSoFar' /\ DeadSelectorsAreReported'
  BY <1>2 DEF DeadSoFar, DeadSelectorsAreReported
<1> QED
  BY <1>5, <1>7, <1>8 DEF CheckInv

LEMMA LabelsDoneKeeps ==
    ASSUME CheckInv, LabelsDone
    PROVE  CheckInv'
<1> DEFINE metric == answers[Bare]
<1>1. CheckTypeOK /\ NothingAskedTwice /\ FindingsAreFacts
  BY PartsOfInv
<1>2. /\ stage = "labels" /\ rule' = rule /\ at' = at /\ uptime' = uptime /\ answers' = answers
      /\ \/ problems # {} /\ stage' = "next" /\ problems' = problems
         \/ /\ EndedEarly(metric) /\ WasAlwaysThere(metric) /\ stage' = "next"
            /\ problems' = problems \cup Gone(Bare, metric)
         \/ /\ problems = {} /\ stage' = "values" /\ problems' = problems
            /\ todo' = ValuesToAsk(Selector)
  BY Zenon DEF LabelsDone
<1>3. /\ Bare \in DOMAIN answers /\ metric # None /\ metric # {} /\ uptime # None /\ at > 0
      /\ \A q \in DOMAIN answers : q.on # "value"
      /\ \A q \in DOMAIN answers : q.on = "label" => q.of \in labelNames(Selector)
  BY <1>1, <1>2 DEF NothingAskedTwice, Answered, CheckTypeOK
<1>4. metric \in SUBSET Evaluations /\ rule \in Rules
  BY <1>1, <1>3 DEF CheckTypeOK
<1> HIDE DEF metric
<1>5. CheckTypeOK' /\ FindingsAreFacts'
  <2>1. ASSUME NEW P, problems' = problems \cup P, \A p \in P : Report(p, answers)
        PROVE  CheckTypeOK' /\ FindingsAreFacts'
    <3>1. \A x \in DOMAIN answers : answers[x] \in (SUBSET Evaluations) \cup {None}
      BY <1>1 DEF CheckTypeOK
    <3> QED
      BY <1>1, <1>2, <1>3, <2>1, <3>1, ReportsStay
  <2>2. CASE problems' = problems
    <3> DEFINE none == {}
    <3>1. problems' = problems \cup none /\ \A p \in none : Report(p, answers)
      BY <2>2
    <3> HIDE DEF none
    <3> QED
      BY <2>1, <3>1
  <2>3. CASE EndedEarly(metric) /\ problems' = problems \cup Gone(Bare, metric)
    <3>1. \A p \in Gone(Bare, metric) : Report(p, answers)
      BY <1>3, <1>4, <2>3, GoneReports DEF Report, metric
    <3> QED
      BY <2>1, <2>3, <3>1
  <2> QED
    BY <1>2, <2>2, <2>3
<1>6. NothingAskedTwice'
  <2>1. /\ ValuesToAsk(Selector)' = ValuesToAsk(Selector)
        /\ labelNames(Selector)' = labelNames(Selector)
    BY <1>2, SelectorStays
  <2>2. Answered(Bare)' /\ answers'[Bare] # {} /\ uptime' # None
    BY <1>2, <1>3 DEF Answered, metric
  <2>3. stage' \in {"next", "values"} /\ (stage' = "values" => todo' \subseteq ValuesToAsk(Selector)')
    BY <1>2, <2>1
  <2> QED
    BY <1>2, <1>3, <2>1, <2>2, <2>3 DEF NothingAskedTwice
<1>7. DeadSoFar'
  <2>1. stage' = "values" => todo' = ValuesToAsk(Selector)'
    BY <1>2, SelectorStays
  <2> QED
    BY <2>1 DEF DeadSoFar
<1>8. DeadSelectorsAreReported'
  <2> SUFFICES ASSUME stage' = "next", problems' = {} PROVE WentAwayJustNow(answers[Bare])'
    BY DEF DeadSelectorsAreReported
  <2>1. /\ EndedEarly(metric) /\ WasAlwaysThere(metric)
        /\ problems' = problems \cup Gone(Bare, metric)
    BY <1>2
  <2>2. IsRecent(metric)
    <3> SUFFICES ASSUME ~IsRecent(metric) PROVE FALSE
      OBVIOUS
    <3>1. Problem("gone", Bare, textAndSeverity(Selector.metric)) \in Gone(Bare, metric)
      BY DEF Gone
    <3> QED
      BY <2>1, <3>1
  <2>3. WentAwayJustNow(metric)
    BY <2>1, <2>2 DEF WentAwayJustNow
  <2> QED
    BY <1>2, <2>3, JustNowStays DEF metric
<1> QED
  BY <1>5, <1>6, <1>7, <1>8 DEF CheckInv

(* A value that was asked for, and answered with something, is alive: its  *)
(* label was asked for before it, and had samples too.                     *)
LEMMA AnsweredIsAlive ==
    ASSUME CheckTypeOK, NothingAskedTwice, stage = "values", at > 0,
           NEW i \in ValuesToAsk(Selector),
           NEW times \in Possible(Label(NameOf(Selector, i))), times # {}
    PROVE  ~NeverThere(Label(i))
<1> SUFFICES ASSUME NeverThere(Label(i)) PROVE FALSE
  OBVIOUS
<1>1. Label(i) \in DOMAIN answers /\ answers[Label(i)] = {} /\ Answered(Label(i))
  BY DEF NeverThere, Answered
<1>2. i \in labelNames(Selector)
  BY <1>1, QueriesAre DEF NothingAskedTwice
<1>3. NameOf(Selector, i) = i
  BY <1>2, SelectorIs, NameIsItsOwn
<1>4. times \in SUBSET answers[Label(i)]
  BY <1>1, <1>3 DEF Possible
<1> QED
  BY <1>1, <1>4

LEMMA AskValueKeeps ==
    ASSUME CheckInv, AskValue
    PROVE  CheckInv'
<1>0. PICK i : i = Min(todo)
  OBVIOUS
<1> DEFINE q == Value(i)
           V == ValuesToAsk(Selector)
<1>1. CheckTypeOK /\ NothingAskedTwice /\ FindingsAreFacts /\ DeadSoFar
  BY PartsOfInv
<1>2. /\ stage = "values" /\ todo # {} /\ todo' = todo \ {i} /\ stage' = stage
      /\ rule' = rule /\ at' = at /\ uptime' = uptime
      /\ \/ Fails(q)
         \/ \E times \in Possible(Label(NameOf(Selector, i))) :
              /\ answers' = Answer(q, times)
              /\ problems' = problems \cup ValueProblems(i, times)
  BY <1>0, Zenon DEF AskValue
<1>3. /\ i \in todo /\ i \in V /\ q \notin DOMAIN answers /\ at > 0
      /\ Bare \in DOMAIN answers /\ answers[Bare] # None
      /\ answers[Bare] \in SUBSET Evaluations /\ uptime \in SUBSET Evaluations
  BY <1>0, <1>1, <1>2, NextValueIs
<1>4. q.on = "value" /\ q.of = i /\ q # Bare
  BY QueriesAre
<1>5. V' = V
  BY <1>2, SelectorStays
<1>6. rule \in Rules
  BY <1>1 DEF CheckTypeOK
<1> HIDE DEF V
<1> DEFINE Alive == /\ Answered(q)' /\ ~NeverThere(q)'
                    /\ ~NeverThere(Label(i))
<1>7. /\ CheckTypeOK' /\ FindingsAreFacts' /\ \E a : answers' = Answer(q, a)
      /\ problems \subseteq problems' /\ (problems' # {} \/ Alive)
  <2>1. CASE Fails(q)
    <3>1. CheckTypeOK' /\ FindingsAreFacts' /\ problems' # {}
      BY <1>1, <1>2, <1>3, <2>1, FailureKeeps
    <3>2. answers' = Answer(q, None) /\ problems \subseteq problems'
      BY <2>1, Zenon DEF Fails
    <3> QED
      BY <3>1, <3>2
  <2>2. ASSUME NEW times \in Possible(Label(NameOf(Selector, i))), answers' = Answer(q, times),
               problems' = problems \cup ValueProblems(i, times)
        PROVE  /\ CheckTypeOK' /\ FindingsAreFacts' /\ \E a : answers' = Answer(q, a)
               /\ problems \subseteq problems' /\ (problems' # {} \/ Alive)
    <3>1. times \in SUBSET Evaluations
      BY <1>1, <1>3, PossibleAnswers
    <3>2. times # None /\ times \in (SUBSET Evaluations) \cup {None}
      BY <3>1, SeriesAssumption
    <3> DEFINE P == ValueProblems(i, times)
    <3>3. \A p \in P : /\ p.selector = at
                       /\ p.kind \in FactKinds => p.of = q /\ times # None /\ IsFact(p.kind, times)
      BY <1>3, <1>6, <3>1, <3>2, ValueReports
    <3>4. problems' = problems \cup P
      BY <2>2
    <3>5. P # {} \/ times # {}
      BY Zenon DEF ValueProblems
    <3>6. times # {} => ~NeverThere(Label(i))
      BY <1>1, <1>2, <1>3, AnsweredIsAlive DEF V
    <3> HIDE DEF P, q
    <3>7. CheckTypeOK' /\ FindingsAreFacts'
      BY <1>1, <1>2, <1>3, <2>2, <3>2, <3>3, <3>4, AnswerKeeps
    <3>8. q \in DOMAIN answers' /\ answers'[q] = times
      BY <2>2, AnswerIs
    <3>9. times # {} => Alive
      BY <3>2, <3>6, <3>8 DEF Answered, NeverThere
    <3> HIDE DEF Alive
    <3> QED
      BY <2>2, <3>4, <3>5, <3>7, <3>9
  <2> HIDE DEF Alive
  <2> QED
    BY <1>2, <2>1, <2>2
<1> HIDE DEF q
<1>8. /\ DOMAIN answers' = DOMAIN answers \cup {q}
      /\ \A x \in DOMAIN answers : answers'[x] = answers[x]
  BY <1>3, <1>7, AnswerIs
<1>9. NothingAskedTwice'
  <2>1. /\ labelNames(Selector)' = labelNames(Selector)
        /\ answers[Bare] # {} /\ uptime # None /\ todo \subseteq V
        /\ \A x \in DOMAIN answers :
             /\ x.on = "value" => x.of \notin todo
             /\ x.on = "label" => x.of \in labelNames(Selector)
    BY <1>1, <1>2, SelectorStays DEF NothingAskedTwice, V
  <2>2. \A x \in DOMAIN answers' :
             /\ x.on = "value" => x.of \notin todo'
             /\ x.on = "label" => x.of \in labelNames(Selector)
    BY <1>2, <1>3, <1>4, <1>8, <2>1
  <2>3. Answered(Bare)' /\ answers'[Bare] # {} /\ uptime' # None
    BY <1>2, <1>3, <1>8, <2>1 DEF Answered
  <2>4. todo' \subseteq V /\ stage' = "values" /\ V = ValuesToAsk(Selector)'
    BY <1>2, <1>5, <2>1 DEF V
  <2> QED
    BY <2>1, <2>2, <2>3, <2>4 DEF NothingAskedTwice
<1>10. DeadSoFar'
  <2> SUFFICES ASSUME problems' = {} PROVE \A j \in V \ todo' : IsAlive(j)'
    BY <1>5 DEF DeadSoFar, V
  <2> SUFFICES ASSUME NEW j \in V \ todo' PROVE IsAlive(j)'
    OBVIOUS
  <2>1. \A n : Label(n).on = "label" /\ Value(n).on = "value"
    BY QueriesAre
  <2>2. /\ NeverThere(Label(j))' => NeverThere(Label(j))
    BY <1>4, <1>8, <2>1 DEF NeverThere, Answered
  <2>3. CASE j = i
    <3>1. Alive
      BY <1>7
    <3> QED
      BY <2>2, <2>3, <3>1 DEF IsAlive, q
  <2>4. CASE j # i
    <3>1. problems = {} /\ j \in V \ todo
      BY <1>2, <1>7, <2>4
    <3>2. IsAlive(j)
      BY <1>1, <1>2, <3>1 DEF DeadSoFar, V
    <3>3. Answered(Value(j))' /\ ~NeverThere(Value(j))'
      BY <1>8, <3>2 DEF IsAlive, NeverThere, Answered
    <3> QED
      BY <2>2, <3>2, <3>3 DEF IsAlive
  <2> QED
    BY <2>3, <2>4
<1>11. DeadSelectorsAreReported'
  BY <1>2 DEF DeadSelectorsAreReported
<1> QED
  BY <1>7, <1>9, <1>10, <1>11 DEF CheckInv

LEMMA ValuesDoneKeeps ==
    ASSUME CheckInv, ValuesDone
    PROVE  CheckInv'
<1> DEFINE metric == answers[Bare]
           P == IF problems = {} /\ IsSometimesThere(metric)
                THEN {Problem("sometimes", Bare, "Warning")} ELSE {}
<1>1. CheckTypeOK /\ NothingAskedTwice /\ FindingsAreFacts /\ DeadSoFar
  BY PartsOfInv
<1>2. /\ stage = "values" /\ todo = {} /\ stage' = "next" /\ todo' = todo
      /\ rule' = rule /\ at' = at /\ uptime' = uptime /\ answers' = answers
      /\ problems' = problems \cup P
  BY Zenon DEF ValuesDone
<1>3. /\ Bare \in DOMAIN answers /\ metric # None /\ metric # {} /\ uptime # None /\ at > 0
      /\ \A q \in DOMAIN answers : q.on = "label" => q.of \in labelNames(Selector)
  BY <1>1, <1>2 DEF NothingAskedTwice, Answered, CheckTypeOK
<1>4. metric \in SUBSET Evaluations /\ uptime \in SUBSET Evaluations
  BY <1>1, <1>3 DEF CheckTypeOK
<1>5. \A p \in P : Report(p, answers)
  <2> SUFFICES ASSUME NEW p \in P PROVE Report(p, answers)
    OBVIOUS
  <2>1. IsSometimesThere(metric) /\ p = Problem("sometimes", Bare, "Warning")
    BY Zenon
  <2>2. p.selector = at /\ p.kind = "sometimes" /\ p.of = Bare
    BY <2>1, ProblemIs
  <2>3. IsFact("sometimes", metric)
    BY <1>4, <2>1, SometimesReports
  <2> QED
    BY <1>3, <2>2, <2>3 DEF Report
<1>6. CheckTypeOK' /\ FindingsAreFacts'
  <2>1. \A x \in DOMAIN answers : answers[x] \in (SUBSET Evaluations) \cup {None}
    BY <1>1 DEF CheckTypeOK
  <2> HIDE DEF P, metric
  <2> QED
    BY <1>1, <1>2, <1>3, <1>5, <2>1, ReportsStay
<1> HIDE DEF P
<1>7. NothingAskedTwice'
  <2>1. labelNames(Selector)' = labelNames(Selector)
    BY <1>2, SelectorStays
  <2> QED
    BY <1>2, <1>3, <2>1 DEF NothingAskedTwice
<1>8. DeadSoFar'
  BY <1>2 DEF DeadSoFar
<1>9. DeadSelectorsAreReported'
  <2> SUFFICES ASSUME IsDead(Selector)', problems' = {} PROVE FALSE
    BY DEF DeadSelectorsAreReported
  <2>1. problems = {}
    BY <1>2
  <2>2. \A i \in ValuesToAsk(Selector) : IsAlive(i)
    BY <1>1, <1>2, <2>1 DEF DeadSoFar
  <2>3. IsDead(Selector)
    BY <1>2 DEF IsDead, IsIgnored, NeverThere, Answered, Selector, Scopes, stripLabels,
                AnySelector
  <2>4. ~NeverThere(Bare)
    BY <1>3 DEF NeverThere
  <2>5. PICK i \in DOMAIN Selector.matchers :
           /\ Selector.matchers[i].positive
           /\ ~IsIgnored(Selector, Selector.matchers[i].label)
           /\ NeverThere(Label(i)) \/ NeverThere(Value(i))
    BY <2>3, <2>4, Zenon DEF IsDead
  <2>6. i \in ValuesToAsk(Selector)
    BY <2>5 DEF ValuesToAsk, Positive, IsIgnored, isLabelValueIgnored
  <2>7. IsAlive(i)
    BY <2>2, <2>6
  <2> QED
    BY <2>5, <2>7, Zenon DEF IsAlive
<1> QED
  BY <1>6, <1>7, <1>8, <1>9 DEF CheckInv

LEMMA NothingKeeps ==
    ASSUME CheckInv, UNCHANGED checkVars
    PROVE  CheckInv'
<1>1. /\ rule' = rule /\ at' = at /\ todo' = todo /\ uptime' = uptime
      /\ answers' = answers /\ problems' = problems /\ stage' = stage
  BY DEF checkVars
<1>2. CheckTypeOK' /\ NothingAskedTwice' /\ DeadSoFar'
  <2>1. CheckTypeOK /\ NothingAskedTwice /\ DeadSoFar
    BY PartsOfInv
  <2>2. CheckTypeOK'
    BY <1>1, <2>1 DEF CheckTypeOK
  <2>3. NothingAskedTwice'
    BY <1>1, <2>1, SelectorStays DEF NothingAskedTwice, Answered
  <2>4. DeadSoFar'
    BY <1>1, <2>1, SelectorStays DEF DeadSoFar, IsAlive, NeverThere, Answered
  <2> QED
    BY <2>2, <2>3, <2>4
<1>3. FindingsAreFacts'
  <2>1. FindingsAreFacts
    BY PartsOfInv
  <2> QED
    BY <1>1, <2>1, MinAgeStays DEF FindingsAreFacts, Answered, IsFact
<1>4. DeadSelectorsAreReported'
  <2>1. DeadSelectorsAreReported
    BY PartsOfInv
  <2>2. IsDead(Selector)' <=> IsDead(Selector)
    BY <1>1 DEF IsDead, IsIgnored, NeverThere, Answered, Selector, Scopes, stripLabels,
                AnySelector
  <2>3. WentAwayJustNow(answers[Bare])' <=> WentAwayJustNow(answers[Bare])
    BY <1>1, JustNowStays
  <2> QED
    BY <1>1, <2>1, <2>2, <2>3 DEF DeadSelectorsAreReported
<1> QED
  BY <1>2, <1>3, <1>4 DEF CheckInv

(* Whatever Prometheus answers, and whichever queries fail, CheckInv holds *)
(* of the check of any rule: no query is made twice for a selector, and    *)
(* every value that was asked for has left a problem or has samples.       *)
THEOREM CheckKeepsItsWord == CheckSpec => []CheckInv
<1>1. CheckInit => CheckInv
  BY CheckBegins
<1>2. CheckInv /\ [CheckNext]_checkVars => CheckInv'
  <2> SUFFICES ASSUME CheckInv, [CheckNext]_checkVars PROVE CheckInv'
    OBVIOUS
  <2>1. CASE NextSelector
    BY <2>1, NextSelectorKeeps
  <2>2. CASE AskInstant
    BY <2>2, AskInstantKeeps
  <2>3. CASE AskUptime
    BY <2>3, AskUptimeKeeps
  <2>4. CASE AskBare
    BY <2>4, AskBareKeeps
  <2>5. CASE AskLabel
    BY <2>5, AskLabelKeeps
  <2>6. CASE LabelsDone
    BY <2>6, LabelsDoneKeeps
  <2>7. CASE AskValue
    BY <2>7, AskValueKeeps
  <2>8. CASE ValuesDone
    BY <2>8, ValuesDoneKeeps
  <2>9. CASE UNCHANGED checkVars
    BY <2>9, NothingKeeps
  <2>10. CASE CheckOver
    BY <2>10, NothingKeeps DEF CheckOver
  <2> QED
    BY <2>1, <2>2, <2>3, <2>4, <2>5, <2>6, <2>7, <2>8, <2>9, <2>10, Zenon DEF CheckNext
<1> QED
  BY <1>1, <1>2, PTL DEF CheckSpec

(* promql/series never reports what the samples do not say: a series that  *)
(* was never there has no sample, a label that is never there has none in  *)
(* two evaluations in a row, what is gone has none since its min-age, and  *)
(* what comes and goes was missing while the server was up.                *)
THEOREM FindingsAreTrue == CheckSpec => []FindingsAreFacts
<1>1. CheckInv => FindingsAreFacts
  BY PartsOfInv
<1> QED
  BY <1>1, CheckKeepsItsWord, PTL

(* Nor does it leave a selector without a problem that has a metric, a     *)
(* label or a value that was never there, unless a comment ignores it or   *)
(* the metric went away less than its min-age ago.                         *)
THEOREM DeadIsReported == CheckSpec => []DeadSelectorsAreReported
<1>1. CheckInv => DeadSelectorsAreReported
  BY PartsOfInv
<1> QED
  BY <1>1, CheckKeepsItsWord, PTL
=============================================================================
