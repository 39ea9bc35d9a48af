------------------------- MODULE ScanPipelineProofs -------------------------
(***************************************************************************)
(* Proofs about ScanPipeline for any list of entries, any checks and any   *)
(* number of workers: a scan that is not cancelled reports every problem   *)
(* once, and nobody sends on a channel that is closed.                     *)
(*                                                                         *)
(* What the producer pushes is a recursive function of the entries, so the *)
(* first part proves by induction that Jobs has a job for every check.     *)
(***************************************************************************)
EXTENDS ScanPipeline, FiniteSetTheorems, WellFoundedInduction, TLAPS

(* Of the intervals 0..x that end in a set of naturals one is least.       *)
LEMMA LeastExists ==
    ASSUME NEW S, S \subseteq Nat, S # {}
    PROVE  \E x \in S : \A y \in S : x <= y
<1> DEFINE T == {0..x : x \in S}
<1>1. T \subseteq FiniteSubsetsOf(Nat)
  <2> SUFFICES ASSUME NEW x \in S PROVE 0..x \in FiniteSubsetsOf(Nat)
    OBVIOUS
  <2>1. x \in Nat
    OBVIOUS
  <2>2. 0..x \subseteq Nat /\ IsFiniteSet(0..x)
    BY <2>1, FS_Interval
  <2> QED
    BY <2>2 DEF FiniteSubsetsOf
<1>2. PICK t \in T : \A u \in T : ~(<<u, t>> \in StrictSubsetOrdering(Nat))
  <2>1. T # {}
    OBVIOUS
  <2> HIDE DEF T
  <2> QED
    BY <1>1, <2>1, WFMin, FS_StrictSubsetOrderingWellFounded
<1>3. PICK x \in S : t = 0..x
  OBVIOUS
<1>4. ASSUME NEW y \in S, y < x PROVE FALSE
  <2>1. x \in Nat /\ y \in Nat
    OBVIOUS
  <2>2. 0..y \subseteq 0..x /\ 0..x \subseteq Nat /\ x \in 0..x /\ x \notin 0..y
    BY <1>4, <2>1
  <2>3. <<0..y, 0..x>> \in StrictSubsetOrdering(Nat)
    BY <2>2 DEF StrictSubsetOrdering
  <2>4. 0..y \in T
    OBVIOUS
  <2> HIDE DEF T
  <2> QED
    BY <1>2, <1>3, <2>3, <2>4
<1>5. \A y \in S : x <= y
  <2>1. \A z \in S : z \in Nat
    OBVIOUS
  <2> QED
    BY <1>4, <2>1
<1> QED
  BY <1>5

(* Induction, for a set: it has no least natural outside it.               *)
LEMMA SetInduction ==
    ASSUME NEW S, 0 \in S, \A n \in Nat : n \in S => n + 1 \in S
    PROVE  Nat \subseteq S
<1> DEFINE U == Nat \ S
<1> SUFFICES ASSUME U # {} PROVE FALSE
  OBVIOUS
<1>1. PICK k \in U : \A y \in U : k <= y
  <2>1. U \subseteq Nat
    OBVIOUS
  <2> HIDE DEF U
  <2> QED
    BY <2>1, LeastExists
<1>2. k # 0 /\ k \in Nat
  OBVIOUS
<1>3. k - 1 \in Nat /\ ~(k <= k - 1) /\ (k - 1) + 1 = k
  BY <1>2
<1>4. k - 1 \in S
  BY <1>1, <1>3
<1> QED
  BY <1>3, <1>4

USE ScanAssumption

(* The recursive function exists: it is built one entry at a time.         *)
LEMMA JobsUpToDef ==
    JobsUpTo = [n \in 0..Len(Entries) |->
                  IF n = 0 THEN <<>> ELSE JobsUpTo[n - 1] \o JobsOf(n)]
<1> DEFINE IsPrefix(g, m) == g = [n \in 0..m |->
                                IF n = 0 THEN <<>> ELSE g[n - 1] \o JobsOf(n)]
           S == {m \in Nat : \E g : IsPrefix(g, m)}
<1>1. 0 \in S
  <2>1. IsPrefix([n \in 0..0 |-> <<>>], 0)
    OBVIOUS
  <2> QED
    BY <2>1
<1>2. ASSUME NEW m \in Nat, m \in S PROVE m + 1 \in S
  <2>1. PICK g : IsPrefix(g, m)
    BY <1>2
  <2> DEFINE h == [n \in 0..(m + 1) |->
                     IF n = m + 1 THEN g[m] \o JobsOf(m + 1) ELSE g[n]]
  <2>2. IsPrefix(h, m + 1)
    <3>1. \A n \in 0..m : g[n] = IF n = 0 THEN <<>> ELSE g[n - 1] \o JobsOf(n)
      BY <2>1
    <3>2. ASSUME NEW n \in 0..(m + 1)
          PROVE  h[n] = IF n = 0 THEN <<>> ELSE h[n - 1] \o JobsOf(n)
      <4>1. CASE n = m + 1
        BY <4>1
      <4>2. CASE n # m + 1
        BY <3>1, <4>2
      <4> QED
        BY <4>1, <4>2
    <3> QED
      BY <3>2
  <2> HIDE DEF h, IsPrefix
  <2> QED
    BY <2>2
<1>3. \E g : IsPrefix(g, Len(Entries))
  <2>1. Nat \subseteq S
    <3> HIDE DEF S
    <3> QED
      BY <1>1, <1>2, SetInduction
  <2>2. Len(Entries) \in Nat
    OBVIOUS
  <2>3. Len(Entries) \in S
    <3> HIDE DEF S
    <3> QED
      BY <2>1, <2>2
  <2> QED
    BY <2>3
<1>4. JobsUpTo = CHOOSE g : IsPrefix(g, Len(Entries))
  BY DEF JobsUpTo
<1> HIDE DEF IsPrefix
<1>5. IsPrefix(JobsUpTo, Len(Entries))
  BY <1>3, <1>4
<1> QED
  BY <1>5 DEF IsPrefix

JobType == [entry : DOMAIN Entries, check : Checks \cup {NoCheck}]

(* A job is one of its entry's checks, or reports why it has none.         *)
Proper(j) ==
    /\ j \in JobType
    /\ Entries[j.entry].error = "none" => j.check \in Elements(Entries[j.entry].checks)
    /\ Entries[j.entry].error # "none" => j.check = NoCheck

(* The sequence q has all the jobs of entry n.                             *)
Covers(q, n) ==
    /\ Entries[n].error = "none" =>
         \A k \in Elements(Entries[n].checks) : [entry |-> n, check |-> k] \in Elements(q)
    /\ Entries[n].error # "none" => [entry |-> n, check |-> NoCheck] \in Elements(q)

LEMMA ElementsOfConcat ==
    ASSUME NEW T, NEW s \in Seq(T), NEW t \in Seq(T)
    PROVE  s \o t \in Seq(T) /\ Elements(s \o t) = Elements(s) \cup Elements(t)
<1>1. /\ s \o t \in Seq(T) /\ Len(s \o t) = Len(s) + Len(t)
      /\ Len(s) \in Nat /\ Len(t) \in Nat
      /\ \A i \in 1..Len(s) : (s \o t)[i] = s[i]
      /\ \A i \in 1..Len(t) : (s \o t)[Len(s) + i] = t[i]
  OBVIOUS
<1>2. /\ DOMAIN (s \o t) = 1..(Len(s) + Len(t))
      /\ DOMAIN s = 1..Len(s) /\ DOMAIN t = 1..Len(t)
  BY <1>1
<1>3. ASSUME NEW x \in Elements(s \o t) PROVE x \in Elements(s) \cup Elements(t)
  <2>1. PICK i \in 1..(Len(s) + Len(t)) : x = (s \o t)[i]
    BY <1>2 DEF Elements
  <2>2. CASE i <= Len(s)
    BY <1>1, <1>2, <2>1, <2>2 DEF Elements
  <2>3. CASE i > Len(s)
    <3>1. i - Len(s) \in 1..Len(t) /\ Len(s) + (i - Len(s)) = i
      BY <1>1, <2>3
    <3>2. x = t[i - Len(s)]
      BY <1>1, <2>1, <3>1
    <3> QED
      BY <1>2, <3>1, <3>2 DEF Elements
  <2> QED
    BY <1>1, <2>2, <2>3
<1>4. ASSUME NEW x \in Elements(s) PROVE x \in Elements(s \o t)
  <2>1. PICK i \in 1..Len(s) : x = s[i]
    BY <1>2 DEF Elements
  <2>2. i \in 1..(Len(s) + Len(t)) /\ x = (s \o t)[i]
    BY <1>1, <2>1
  <2> QED
    BY <1>2, <2>2 DEF Elements
<1>5. ASSUME NEW x \in Elements(t) PROVE x \in Elements(s \o t)
  <2>1. PICK i \in 1..Len(t) : x = t[i]
    BY <1>2 DEF Elements
  <2>2. Len(s) + i \in 1..(Len(s) + Len(t)) /\ x = (s \o t)[Len(s) + i]
    BY <1>1, <2>1
  <2> QED
    BY <1>2, <2>2 DEF Elements
<1> QED
  BY <1>1, <1>3, <1>4, <1>5

LEMMA JobsOfEntry ==
    ASSUME NEW n \in DOMAIN Entries
    PROVE  /\ JobsOf(n) \in Seq(JobType) /\ Covers(JobsOf(n), n)
           /\ \A j \in Elements(JobsOf(n)) : Proper(j)
<1> DEFINE e == Entries[n]
<1>1. e \in EntryType
  OBVIOUS
<1>2. CASE e.error = "none"
  <2>1. e.checks \in Seq(Checks)
    BY <1>1 DEF EntryType
  <2>2. JobsOf(n) = [i \in 1..Len(e.checks) |-> [entry |-> n, check |-> e.checks[i]]]
    BY <1>2, <2>1 DEF JobsOf
  <2>3. \A i \in 1..Len(e.checks) : [entry |-> n, check |-> e.checks[i]] \in JobType
    BY <2>1 DEF JobType
  <2>4. JobsOf(n) \in Seq(JobType) /\ DOMAIN JobsOf(n) = DOMAIN e.checks
    BY <2>1, <2>2, <2>3
  <2>5. \A j \in Elements(JobsOf(n)) : \E i \in DOMAIN e.checks :
           j = [entry |-> n, check |-> e.checks[i]]
    BY <2>1, <2>2, <2>4 DEF Elements
  <2>6. \A j \in Elements(JobsOf(n)) : Proper(j)
    <3> SUFFICES ASSUME NEW i \in DOMAIN e.checks
                 PROVE  Proper([entry |-> n, check |-> e.checks[i]])
      BY <2>5
    <3> QED
      BY <1>2, <2>1, <2>3 DEF Proper, Elements
  <2>7. \A k \in Elements(e.checks) : [entry |-> n, check |-> k] \in Elements(JobsOf(n))
    <3> SUFFICES ASSUME NEW i \in DOMAIN e.checks
                 PROVE  [entry |-> n, check |-> e.checks[i]] \in Elements(JobsOf(n))
      BY DEF Elements
    <3>1. JobsOf(n)[i] = [entry |-> n, check |-> e.checks[i]] /\ i \in DOMAIN JobsOf(n)
      BY <2>1, <2>2, <2>4
    <3> QED
      BY <3>1 DEF Elements
  <2> QED
    BY <1>2, <2>4, <2>6, <2>7 DEF Covers
<1>3. CASE e.error # "none"
  <2> DEFINE j == [entry |-> n, check |-> NoCheck]
  <2>1. JobsOf(n) = <<j>> /\ j \in JobType
    BY <1>3 DEF JobsOf, JobType
  <2>2. JobsOf(n) \in Seq(JobType) /\ Elements(JobsOf(n)) = {j}
    BY <2>1 DEF Elements
  <2>3. Proper(j)
    BY <1>3, <2>1 DEF Proper
  <2> QED
    BY <1>3, <2>2, <2>3 DEF Covers
<1> QED
  BY <1>2, <1>3

(* By induction: the jobs of the first m entries are theirs, all of them.  *)
LEMMA JobsOfPrefix ==
    ASSUME NEW m \in 0..Len(Entries)
    PROVE  /\ JobsUpTo[m] \in Seq(JobType)
           /\ \A j \in Elements(JobsUpTo[m]) : Proper(j)
           /\ \A n \in 1..m : Covers(JobsUpTo[m], n)
<1> DEFINE Good(k) == /\ JobsUpTo[k] \in Seq(JobType)
                      /\ \A j \in Elements(JobsUpTo[k]) : Proper(j)
                      /\ \A n \in 1..k : Covers(JobsUpTo[k], n)
           S == {k \in Nat : k <= Len(Entries) => Good(k)}
<1>0. Len(Entries) \in Nat /\ DOMAIN Entries = 1..Len(Entries)
  OBVIOUS
<1>1. 0 \in S
  <2>1. JobsUpTo[0] = <<>>
    BY <1>0, JobsUpToDef
  <2>2. Elements(<<>>) = {}
    BY DEF Elements
  <2>3. Good(0)
    BY <2>1, <2>2
  <2> HIDE DEF Good
  <2> QED
    BY <2>3
<1>2. ASSUME NEW k \in Nat, k \in S PROVE k + 1 \in S
  <2>1. SUFFICES ASSUME k + 1 <= Len(Entries) PROVE Good(k + 1)
    OBVIOUS
  <2>2. Good(k)
    <3> HIDE DEF Good
    <3> QED
      BY <1>0, <1>2, <2>1
  <2>3. JobsUpTo[k + 1] = JobsUpTo[k] \o JobsOf(k + 1)
    <3>1. k + 1 \in 0..Len(Entries) /\ k + 1 # 0 /\ (k + 1) - 1 = k
      BY <1>0, <2>1
    <3> QED
      BY <3>1, JobsUpToDef
  <2>4. k + 1 \in DOMAIN Entries
    BY <1>0, <2>1
  <2>5. /\ JobsUpTo[k + 1] \in Seq(JobType)
        /\ Elements(JobsUpTo[k + 1]) = Elements(JobsUpTo[k]) \cup Elements(JobsOf(k + 1))
    BY <2>2, <2>3, <2>4, JobsOfEntry, ElementsOfConcat
  <2>6. \A j \in Elements(JobsUpTo[k + 1]) : Proper(j)
    BY <2>2, <2>4, <2>5, JobsOfEntry
  <2>7. ASSUME NEW n \in 1..(k + 1) PROVE Covers(JobsUpTo[k + 1], n)
    <3>1. CASE n = k + 1
      <4>1. Covers(JobsOf(n), n)
        BY <2>4, <3>1, JobsOfEntry
      <4> QED
        BY <2>5, <3>1, <4>1 DEF Covers
    <3>2. CASE n # k + 1
      <4>1. Covers(JobsUpTo[k], n)
        BY <2>2, <3>2
      <4> QED
        BY <2>5, <4>1 DEF Covers
    <3> QED
      BY <3>1, <3>2
  <2> QED
    BY <2>5, <2>6, <2>7
<1>3. Nat \subseteq S
  <2> HIDE DEF S
  <2> QED
    BY <1>1, <1>2, SetInduction
<1>4. Good(m)
  <2> HIDE DEF Good
  <2> QED
    BY <1>0, <1>3
<1> QED
  BY <1>4

(* A report of a job is a sequence of problems, and together the jobs      *)
(* report what is expected of the entries.                                 *)
LEMMA JobsAreTyped ==
    /\ Jobs \in Seq(JobType) /\ Len(Jobs) \in Nat /\ DOMAIN Jobs = 1..Len(Jobs)
    /\ \A j \in 1..Len(Jobs) : Jobs[j] \in JobType /\ Proper(Jobs[j])
    /\ \A n \in DOMAIN Entries : Covers(Jobs, n)
<1>1. Len(Entries) \in 0..Len(Entries) /\ DOMAIN Entries = 1..Len(Entries)
  OBVIOUS
<1>2. /\ Jobs \in Seq(JobType)
      /\ \A j \in Elements(Jobs) : Proper(j)
      /\ \A n \in DOMAIN Entries : Covers(Jobs, n)
  BY <1>1, JobsOfPrefix DEF Jobs
<1>3. Len(Jobs) \in Nat /\ DOMAIN Jobs = 1..Len(Jobs)
  BY <1>2
<1> QED
  BY <1>2, <1>3 DEF Elements

LEMMA ReportsAreTyped ==
    ASSUME NEW j \in 1..Len(Jobs)
    PROVE  ReportsOf(j) \in Seq(Problems)
<1> DEFINE n == Jobs[j].entry
<1>1. n \in DOMAIN Entries /\ Entries[n] \in EntryType /\ Proper(Jobs[j])
  BY JobsAreTyped DEF JobType
<1>2. CASE Entries[n].removed
  BY <1>2 DEF ReportsOf
<1>3. CASE ~Entries[n].removed /\ Entries[n].error # "none"
  <2>1. Broken[n] \in Problems
    BY <1>1
  <2> QED
    BY <1>3, <2>1 DEF ReportsOf
<1>4. CASE ~Entries[n].removed /\ Entries[n].error = "none"
  <2>1. Jobs[j].check \in Checks
    BY <1>1, <1>4 DEF Proper, Elements, EntryType
  <2>2. Finds[n][Jobs[j].check] \in Seq(Problems)
    BY <1>1, <2>1
  <2> QED
    BY <1>4, <2>2 DEF ReportsOf
<1> QED
  BY <1>2, <1>3, <1>4

LEMMA InterruptedAreTyped ==
    ASSUME NEW j \in 1..Len(Jobs), NEW s \in InterruptedReportsOf(j)
    PROVE  s \in Seq(Problems)
<1> DEFINE n == Jobs[j].entry
           k == Jobs[j].check
<1>1. n \in DOMAIN Entries
  BY JobsAreTyped DEF JobType
<1>2. k \in OnlineChecks /\ s \in CutShort[n][k]
  BY DEF InterruptedReportsOf
<1>3. CutShort[n][k] \in SUBSET Seq(Problems)
  BY <1>1, <1>2, CutShortAssumption
<1> QED
  BY <1>2, <1>3

(* What one entry is expected to report.                                   *)
ExpectedOf(n) ==
    LET e == Entries[n] IN
    IF e.removed THEN {}
    ELSE IF e.error # "none" THEN {Broken[n]}
    ELSE UNION {Elements(Finds[n][k]) : k \in Elements(e.checks)}

LEMMA ExpectedIsReported ==
    Expected = UNION {Elements(ReportsOf(j)) : j \in 1..Len(Jobs)}
<1>0. Expected = UNION {ExpectedOf(n) : n \in DOMAIN Entries}
  BY DEF Expected, ExpectedOf
<1>s. \A x : Elements(<<x>>) = {x}
  BY DEF Elements
<1>e. Elements(<<>>) = {}
  BY DEF Elements
<1>1. ASSUME NEW j \in 1..Len(Jobs)
      PROVE  Elements(ReportsOf(j)) \subseteq ExpectedOf(Jobs[j].entry)
  <2> DEFINE n == Jobs[j].entry
  <2>1. Proper(Jobs[j])
    BY JobsAreTyped
  <2>2. CASE Entries[n].removed
    BY <1>e, <2>2 DEF ReportsOf
  <2>3. CASE ~Entries[n].removed /\ Entries[n].error # "none"
    BY <1>s, <2>3 DEF ReportsOf, ExpectedOf
  <2>4. CASE ~Entries[n].removed /\ Entries[n].error = "none"
    <3>1. Jobs[j].check \in Elements(Entries[n].checks)
      BY <2>1, <2>4 DEF Proper
    <3>2. ReportsOf(j) = Finds[n][Jobs[j].check]
      BY <2>4 DEF ReportsOf
    <3>3. ExpectedOf(n) = UNION {Elements(Finds[n][k]) : k \in Elements(Entries[n].checks)}
      BY <2>4 DEF ExpectedOf
    <3> QED
      BY <3>1, <3>2, <3>3
  <2> QED
    BY <2>2, <2>3, <2>4
<1>2. ASSUME NEW n \in DOMAIN Entries, NEW x \in ExpectedOf(n)
      PROVE  \E j \in 1..Len(Jobs) : x \in Elements(ReportsOf(j))
  <2>1. Covers(Jobs, n) /\ DOMAIN Jobs = 1..Len(Jobs)
    BY JobsAreTyped
  <2>2. ~Entries[n].removed
    BY DEF ExpectedOf
  <2>3. CASE Entries[n].error # "none"
    <3>1. [entry |-> n, check |-> NoCheck] \in Elements(Jobs)
      BY <2>1, <2>3 DEF Covers
    <3>2. PICK j \in 1..Len(Jobs) : Jobs[j] = [entry |-> n, check |-> NoCheck]
      BY <2>1, <3>1 DEF Elements
    <3>3. ReportsOf(j) = <<Broken[n]>>
      BY <2>2, <2>3, <3>2 DEF ReportsOf
    <3>4. x = Broken[n]
      BY <2>2, <2>3 DEF ExpectedOf
    <3> QED
      BY <1>s, <3>3, <3>4
  <2>4. CASE Entries[n].error = "none"
    <3>1. PICK k \in Elements(Entries[n].checks) : x \in Elements(Finds[n][k])
      BY <2>2, <2>4 DEF ExpectedOf
    <3>2. [entry |-> n, check |-> k] \in Elements(Jobs)
      BY <2>1, <2>4 DEF Covers
    <3>3. PICK j \in 1..Len(Jobs) : Jobs[j] = [entry |-> n, check |-> k]
      BY <2>1, <3>2 DEF Elements
    <3>4. ReportsOf(j) = Finds[n][k]
      BY <2>2, <2>4, <3>3 DEF ReportsOf
    <3> QED
      BY <3>1, <3>4
  <2> QED
    BY <2>3, <2>4
<1>3. \A j \in 1..Len(Jobs) : Jobs[j].entry \in DOMAIN Entries
  BY JobsAreTyped DEF JobType
<1>4. ASSUME NEW x \in Expected
      PROVE  x \in UNION {Elements(ReportsOf(j)) : j \in 1..Len(Jobs)}
  <2>1. PICK n \in DOMAIN Entries : x \in ExpectedOf(n)
    BY <1>0
  <2> QED
    BY <1>2, <2>1
<1>5. ASSUME NEW j \in 1..Len(Jobs), NEW x \in Elements(ReportsOf(j))
      PROVE  x \in Expected
  BY <1>0, <1>1, <1>3
<1> QED
  BY <1>4, <1>5
----------------------------------------------------------------------------
(* The scan: each step keeps ScanInv.                                      *)

USE DEF producerVars, workerVars, mainVars, ctxVars

LEMMA ElementsOfAppend ==
    ASSUME NEW T, NEW s \in Seq(T), NEW x \in T
    PROVE  /\ Append(s, x) \in Seq(T) /\ Len(Append(s, x)) = Len(s) + 1
           /\ Elements(Append(s, x)) = Elements(s) \cup {x}
<1>1. /\ Len(s) \in Nat /\ DOMAIN s = 1..Len(s)
      /\ DOMAIN Append(s, x) = 1..(Len(s) + 1) /\ Append(s, x)[Len(s) + 1] = x
      /\ \A i \in 1..Len(s) : Append(s, x)[i] = s[i]
      /\ Append(s, x) \in Seq(T) /\ Len(Append(s, x)) = Len(s) + 1
  OBVIOUS
<1>2. ASSUME NEW i \in 1..(Len(s) + 1) PROVE Append(s, x)[i] \in Elements(s) \cup {x}
  <2>1. CASE i = Len(s) + 1
    BY <1>1, <2>1
  <2>2. CASE i # Len(s) + 1
    <3>1. i \in 1..Len(s)
      BY <1>1, <2>2
    <3> QED
      BY <1>1, <3>1 DEF Elements
  <2> QED
    BY <2>1, <2>2
<1>3. ASSUME NEW y \in Elements(s) PROVE y \in Elements(Append(s, x))
  <2>1. PICK i \in 1..Len(s) : y = s[i]
    BY <1>1 DEF Elements
  <2>2. i \in 1..(Len(s) + 1) /\ y = Append(s, x)[i]
    BY <1>1, <2>1
  <2> QED
    BY <1>1, <2>2 DEF Elements
<1>4. x \in Elements(Append(s, x))
  <2>1. Len(s) + 1 \in 1..(Len(s) + 1)
    BY <1>1
  <2> QED
    BY <1>1, <2>1 DEF Elements
<1>5. Elements(Append(s, x)) \subseteq Elements(s) \cup {x}
  BY <1>1, <1>2 DEF Elements
<1> QED
  BY <1>1, <1>3, <1>4, <1>5

LEMMA ElementsOfTail ==
    ASSUME NEW T, NEW s \in Seq(T), s # <<>>
    PROVE  /\ Head(s) \in T /\ Tail(s) \in Seq(T) /\ Len(Tail(s)) = Len(s) - 1
           /\ Elements(s) = {Head(s)} \cup Elements(Tail(s))
<1>1. /\ Len(s) \in Nat \ {0} /\ DOMAIN s = 1..Len(s) /\ Head(s) = s[1]
      /\ DOMAIN Tail(s) = 1..(Len(s) - 1)
      /\ \A i \in 1..(Len(s) - 1) : Tail(s)[i] = s[i + 1]
      /\ Head(s) \in T /\ Tail(s) \in Seq(T) /\ Len(Tail(s)) = Len(s) - 1
  OBVIOUS
<1>2. ASSUME NEW i \in 1..Len(s) PROVE s[i] \in {Head(s)} \cup Elements(Tail(s))
  <2>1. CASE i = 1
    BY <1>1, <2>1
  <2>2. CASE i # 1
    <3>1. i - 1 \in 1..(Len(s) - 1) /\ (i - 1) + 1 = i
      BY <1>1, <2>2
    <3>2. Tail(s)[i - 1] = s[i]
      BY <1>1, <3>1
    <3> QED
      BY <1>1, <3>1, <3>2 DEF Elements
  <2> QED
    BY <2>1, <2>2
<1>3. ASSUME NEW y \in Elements(Tail(s)) PROVE y \in Elements(s)
  <2>1. PICK i \in 1..(Len(s) - 1) : y = Tail(s)[i]
    BY <1>1 DEF Elements
  <2>2. i + 1 \in 1..Len(s) /\ y = s[i + 1]
    BY <1>1, <2>1
  <2> QED
    BY <1>1, <2>2 DEF Elements
<1>4. Head(s) \in Elements(s)
  BY <1>1 DEF Elements
<1> QED
  BY <1>1, <1>2, <1>3, <1>4 DEF Elements

LEMMA EmptyHasNone == Elements(<<>>) = {}
  BY DEF Elements

LEMMA InitInv == Init => ScanInv
<1> SUFFICES ASSUME Init PROVE ScanInv
  OBVIOUS
<1>1. TypeOK
  <2>1. Len(Jobs) \in Nat
    BY JobsAreTyped
  <2>2. /\ worker \in [Workers -> {"idle", "checking", "sending", "exited"}]
        /\ task \in [Workers -> 0..Len(Jobs)]
        /\ toSend \in [Workers -> Seq(Problems)]
    BY <2>1 DEF Init
  <2>3. jobs \in Seq(1..Len(Jobs)) /\ results \in Seq(Problems) /\ summary \in Seq(Problems)
        /\ Len(jobs) <= ChanCap /\ Len(results) <= ChanCap
    BY DEF Init
  <2>4. next \in 1..(Len(Jobs) + 1) /\ total \in Nat /\ done \in Nat
        /\ online \in Nat /\ offline \in Nat
    BY <2>1 DEF Init
  <2>5. counted \in BOOLEAN /\ jobsClosed \in BOOLEAN /\ resultsClosed \in BOOLEAN
        /\ returned \in BOOLEAN /\ ctxDone \in BOOLEAN /\ underway \subseteq 1..Len(Jobs)
    BY DEF Init
  <2> QED
    BY <2>2, <2>3, <2>4, <2>5 DEF TypeOK
<1>2. ChannelsOrdered
  BY DEF Init, ChannelsOrdered, WorkersGone
<1>3. JobsConserved
  <2>1. Busy = {}
    BY DEF Init, Busy
  <2>2. Cardinality(Busy) = 0 /\ Len(jobs) = 0
    BY <2>1, FS_EmptySet DEF Init
  <2> QED
    BY <2>2 DEF Init, JobsConserved
<1>4. CountsExact
  <2>1. LastCounted = 0
    BY DEF Init, LastCounted
  <2>2. {j \in 1..LastCounted : Jobs[j].check # NoCheck} = {}
    BY <2>1
  <2>3. Cardinality({j \in 1..LastCounted : Jobs[j].check # NoCheck}) = 0
    BY <2>2, FS_EmptySet
  <2>4. total = 0 /\ online + offline = total
    BY DEF Init
  <2> QED
    BY <2>3, <2>4 DEF CountsExact
<1>5. ReportsHonest
  <2>1. Held = {}
    BY EmptyHasNone DEF Init, Held
  <2> QED
    BY <2>1 DEF Init, ReportsHonest
<1>6. ReportsKept /\ UnderwayKnown
  BY DEF Init, ReportsKept, UnderwayKnown
<1> QED
  BY <1>1, <1>2, <1>3, <1>4, <1>5, <1>6 DEF ScanInv

LEMMA TypePreserved == ScanInv /\ [Next]_vars => TypeOK'
<1> SUFFICES ASSUME ScanInv, [Next]_vars PROVE TypeOK'
  OBVIOUS
<1>t. TypeOK /\ ChannelsOrdered
  BY DEF ScanInv
<1>n. Len(Jobs) \in Nat
  BY JobsAreTyped
<1>1. CASE CountJob
  BY <1>1, <1>t DEF CountJob, TypeOK
<1>2. CASE PushJob
  <2>1. next \in 1..Len(Jobs)
    BY <1>2, <1>t, <1>n DEF PushJob, TypeOK
  <2>2. jobs' \in Seq(1..Len(Jobs)) /\ Len(jobs') <= ChanCap
    BY <1>2, <2>1, <1>t DEF PushJob, TypeOK
  <2>3. next' = next + 1 /\ counted' = FALSE
    BY <1>2 DEF PushJob
  <2>5. next' \in 1..(Len(Jobs) + 1)
    BY <2>1, <2>3, <1>n
  <2>4. UNCHANGED <<total, online, offline, jobsClosed, workerVars, results,
                    resultsClosed, mainVars, ctxVars>>
    BY <1>2 DEF PushJob
  <2> QED
    BY <2>2, <2>3, <2>4, <2>5, <1>t DEF TypeOK
<1>3. CASE CloseJobs
  BY <1>3, <1>t DEF CloseJobs, TypeOK
<1>4. ASSUME NEW w \in Workers, WorkerStep(w) PROVE TypeOK'
  <2>1. CASE TakeJob(w)
    <3>1. jobs' \in Seq(1..Len(Jobs)) /\ Len(jobs') <= ChanCap /\ Head(jobs) \in 1..Len(Jobs)
      BY <2>1, <1>t, ElementsOfTail DEF TakeJob, TypeOK
    <3>2. worker' \in [Workers -> {"idle", "checking", "sending", "exited"}]
      BY <2>1, <1>t DEF TakeJob, TypeOK
    <3>3. task' \in [Workers -> 0..Len(Jobs)]
      BY <2>1, <3>1, <1>t, <1>n DEF TakeJob, TypeOK
    <3>4. UNCHANGED <<producerVars, done, toSend, results, resultsClosed, mainVars, ctxVars>>
      BY <2>1 DEF TakeJob
    <3> QED
      BY <3>1, <3>2, <3>3, <3>4, <1>t DEF TypeOK
  <2>2. CASE DropJob(w)
    <3>1. jobs' \in Seq(1..Len(Jobs)) /\ Len(jobs') <= ChanCap
      BY <2>2, <1>t, ElementsOfTail DEF DropJob, TypeOK
    <3> QED
      BY <2>2, <3>1, <1>t DEF DropJob, TypeOK
  <2>3. CASE RunCheck(w)
    <3>1. task[w] \in 1..Len(Jobs)
      BY <2>3, <1>t DEF RunCheck, ChannelsOrdered
    <3>2. PICK r \in {ReportsOf(task[w])} \cup InterruptedReportsOf(task[w]) :
             toSend' = [toSend EXCEPT ![w] = r]
      BY <2>3 DEF RunCheck
    <3>3. r \in Seq(Problems)
      BY <3>1, ReportsAreTyped, InterruptedAreTyped
    <3>4. toSend' \in [Workers -> Seq(Problems)]
      BY <3>2, <3>3, <1>t DEF TypeOK
    <3>5. worker' \in [Workers -> {"idle", "checking", "sending", "exited"}]
      BY <2>3, <1>t DEF RunCheck, TypeOK
    <3>6. UNCHANGED <<producerVars, jobs, done, task, results, resultsClosed, mainVars, ctxVars>>
      BY <2>3 DEF RunCheck
    <3> QED
      BY <3>4, <3>5, <3>6, <1>t DEF TypeOK
  <2>4. CASE SendReport(w)
    <3>1. Head(toSend[w]) \in Problems /\ Tail(toSend[w]) \in Seq(Problems)
      BY <2>4, <1>t, ElementsOfTail DEF SendReport, TypeOK
    <3>2. results' \in Seq(Problems) /\ Len(results') <= ChanCap
      BY <2>4, <3>1, <1>t DEF SendReport, TypeOK
    <3>3. toSend' \in [Workers -> Seq(Problems)]
      BY <2>4, <3>1, <1>t DEF SendReport, TypeOK
    <3> QED
      BY <2>4, <3>2, <3>3, <1>t DEF SendReport, TypeOK
  <2>5. CASE FinishJob(w)
    <3>1. worker' \in [Workers -> {"idle", "checking", "sending", "exited"}]
          /\ task' \in [Workers -> 0..Len(Jobs)] /\ done' \in Nat
      BY <2>5, <1>t, <1>n DEF FinishJob, TypeOK
    <3>2. UNCHANGED <<producerVars, jobs, toSend, results, resultsClosed, mainVars, ctxVars>>
      BY <2>5 DEF FinishJob
    <3> QED
      BY <3>1, <3>2, <1>t DEF TypeOK
  <2>6. CASE ExitWorker(w)
    BY <2>6, <1>t DEF ExitWorker, TypeOK
  <2> QED
    BY <1>4, <2>1, <2>2, <2>3, <2>4, <2>5, <2>6 DEF WorkerStep
<1>5. CASE CollectReport
  <2>1. Head(results) \in Problems /\ Tail(results) \in Seq(Problems)
        /\ Len(Tail(results)) = Len(results) - 1
    BY <1>5, <1>t, ElementsOfTail DEF CollectReport, TypeOK
  <2>2. results' \in Seq(Problems) /\ Len(results') <= ChanCap
    BY <1>5, <2>1, <1>t DEF CollectReport, TypeOK
  <2>3. summary' \in Seq(Problems)
    BY <1>5, <2>1, <1>t DEF CollectReport, Added, TypeOK
  <2> QED
    BY <1>5, <2>2, <2>3, <1>t DEF CollectReport, TypeOK
<1>6. CASE CloseResults \/ Return
  BY <1>6, <1>t DEF CloseResults, Return, TypeOK
<1>8. CASE Cancel
  <2>1. underway' \subseteq 1..Len(Jobs)
    BY <1>8, <1>t DEF Cancel, ChannelsOrdered
  <2> QED
    BY <1>8, <2>1, <1>t DEF Cancel, TypeOK
<1>7. CASE Terminated \/ UNCHANGED vars
  BY <1>7, <1>t DEF Terminated, vars, TypeOK
<1> QED
  BY <1>1, <1>2, <1>3, <1>4, <1>5, <1>6, <1>7, <1>8 DEF Next, ProducerStep, MainStep

LEMMA ChannelsPreserved == ScanInv /\ [Next]_vars => ChannelsOrdered'
<1> SUFFICES ASSUME ScanInv, [Next]_vars PROVE ChannelsOrdered'
  OBVIOUS
<1>t. TypeOK /\ ChannelsOrdered
  BY DEF ScanInv
<1>n. Len(Jobs) \in Nat
  BY JobsAreTyped
<1>1. CASE CountJob
  BY <1>1, <1>t DEF CountJob, ChannelsOrdered, WorkersGone
<1>2. CASE PushJob
  <2>1. ~jobsClosed
    BY <1>2, <1>t, <1>n DEF PushJob, ChannelsOrdered, TypeOK
  <2>2. counted' = FALSE /\ jobsClosed' = jobsClosed
        /\ UNCHANGED <<worker, task, toSend, resultsClosed, returned, results>>
    BY <1>2 DEF PushJob
  <2> QED
    BY <2>1, <2>2, <1>t DEF ChannelsOrdered, WorkersGone
<1>3. CASE CloseJobs
  BY <1>3, <1>t DEF CloseJobs, ChannelsOrdered, WorkersGone
<1>4. ASSUME NEW w \in Workers, WorkerStep(w) PROVE ChannelsOrdered'
  <2>1. UNCHANGED <<next, counted, jobsClosed, resultsClosed, returned>>
        /\ worker[w] # "exited"
    BY <1>4 DEF WorkerStep, TakeJob, DropJob, RunCheck, SendReport, FinishJob, ExitWorker
  <2>2. ~resultsClosed /\ ~returned
    BY <2>1, <1>t DEF ChannelsOrdered, WorkersGone
  <2>3. \A v \in Workers :
          /\ worker'[v] = "checking" => task'[v] \in 1..Len(Jobs)
          /\ worker'[v] # "sending" => toSend'[v] = <<>>
    <3>1. CASE TakeJob(w)
      <4>1. Head(jobs) \in 1..Len(Jobs)
        BY <3>1, <1>t, ElementsOfTail DEF TakeJob, TypeOK
      <4> QED
        BY <3>1, <4>1, <1>t DEF TakeJob, TypeOK, ChannelsOrdered
    <3>2. CASE DropJob(w)
      BY <3>2, <1>t DEF DropJob, TypeOK, ChannelsOrdered
    <3>3. CASE RunCheck(w)
      BY <3>3, <1>t DEF RunCheck, TypeOK, ChannelsOrdered
    <3>4. CASE SendReport(w)
      BY <3>4, <1>t DEF SendReport, TypeOK, ChannelsOrdered
    <3>5. CASE FinishJob(w)
      BY <3>5, <1>t DEF FinishJob, TypeOK, ChannelsOrdered
    <3>6. CASE ExitWorker(w)
      BY <3>6, <1>t DEF ExitWorker, TypeOK, ChannelsOrdered
    <3> QED
      BY <1>4, <3>1, <3>2, <3>3, <3>4, <3>5, <3>6 DEF WorkerStep
  <2> QED
    BY <2>1, <2>2, <2>3, <1>t DEF ChannelsOrdered
<1>5. CASE CollectReport
  BY <1>5, <1>t DEF CollectReport, ChannelsOrdered, WorkersGone
<1>6. CASE CloseResults
  BY <1>6, <1>t DEF CloseResults, ChannelsOrdered, WorkersGone
<1>7. CASE Return \/ Cancel
  BY <1>7, <1>t DEF Return, Cancel, ChannelsOrdered, WorkersGone
<1>8. CASE Terminated \/ UNCHANGED vars
  BY <1>8, <1>t DEF Terminated, vars, ChannelsOrdered, WorkersGone
<1> QED
  BY <1>1, <1>2, <1>3, <1>4, <1>5, <1>6, <1>7, <1>8 DEF Next, ProducerStep, MainStep

(* Which workers have a job in hand changes by one at a time.              *)
LEMMA BusyIsFinite ==
    IsFiniteSet(Busy) /\ Cardinality(Busy) \in Nat
<1>1. Busy \subseteq Workers
  BY DEF Busy
<1> QED
  BY <1>1, FS_Subset, FS_CardinalityType

LEMMA BecomesBusy ==
    ASSUME TypeOK, NEW w \in Workers, worker[w] = "idle",
           worker' = [worker EXCEPT ![w] = "checking"]
    PROVE  Cardinality(Busy)' = Cardinality(Busy) + 1
<1>1. w \notin Busy
  BY DEF Busy
<1>2. Busy' = Busy \cup {w}
  BY DEF Busy, TypeOK
<1>3. Cardinality(Busy \cup {w}) = Cardinality(Busy) + 1
  BY <1>1, BusyIsFinite, FS_AddElement
<1> QED
  BY <1>2, <1>3

LEMMA NoLongerBusy ==
    ASSUME TypeOK, NEW w \in Workers, worker[w] = "sending",
           worker' = [worker EXCEPT ![w] = "idle"]
    PROVE  Cardinality(Busy)' = Cardinality(Busy) - 1
<1>1. w \in Busy
  BY DEF Busy
<1>2. Busy' = Busy \ {w}
  BY DEF Busy, TypeOK
<1>3. Cardinality(Busy \ {w}) = Cardinality(Busy) - 1
  BY <1>1, BusyIsFinite, FS_RemoveElement
<1> QED
  BY <1>2, <1>3

LEMMA JobsConservedKept == ScanInv /\ [Next]_vars => JobsConserved'
<1> SUFFICES ASSUME ScanInv, [Next]_vars, ~ctxDone'
             PROVE  /\ next' - 1 = done' + Len(jobs') + Cardinality(Busy)'
                    /\ \A w \in Workers : worker'[w] = "exited" => jobs' = <<>> /\ jobsClosed'
  BY DEF JobsConserved
<1>t. TypeOK /\ ChannelsOrdered /\ JobsConserved
  BY DEF ScanInv
<1>c. ~ctxDone
  <2>1. ctxDone => ctxDone'
    BY DEF Next, vars, ProducerStep, CountJob, PushJob, CloseJobs, WorkerStep, TakeJob,
       DropJob, RunCheck, SendReport, FinishJob, ExitWorker, CloseResults, MainStep,
       CollectReport, Return, Cancel, Terminated
  <2> QED
    BY <2>1
<1>j. /\ next - 1 = done + Len(jobs) + Cardinality(Busy)
      /\ \A w \in Workers : worker[w] = "exited" => jobs = <<>> /\ jobsClosed
  BY <1>c, <1>t DEF JobsConserved
<1>n. /\ Len(Jobs) \in Nat /\ next \in 1..(Len(Jobs) + 1) /\ done \in Nat
      /\ Len(jobs) \in Nat /\ Cardinality(Busy) \in Nat
  BY <1>t, JobsAreTyped, BusyIsFinite DEF TypeOK
<1>0. ASSUME UNCHANGED <<next, done, jobs, jobsClosed, worker>>
      PROVE  /\ next' - 1 = done' + Len(jobs') + Cardinality(Busy)'
             /\ \A w \in Workers : worker'[w] = "exited" => jobs' = <<>> /\ jobsClosed'
  BY <1>0, <1>j DEF Busy
<1>1. CASE CountJob \/ CollectReport \/ CloseResults \/ Return \/ Terminated \/ UNCHANGED vars
  BY <1>0, <1>1 DEF CountJob, CollectReport, CloseResults, Return, Terminated, vars
<1>2. CASE PushJob
  <2>1. /\ next' = next + 1 /\ UNCHANGED <<done, jobsClosed, worker>> /\ next <= Len(Jobs)
        /\ jobs' = Append(jobs, next)
    BY <1>2 DEF PushJob
  <2>2. Len(jobs') = Len(jobs) + 1
    BY <2>1, <1>t DEF TypeOK
  <2>3. Cardinality(Busy)' = Cardinality(Busy)
    BY <2>1 DEF Busy
  <2>4. ~jobsClosed
    BY <2>1, <1>t, <1>n DEF ChannelsOrdered
  <2>5. next' = next + 1 /\ done' = done
    BY <1>2 DEF PushJob
  <2>6. next' - 1 = done' + Len(jobs') + Cardinality(Busy)'
    <3>1. next - 1 = done + Len(jobs) + Cardinality(Busy)
      BY <1>j
    <3>2. next' - 1 = (next - 1) + 1
      BY <2>5, <1>n
    <3>3. (done + Len(jobs) + Cardinality(Busy)) + 1 = done + (Len(jobs) + 1) + Cardinality(Busy)
      BY <1>n
    <3> QED
      BY <2>2, <2>3, <2>5, <3>1, <3>2, <3>3
  <2>7. \A w \in Workers : worker'[w] # "exited"
    BY <2>1, <2>4, <1>j
  <2> QED
    BY <2>6, <2>7
<1>3. CASE CloseJobs
  <2>1. UNCHANGED <<next, done, jobs, worker>> /\ jobsClosed'
    BY <1>3 DEF CloseJobs
  <2>2. Busy' = Busy
    BY <2>1 DEF Busy
  <2> QED
    BY <2>1, <2>2, <1>j
<1>4. ASSUME NEW w \in Workers, WorkerStep(w)
      PROVE  /\ next' - 1 = done' + Len(jobs') + Cardinality(Busy)'
             /\ \A v \in Workers : worker'[v] = "exited" => jobs' = <<>> /\ jobsClosed'
  <2>1. CASE TakeJob(w)
    <3>1. /\ UNCHANGED <<next, done, jobsClosed>> /\ jobs # <<>> /\ jobs' = Tail(jobs)
          /\ worker[w] = "idle" /\ worker' = [worker EXCEPT ![w] = "checking"]
      BY <2>1 DEF TakeJob
    <3>2. Len(jobs') = Len(jobs) - 1
      BY <3>1, <1>t DEF TypeOK
    <3>3. Cardinality(Busy)' = Cardinality(Busy) + 1
      BY <3>1, <1>t, BecomesBusy
    <3>4. next' - 1 = done' + Len(jobs') + Cardinality(Busy)'
      BY <3>1, <3>2, <3>3, <1>j, <1>n
    <3>5. \A v \in Workers : worker'[v] # "exited"
      BY <3>1, <1>j, <1>t DEF TypeOK
    <3> QED
      BY <3>4, <3>5
  <2>2. CASE DropJob(w)
    BY <2>2, <1>c DEF DropJob
  <2>3. CASE RunCheck(w)
    <3>1. /\ UNCHANGED <<next, done, jobs, jobsClosed>>
          /\ worker[w] = "checking" /\ worker' = [worker EXCEPT ![w] = "sending"]
      BY <2>3 DEF RunCheck
    <3>2. Busy' = Busy
      BY <3>1, <1>t DEF Busy, TypeOK
    <3>3. \A v \in Workers : worker'[v] = "exited" => worker[v] = "exited"
      BY <3>1, <1>t DEF TypeOK
    <3> QED
      BY <3>1, <3>2, <3>3, <1>j
  <2>4. CASE SendReport(w)
    BY <2>4, <1>0 DEF SendReport
  <2>5. CASE FinishJob(w)
    <3>1. /\ UNCHANGED <<next, jobs, jobsClosed>> /\ done' = done + 1
          /\ worker[w] = "sending" /\ worker' = [worker EXCEPT ![w] = "idle"]
      BY <2>5 DEF FinishJob
    <3>2. Cardinality(Busy)' = Cardinality(Busy) - 1
      BY <3>1, <1>t, NoLongerBusy
    <3>3. next' - 1 = done' + Len(jobs') + Cardinality(Busy)'
      BY <3>1, <3>2, <1>j, <1>n
    <3>4. \A v \in Workers : worker'[v] = "exited" => worker[v] = "exited"
      BY <3>1, <1>t DEF TypeOK
    <3> QED
      BY <3>1, <3>3, <3>4, <1>j
  <2>6. CASE ExitWorker(w)
    <3>1. /\ UNCHANGED <<next, done, jobs, jobsClosed>> /\ jobs = <<>> /\ jobsClosed
          /\ worker[w] = "idle" /\ worker' = [worker EXCEPT ![w] = "exited"]
      BY <2>6 DEF ExitWorker
    <3>2. Busy' = Busy
      BY <3>1, <1>t DEF Busy, TypeOK
    <3> QED
      BY <3>1, <3>2, <1>j
  <2> QED
    BY <1>4, <2>1, <2>2, <2>3, <2>4, <2>5, <2>6 DEF WorkerStep
<1>5. CASE Cancel
  BY <1>5 DEF Cancel
<1> QED
  BY <1>1, <1>2, <1>3, <1>4, <1>5 DEF Next, ProducerStep, MainStep

LEMMA CountsPreserved == ScanInv /\ [Next]_vars => CountsExact'
<1> SUFFICES ASSUME ScanInv, [Next]_vars PROVE CountsExact'
  OBVIOUS
<1>t. TypeOK /\ CountsExact
  BY DEF ScanInv
<1>n. /\ Len(Jobs) \in Nat /\ next \in 1..(Len(Jobs) + 1)
      /\ total \in Nat /\ online \in Nat /\ offline \in Nat
  BY <1>t, JobsAreTyped DEF TypeOK
<1>0. ASSUME LastCounted' = LastCounted, UNCHANGED <<total, online, offline>>
      PROVE  CountsExact'
  BY <1>0, <1>t DEF CountsExact
<1>1. CASE CountJob
  <2> DEFINE Real(n) == {j \in 1..n : Jobs[j].check # NoCheck}
             check == Jobs[next].check
  <2>1. next \in 1..Len(Jobs) /\ ~counted
    BY <1>1, <1>n DEF CountJob
  <2>2. check \in Checks \cup {NoCheck} /\ NoCheck \notin Checks
    BY <2>1, JobsAreTyped DEF JobType
  <2>3. LastCounted = next - 1 /\ LastCounted' = next
    BY <1>1, <2>1 DEF CountJob, LastCounted
  <2>4. total = Cardinality(Real(next - 1)) /\ online + offline = total
    BY <1>t, <2>3 DEF CountsExact
  <2>5. IsFiniteSet(Real(next - 1)) /\ next \notin Real(next - 1)
    <3>1. IsFiniteSet(1..(next - 1)) /\ next \notin 1..(next - 1)
      BY <1>n, FS_Interval
    <3>2. Real(next - 1) \subseteq 1..(next - 1)
      OBVIOUS
    <3> QED
      BY <3>1, <3>2, FS_Subset
  <2>6. 1..next = 1..(next - 1) \cup {next}
    BY <1>n
  <2>7. CASE check = NoCheck
    <3>1. Real(next) = Real(next - 1)
      BY <2>6, <2>7
    <3>2. total' = total
      BY <1>1, <2>7 DEF CountJob
    <3>3. online' = online /\ offline' = offline
      BY <1>1, <2>2, <2>7 DEF CountJob
    <3> HIDE DEF Real
    <3>4. total' = Cardinality(Real(next)) /\ online' + offline' = total'
      BY <2>4, <3>1, <3>2, <3>3
    <3> QED
      BY <2>3, <3>4 DEF CountsExact, Real
  <2>8. CASE check # NoCheck
    <3>1. Real(next) = Real(next - 1) \cup {next}
      BY <2>6, <2>8
    <3>2. total' = total + 1
      BY <1>1, <2>8 DEF CountJob
    <3>3. online' + offline' = (online + offline) + 1
      <4>1. CASE check \in OnlineChecks
        <5>1. online' = online + 1 /\ offline' = offline
          BY <1>1, <4>1 DEF CountJob
        <5> QED
          BY <1>n, <5>1
      <4>2. CASE check \notin OnlineChecks
        <5>1. online' = online /\ offline' = offline + 1
          BY <1>1, <2>2, <2>8, <4>2 DEF CountJob
        <5> QED
          BY <1>n, <5>1
      <4> QED
        BY <4>1, <4>2
    <3> HIDE DEF Real
    <3>4. Cardinality(Real(next)) = Cardinality(Real(next - 1)) + 1
      BY <2>5, <3>1, FS_AddElement
    <3>5. total' = Cardinality(Real(next)) /\ online' + offline' = total'
      BY <2>4, <3>2, <3>3, <3>4
    <3> QED
      BY <2>3, <3>5 DEF CountsExact, Real
  <2> QED
    BY <2>7, <2>8
<1>2. CASE PushJob
  <2>1. /\ counted /\ ~counted' /\ next' = next + 1
        /\ UNCHANGED <<total, online, offline>>
    BY <1>2 DEF PushJob
  <2>2. (next + 1) - 1 = next
    BY <1>n
  <2>3. LastCounted' = LastCounted
    BY <2>1, <2>2 DEF LastCounted
  <2> QED
    BY <1>0, <2>1, <2>3
<1>3. CASE UNCHANGED <<next, counted, total, online, offline>>
  BY <1>0, <1>3 DEF LastCounted
<1>4. CountJob \/ PushJob \/ UNCHANGED <<next, counted, total, online, offline>>
  BY DEF Next, vars, ProducerStep, CloseJobs, WorkerStep, TakeJob,
     DropJob, RunCheck, SendReport, FinishJob, ExitWorker, CloseResults, MainStep,
     CollectReport, Return, Cancel, Terminated
<1> QED
  BY <1>1, <1>2, <1>3, <1>4

(* Where the reports are: sending and collecting move them, a check makes  *)
(* new ones.                                                               *)
LEMMA SendKeepsHeld ==
    ASSUME TypeOK, NEW w \in Workers, SendReport(w)
    PROVE  Held' = Held
<1>1. /\ toSend[w] \in Seq(Problems) /\ toSend[w] # <<>> /\ results \in Seq(Problems)
      /\ results' = Append(results, Head(toSend[w])) /\ summary' = summary
      /\ toSend' = [toSend EXCEPT ![w] = Tail(toSend[w])]
  BY DEF TypeOK, SendReport
<1>2. /\ Head(toSend[w]) \in Problems
      /\ Elements(toSend[w]) = {Head(toSend[w])} \cup Elements(Tail(toSend[w]))
  BY <1>1, ElementsOfTail
<1>3. Elements(results') = Elements(results) \cup {Head(toSend[w])}
  BY <1>1, <1>2, ElementsOfAppend
<1>4. /\ toSend'[w] = Tail(toSend[w])
      /\ \A v \in Workers : v # w => toSend'[v] = toSend[v]
  BY <1>1 DEF TypeOK
<1>5. ASSUME NEW x PROVE x \in Held' <=> x \in Held
  BY <1>1, <1>2, <1>3, <1>4 DEF Held
<1> QED
  BY <1>5

LEMMA CheckAddsHeld ==
    ASSUME TypeOK, ChannelsOrdered, UnderwayKnown, NEW w \in Workers, RunCheck(w)
    PROVE  /\ task[w] \in 1..Len(Jobs)
           /\ Held' = Held \cup Elements(toSend'[w])
           /\ ~ctxDone => toSend'[w] = ReportsOf(task[w])
           /\ Elements(toSend'[w]) \subseteq Expected \cup Mistakes
<1>1. task[w] \in 1..Len(Jobs) /\ toSend[w] = <<>>
  BY DEF RunCheck, ChannelsOrdered
<1>2. PICK r \in {ReportsOf(task[w])} \cup
                   (IF ctxDone THEN InterruptedReportsOf(task[w]) ELSE {}) :
         toSend' = [toSend EXCEPT ![w] = r]
  BY DEF RunCheck
<1>3. toSend'[w] = r /\ \A v \in Workers : v # w => toSend'[v] = toSend[v]
  BY <1>2 DEF TypeOK
<1>4. summary' = summary /\ results' = results
  BY DEF RunCheck
<1>5. Held' = Held \cup Elements(r)
  <2>1. ASSUME NEW x PROVE x \in Held' <=> x \in Held \cup Elements(r)
    BY <1>1, <1>3, <1>4, EmptyHasNone DEF Held
  <2> QED
    BY <2>1
<1>6. Elements(ReportsOf(task[w])) \subseteq Expected
  BY <1>1, ExpectedIsReported
<1>7. Elements(r) \subseteq Expected \cup Mistakes
  <2>1. CASE r = ReportsOf(task[w])
    BY <1>6, <2>1
  <2>2. CASE ctxDone /\ r \in InterruptedReportsOf(task[w])
    <3>1. task[w] \in underway
      BY <2>2 DEF RunCheck, UnderwayKnown
    <3> QED
      BY <2>2, <3>1 DEF Mistakes
  <2> QED
    BY <1>2, <2>1, <2>2
<1> QED
  BY <1>1, <1>2, <1>3, <1>5, <1>7

LEMMA AddedOnce ==
    ASSUME NEW s \in Seq(Problems), NEW r \in Problems,
           \A i, j \in DOMAIN s : s[i] = s[j] => i = j
    PROVE  /\ Elements(Added(s, r)) = Elements(s) \cup {r}
           /\ \A i, j \in DOMAIN Added(s, r) : Added(s, r)[i] = Added(s, r)[j] => i = j
<1>1. CASE \E i \in DOMAIN s : s[i] = r
  BY <1>1 DEF Added, Elements
<1>2. CASE ~\E i \in DOMAIN s : s[i] = r
  <2>1. Added(s, r) = Append(s, r)
    BY <1>2 DEF Added
  <2>2. /\ Len(s) \in Nat /\ DOMAIN s = 1..Len(s)
        /\ DOMAIN Append(s, r) = 1..(Len(s) + 1) /\ Append(s, r)[Len(s) + 1] = r
        /\ \A i \in 1..Len(s) : Append(s, r)[i] = s[i]
    OBVIOUS
  <2>3. ASSUME NEW i \in 1..(Len(s) + 1), NEW j \in 1..(Len(s) + 1),
               Append(s, r)[i] = Append(s, r)[j], i # j
        PROVE  FALSE
    <3>1. CASE i \in 1..Len(s) /\ j \in 1..Len(s)
      BY <2>2, <2>3, <3>1
    <3>2. CASE i = Len(s) + 1
      <4>1. j \in 1..Len(s)
        BY <2>2, <2>3, <3>2
      <4>2. s[j] = r
        BY <2>2, <2>3, <3>2, <4>1
      <4> QED
        BY <1>2, <2>2, <4>1, <4>2
    <3>3. CASE j = Len(s) + 1
      <4>1. i \in 1..Len(s)
        BY <2>2, <2>3, <3>3
      <4>2. s[i] = r
        BY <2>2, <2>3, <3>3, <4>1
      <4> QED
        BY <1>2, <2>2, <4>1, <4>2
    <3> QED
      BY <2>2, <3>1, <3>2, <3>3
  <2>4. Elements(Append(s, r)) = Elements(s) \cup {r}
    BY ElementsOfAppend
  <2> QED
    BY <2>1, <2>2, <2>3, <2>4
<1> QED
  BY <1>1, <1>2

LEMMA CollectKeepsHeld ==
    ASSUME TypeOK, ReportsHonest, CollectReport
    PROVE  /\ Held' = Held
           /\ \A i, j \in DOMAIN summary' : summary'[i] = summary'[j] => i = j
<1>1. /\ results \in Seq(Problems) /\ results # <<>> /\ summary \in Seq(Problems)
      /\ results' = Tail(results) /\ summary' = Added(summary, Head(results))
      /\ toSend' = toSend
  BY DEF TypeOK, CollectReport
<1>2. /\ Head(results) \in Problems
      /\ Elements(results) = {Head(results)} \cup Elements(Tail(results))
  BY <1>1, ElementsOfTail
<1>3. \A i, j \in DOMAIN summary : summary[i] = summary[j] => i = j
  BY DEF ReportsHonest
<1>4. /\ Elements(summary') = Elements(summary) \cup {Head(results)}
      /\ \A i, j \in DOMAIN summary' : summary'[i] = summary'[j] => i = j
  BY <1>1, <1>2, <1>3, AddedOnce
<1>5. ASSUME NEW x PROVE x \in Held' <=> x \in Held
  BY <1>1, <1>2, <1>4 DEF Held
<1> QED
  BY <1>4, <1>5

(* A check starts before the cancellation or not at all, so those that run *)
(* after it are the ones that were under way.                              *)
LEMMA UnderwayPreserved ==
    ScanInv /\ [Next]_vars => UnderwayKnown' /\ underway \subseteq underway'
<1> SUFFICES ASSUME ScanInv, [Next]_vars
             PROVE  UnderwayKnown' /\ underway \subseteq underway'
  OBVIOUS
<1>t. TypeOK /\ UnderwayKnown
  BY DEF ScanInv
<1>1. CASE Cancel
  <2>1. underway = {}
    BY <1>1, <1>t DEF Cancel, UnderwayKnown
  <2>2. /\ ctxDone' /\ worker' = worker /\ task' = task
        /\ underway' = {task[w] : w \in {w \in Workers : worker[w] = "checking"}}
    BY <1>1 DEF Cancel
  <2>3. \A w \in Workers : worker[w] = "checking" => task[w] \in underway'
    BY <2>2
  <2> QED
    BY <2>1, <2>2, <2>3 DEF UnderwayKnown
<1>2. CASE ~Cancel
  <2>1. UNCHANGED <<ctxDone, underway>>
    BY <1>2 DEF Next, vars, ProducerStep, CountJob, PushJob, CloseJobs, WorkerStep, TakeJob,
       DropJob, RunCheck, SendReport, FinishJob, ExitWorker, CloseResults, MainStep,
       CollectReport, Return, Terminated
  <2>2. ASSUME NEW w \in Workers, ctxDone, worker'[w] = "checking"
        PROVE  worker[w] = "checking" /\ task'[w] = task[w]
    <3>1. ASSUME NEW v \in Workers, WorkerStep(v)
          PROVE  worker[w] = "checking" /\ task'[w] = task[w]
      BY <2>2, <3>1, <1>t DEF TypeOK, WorkerStep, TakeJob, DropJob, RunCheck, SendReport,
         FinishJob, ExitWorker
    <3>2. CASE ~\E v \in Workers : WorkerStep(v)
      <4>1. UNCHANGED <<worker, task>>
        BY <1>2, <3>2 DEF Next, vars, ProducerStep, CountJob, PushJob, CloseJobs,
           CloseResults, MainStep, CollectReport, Return, Terminated
      <4> QED
        BY <2>2, <4>1
    <3> QED
      BY <3>1, <3>2
  <2> QED
    BY <2>1, <2>2, <1>t DEF UnderwayKnown
<1> QED
  BY <1>1, <1>2

LEMMA HonestyPreserved == ScanInv /\ [Next]_vars => ReportsHonest'
<1> SUFFICES ASSUME ScanInv, [Next]_vars PROVE ReportsHonest'
  OBVIOUS
<1>t. TypeOK /\ ChannelsOrdered /\ UnderwayKnown /\ ReportsHonest
  BY DEF ScanInv
<1>m. Mistakes \subseteq Mistakes'
  BY UnderwayPreserved DEF Mistakes
<1>0. ASSUME Held' = Held, summary' = summary
      PROVE  ReportsHonest'
  BY <1>0, <1>m, <1>t DEF ReportsHonest
<1>1. CASE UNCHANGED <<toSend, results, summary>>
  <2>1. Held' = Held
    BY <1>1 DEF Held
  <2> QED
    BY <1>0, <1>1, <2>1
<1>2. ASSUME NEW w \in Workers, SendReport(w) PROVE ReportsHonest'
  <2>1. summary' = summary
    BY <1>2 DEF SendReport
  <2> QED
    BY <1>0, <1>2, <2>1, <1>t, SendKeepsHeld
<1>3. ASSUME NEW w \in Workers, RunCheck(w) PROVE ReportsHonest'
  <2>1. summary' = summary
    BY <1>3 DEF RunCheck
  <2>2. Held' \subseteq Expected \cup Mistakes
    BY <1>3, <1>t, CheckAddsHeld DEF ReportsHonest
  <2> QED
    BY <2>1, <2>2, <1>m, <1>t DEF ReportsHonest
<1>4. CASE CollectReport
  <2>1. Held' = Held /\ \A i, j \in DOMAIN summary' : summary'[i] = summary'[j] => i = j
    BY <1>4, <1>t, CollectKeepsHeld
  <2> QED
    BY <2>1, <1>m, <1>t DEF ReportsHonest
<1>5. \/ UNCHANGED <<toSend, results, summary>>
      \/ \E w \in Workers : SendReport(w) \/ RunCheck(w)
      \/ CollectReport
  BY DEF Next, vars, ProducerStep, CountJob, PushJob, CloseJobs, WorkerStep, TakeJob,
     DropJob, FinishJob, ExitWorker, CloseResults, MainStep, Return, Cancel, Terminated
<1> QED
  BY <1>1, <1>2, <1>3, <1>4, <1>5

LEMMA ReportsPreserved == ScanInv /\ [Next]_vars => ReportsKept'
<1> DEFINE Checked(j) ==
             \/ j \in Elements(jobs)
             \/ \E w \in Workers : worker[w] = "checking" /\ task[w] = j
             \/ Elements(ReportsOf(j)) \subseteq Held
<1> SUFFICES ASSUME ScanInv, [Next]_vars, ~ctxDone'
             PROVE  \A j \in 1..(next' - 1) : Checked(j)'
  BY DEF ReportsKept
<1>t. TypeOK /\ ChannelsOrdered /\ UnderwayKnown /\ ReportsHonest /\ ReportsKept
  BY DEF ScanInv
<1>c. ~ctxDone
  <2>1. ctxDone => ctxDone'
    BY DEF Next, vars, ProducerStep, CountJob, PushJob, CloseJobs, WorkerStep, TakeJob,
       DropJob, RunCheck, SendReport, FinishJob, ExitWorker, CloseResults, MainStep,
       CollectReport, Return, Cancel, Terminated
  <2> QED
    BY <2>1
<1>n. next \in Nat
  BY <1>t, JobsAreTyped DEF TypeOK
<1>j. \A j \in 1..(next - 1) : Checked(j)
  BY <1>c, <1>t DEF ReportsKept
<1>0. ASSUME UNCHANGED <<next, jobs, worker, task>>, Held' = Held
      PROVE  \A j \in 1..(next' - 1) : Checked(j)'
  BY <1>0, <1>j
<1>h. UNCHANGED <<toSend, results, summary>> => Held' = Held
  BY DEF Held
<1>1. CASE CountJob \/ CloseJobs \/ CloseResults \/ Return \/ Cancel
           \/ Terminated \/ UNCHANGED vars
  <2>1. UNCHANGED <<next, jobs, worker, task, toSend, results, summary>>
    BY <1>1 DEF CountJob, CloseJobs, CloseResults, Return, Cancel, Terminated, vars
  <2> QED
    BY <1>0, <1>h, <2>1
<1>2. CASE PushJob
  <2>1. /\ next \in 1..Len(Jobs) /\ next' = next + 1 /\ jobs' = Append(jobs, next)
        /\ jobs \in Seq(1..Len(Jobs))
    BY <1>2, <1>t, JobsAreTyped DEF PushJob, TypeOK
  <2>2. UNCHANGED <<worker, task>> /\ Held' = Held
    BY <1>2, <1>h DEF PushJob
  <2>3. Elements(jobs') = Elements(jobs) \cup {next}
    BY <2>1, ElementsOfAppend
  <2>4. ASSUME NEW j \in 1..(next' - 1) PROVE Checked(j)'
    <3>1. j = next \/ j \in 1..(next - 1)
      BY <2>1, <1>n
    <3> QED
      BY <2>2, <2>3, <3>1, <1>j
  <2> QED
    BY <2>4
<1>3. ASSUME NEW w \in Workers, WorkerStep(w)
      PROVE  \A j \in 1..(next' - 1) : Checked(j)'
  <2>1. CASE TakeJob(w)
    <3>1. /\ worker[w] = "idle" /\ worker' = [worker EXCEPT ![w] = "checking"]
          /\ task' = [task EXCEPT ![w] = Head(jobs)] /\ jobs # <<>> /\ jobs' = Tail(jobs)
          /\ next' = next /\ Held' = Held
      BY <2>1, <1>h DEF TakeJob
    <3>2. Elements(jobs) = {Head(jobs)} \cup Elements(jobs')
      BY <3>1, <1>t, ElementsOfTail DEF TypeOK
    <3>3. /\ worker'[w] = "checking" /\ task'[w] = Head(jobs)
          /\ \A v \in Workers : worker[v] = "checking" =>
               worker'[v] = "checking" /\ task'[v] = task[v]
      BY <3>1, <1>t DEF TypeOK
    <3> QED
      BY <3>1, <3>2, <3>3, <1>j
  <2>2. CASE DropJob(w)
    BY <2>2, <1>c DEF DropJob
  <2>3. CASE RunCheck(w)
    <3>1. /\ worker' = [worker EXCEPT ![w] = "sending"]
          /\ UNCHANGED <<next, jobs, task>>
      BY <2>3 DEF RunCheck
    <3>2. /\ Held' = Held \cup Elements(toSend'[w])
          /\ toSend'[w] = ReportsOf(task[w])
      BY <2>3, <1>t, <1>c, CheckAddsHeld
    <3>3. \A v \in Workers : v # w => worker'[v] = worker[v]
      BY <3>1, <1>t DEF TypeOK
    <3>4. ASSUME NEW j \in 1..(next' - 1) PROVE Checked(j)'
      <4>1. Checked(j)
        BY <3>1, <1>j
      <4>2. CASE j \in Elements(jobs)
        BY <3>1, <4>2
      <4>3. CASE task[w] = j
        BY <3>2, <4>3
      <4>4. ASSUME NEW v \in Workers, v # w, worker[v] = "checking", task[v] = j
            PROVE  Checked(j)'
        BY <3>1, <3>3, <4>4
      <4>5. CASE Elements(ReportsOf(j)) \subseteq Held
        BY <3>2, <4>5
      <4> QED
        BY <4>1, <4>2, <4>3, <4>4, <4>5
    <3> QED
      BY <3>4
  <2>4. CASE SendReport(w)
    <3>1. UNCHANGED <<next, jobs, worker, task>>
      BY <2>4 DEF SendReport
    <3>2. Held' = Held
      BY <2>4, <1>t, SendKeepsHeld
    <3> QED
      BY <1>0, <3>1, <3>2
  <2>5. CASE FinishJob(w)
    <3>1. /\ worker[w] = "sending" /\ worker' = [worker EXCEPT ![w] = "idle"]
          /\ task' = [task EXCEPT ![w] = 0] /\ UNCHANGED <<next, jobs>> /\ Held' = Held
      BY <2>5, <1>h DEF FinishJob
    <3>2. \A v \in Workers : worker[v] = "checking" =>
             worker'[v] = "checking" /\ task'[v] = task[v]
      BY <3>1, <1>t DEF TypeOK
    <3> QED
      BY <3>1, <3>2, <1>j
  <2>6. CASE ExitWorker(w)
    <3>1. /\ worker[w] = "idle" /\ worker' = [worker EXCEPT ![w] = "exited"]
          /\ UNCHANGED <<next, jobs, task>> /\ Held' = Held
      BY <2>6, <1>h DEF ExitWorker
    <3>2. \A v \in Workers : worker[v] = "checking" => worker'[v] = "checking"
      BY <3>1, <1>t DEF TypeOK
    <3> QED
      BY <3>1, <3>2, <1>j
  <2> QED
    BY <1>3, <2>1, <2>2, <2>3, <2>4, <2>5, <2>6 DEF WorkerStep
<1>4. CASE CollectReport
  <2>1. UNCHANGED <<next, jobs, worker, task>>
    BY <1>4 DEF CollectReport
  <2>2. Held' = Held
    BY <1>4, <1>t, CollectKeepsHeld
  <2> QED
    BY <1>0, <2>1, <2>2
<1> QED
  BY <1>1, <1>2, <1>3, <1>4 DEF Next, ProducerStep, MainStep

(* Where a scan is: its channels are in order, no job and no report is     *)
(* lost, and its counters say what was counted.                            *)
THEOREM ScanInvariant == Spec => []ScanInv
<1>1. ScanInv /\ [Next]_vars => ScanInv'
  <2> SUFFICES ASSUME ScanInv, [Next]_vars PROVE ScanInv'
    OBVIOUS
  <2>1. TypeOK' /\ ChannelsOrdered' /\ JobsConserved' /\ CountsExact'
    BY TypePreserved, ChannelsPreserved, JobsConservedKept, CountsPreserved
  <2>2. UnderwayKnown' /\ ReportsHonest' /\ ReportsKept'
    BY UnderwayPreserved, HonestyPreserved, ReportsPreserved
  <2> QED
    BY <2>1, <2>2 DEF ScanInv
<1> QED
  BY InitInv, <1>1, PTL DEF Spec

(* scan.go, checkRules: nobody can send on the results channel once the    *)
(* closer has closed it or the caller has returned.                        *)
THEOREM ClosedChannelsStayQuiet == Spec => []NoSendAfterClose
<1>1. ScanInv => NoSendAfterClose
  BY DEF ScanInv, ChannelsOrdered, WorkersGone, NoSendAfterClose
<1> QED
  BY <1>1, ScanInvariant, PTL

(* scanWorker and Summary.Report: whatever the order in which workers      *)
(* report, each problem is in the summary once, and is one that a check    *)
(* finds, or else was said by one of the online checks that were running   *)
(* when the scan was cancelled.                                            *)
THEOREM SummaryIsHonest == Spec => []SummaryHonest
<1>1. ScanInv => SummaryHonest
  <2>1. Elements(summary) \subseteq Held
    BY DEF Held
  <2> QED
    BY <2>1 DEF ScanInv, ReportsHonest, SummaryHonest
<1> QED
  BY <1>1, ScanInvariant, PTL

(* checkRules: when a scan that was not cancelled has returned, all that   *)
(* its checks find is in the summary and all jobs were counted and done.   *)
THEOREM FinishedScanIsComplete == Spec => []ScanComplete
<1>1. ScanInv => ScanComplete
  <2> SUFFICES ASSUME ScanInv, returned, ~ctxDone
               PROVE  /\ Elements(summary) = Expected
                      /\ done = Len(Jobs)
                      /\ total = Cardinality({j \in DOMAIN Jobs : Jobs[j].check # NoCheck})
                      /\ online + offline = total
    BY DEF ScanComplete
  <2>1. \A w \in Workers : worker[w] = "exited" /\ toSend[w] = <<>>
    BY DEF ScanInv, ChannelsOrdered, WorkersGone
  <2>2. results = <<>>
    BY DEF ScanInv, ChannelsOrdered
  <2>3. jobs = <<>> /\ jobsClosed
    BY <2>1 DEF ScanInv, JobsConserved
  <2>4. Len(Jobs) \in Nat /\ DOMAIN Jobs = 1..Len(Jobs) /\ next \in 1..(Len(Jobs) + 1)
    BY JobsAreTyped DEF ScanInv, TypeOK
  <2>5. next = Len(Jobs) + 1
    <3>1. next > Len(Jobs)
      BY <2>3 DEF ScanInv, ChannelsOrdered
    <3> QED
      BY <2>4, <3>1
  <2>6. Busy = {}
    BY <2>1 DEF Busy
  <2>7. done = Len(Jobs)
    <3>1. next - 1 = done + Len(jobs) + Cardinality(Busy)
      BY DEF ScanInv, JobsConserved
    <3>2. Cardinality(Busy) = 0 /\ Len(jobs) = 0
      BY <2>3, <2>6, FS_EmptySet
    <3>3. done \in Nat
      BY DEF ScanInv, TypeOK
    <3>4. next - 1 = Len(Jobs)
      BY <2>4, <2>5
    <3> QED
      BY <3>1, <3>2, <3>3, <3>4
  <2>8. LastCounted = Len(Jobs)
    <3>1. ~counted
      BY <2>4, <2>5 DEF ScanInv, ChannelsOrdered
    <3> QED
      BY <2>4, <2>5, <3>1 DEF LastCounted
  <2>9. /\ total = Cardinality({j \in DOMAIN Jobs : Jobs[j].check # NoCheck})
        /\ online + offline = total
    BY <2>4, <2>8 DEF ScanInv, CountsExact
  <2>10. Held = Elements(summary)
    BY <2>1, <2>2, EmptyHasNone DEF Held
  <2>11. \A j \in 1..Len(Jobs) : Elements(ReportsOf(j)) \subseteq Elements(summary)
    <3>1. next - 1 = Len(Jobs)
      BY <2>4, <2>5
    <3>2. \A w \in Workers : worker[w] # "checking"
      BY <2>1
    <3> QED
      BY <2>3, <2>10, <3>1, <3>2, EmptyHasNone DEF ScanInv, ReportsKept
  <2>12. Elements(summary) = Expected
    <3>1. Elements(summary) \subseteq Expected
      BY <2>10 DEF ScanInv, ReportsHonest, UnderwayKnown, Mistakes
    <3> QED
      BY <2>11, <3>1, ExpectedIsReported
  <2> QED
    BY <2>7, <2>9, <2>12
<1> QED
  BY <1>1, ScanInvariant, PTL
============================================================================
