-------------------------- MODULE RangeQueryProofs --------------------------
(***************************************************************************)
(* Proofs about RangeQuery for any number of callers, keys, servers,       *)
(* workers and slices of a range, and any capacity of the queues.  Its     *)
(* invariant RangeInv is inductive: what a slice's goroutine, the queues,  *)
(* the workers, the WaitGroup and the merging loop each hold of a call     *)
(* adds up.  Each part has a lemma that a step keeps it, with one step per *)
(* action that can disturb it.                                             *)
(***************************************************************************)
EXTENDS RangeQuery, FiniteSetTheorems, TLAPS

USE RangeAssumption DEF Servers, Verdicts, callVars, sliceVars, poolVars, None

(* A job is a pair of a caller and one of the slices.                      *)
LEMMA JobsArePairs ==
    \A j \in Jobs : /\ j[1] \in Callers /\ j[2] \in Slices
                    /\ j = <<j[1], j[2]>> /\ j # <<>>
<1> SUFFICES ASSUME NEW j \in Jobs
             PROVE  /\ j[1] \in Callers /\ j[2] \in Slices
                    /\ j = <<j[1], j[2]>> /\ j # <<>>
  OBVIOUS
<1>1. PICK a \in Callers, b \in Slices : j = <<a, b>>
  BY DEF Jobs
<1>2. Len(<<a, b>>) = 2 /\ Len(<< >>) = 0
  OBVIOUS
<1> QED
  BY <1>1, <1>2

(* Before the first question nothing is asked, queued, counted or merged.  *)
LEMMA InitInv == Init => RangeInv
<1> SUFFICES ASSUME Init PROVE RangeInv
  OBVIOUS
<1>1. TypeOK
  <2>1. Cardinality(Slices) \in Nat
    BY FS_CardinalityType
  <2>2. pending \in [Callers -> 0..Cardinality(Slices)]
    BY <2>1 DEF Init
  <2>3. results \in [Callers -> Seq(Slices)] /\ queue \in [Servers -> Seq(Jobs)]
    BY DEF Init
  <2>4. /\ slice \in [Callers -> [Slices -> {"none", "sending", "queued",
                                             "delivering", "cancelling", "done"}]]
        /\ verdict \in [Callers -> [Slices -> Verdicts \cup {None}]]
    BY DEF Init
  <2>5. \A s \in Servers : Len(queue[s]) <= QueueCap
    BY DEF Init
  <2>7. /\ work \in [Workers -> {"idle", "running", "reply"}]
        /\ job \in [Workers -> Jobs \cup {<<>>}]
        /\ got \in [Workers -> Verdicts \cup {None}]
    BY DEF Init
  <2>8. locked \in [Servers -> SUBSET Keys] /\ cache \subseteq Servers \X Keys \X Slices
    BY DEF Init
  <2>9. parentDone \in BOOLEAN /\ gathered \in [Callers -> SUBSET Slices]
        /\ answer \in [Callers -> Verdicts \cup {None}]
        /\ lastErr \in [Callers -> Verdicts \cup {None}]
        /\ key \in [Callers -> Keys \cup {None}]
    BY DEF Init
  <2> QED
    BY <2>2, <2>3, <2>4, <2>5, <2>7, <2>8, <2>9 DEF Init, TypeOK
<1>2. CallsAreClean /\ OneCallPerKey /\ LastServerAnswers /\ SuccessIsComplete
  BY DEF Init, CallsAreClean, OneCallPerKey, LastServerAnswers, SuccessIsComplete
<1>3. JobsAccounted
  BY DEF Init, JobsAccounted
<1>4. WaitGroupExact
  <2> SUFFICES ASSUME NEW c \in Callers
               PROVE  /\ pending[c] = Cardinality(Underway(c) \cup Delivered(c))
                      /\ Delivered(c) \cap Underway(c) = {}
                      /\ results[c] = <<>> /\ ~closed[c]
                      /\ \A i \in Slices : slice[c][i] = "none"
    BY DEF WaitGroupExact, Counted
  <2>1. results[c] = <<>> /\ ~closed[c] /\ \A i \in Slices : slice[c][i] = "none"
    BY DEF Init
  <2>2. Underway(c) \cup Delivered(c) = {}
    BY <2>1 DEF Underway, Delivered
  <2>3. pending[c] = 0
    BY DEF Init
  <2> QED
    BY <2>1, <2>2, <2>3, FS_EmptySet
<1>5. CancelledByFailure /\ MergedIsKept
  BY DEF Init, CancelledByFailure, SeesCancel, MergedIsKept
<1> QED
  BY <1>1, <1>2, <1>3, <1>4, <1>5 DEF RangeInv

(* A slice with a goroutine is of a call that merges.                      *)
LEMMA SliceIsMerged ==
    ASSUME RangeInv, NEW c \in Callers, NEW i \in Slices, slice[c][i] # "none"
    PROVE  stage[c] = "merging" /\ key[c] \in Keys
  BY DEF RangeInv, CallsAreClean

(* What a worker holds is a job of a queued slice of such a call.          *)
LEMMA WorkerJob ==
    ASSUME RangeInv, NEW w \in Workers, job[w] # <<>>
    PROVE  /\ job[w] \in Jobs /\ job[w][1] \in Callers /\ job[w][2] \in Slices
           /\ job[w] = <<job[w][1], job[w][2]>>
           /\ slice[job[w][1]][job[w][2]] = "queued"
           /\ srv[job[w][1]] = Home[w]
           /\ stage[job[w][1]] = "merging" /\ key[job[w][1]] \in Keys
<1>1. job[w] \in Jobs
  BY DEF RangeInv, TypeOK
<1>2. job[w][1] \in Callers /\ job[w][2] \in Slices /\ job[w] = <<job[w][1], job[w][2]>>
  BY <1>1, JobsArePairs
<1>3. slice[job[w][1]][job[w][2]] = "queued" /\ srv[job[w][1]] = Home[w]
  BY DEF RangeInv, JobsAccounted, Awaits
<1> QED
  BY <1>1, <1>2, <1>3, SliceIsMerged

(* The same of what is at the head of a queue.                             *)
LEMMA HeadJob ==
    ASSUME RangeInv, NEW s \in Servers, queue[s] # <<>>
    PROVE  /\ Head(queue[s]) \in Jobs
           /\ Head(queue[s])[1] \in Callers /\ Head(queue[s])[2] \in Slices
           /\ Awaits(Head(queue[s]), s)
           /\ stage[Head(queue[s])[1]] = "merging"
<1>1. queue[s] \in Seq(Jobs)
  BY DEF RangeInv, TypeOK
<1>2. Head(queue[s]) = queue[s][1] /\ 1 \in 1..Len(queue[s]) /\ Head(queue[s]) \in Jobs
  BY <1>1
<1>3. Awaits(Head(queue[s]), s)
  BY <1>2 DEF RangeInv, JobsAccounted
<1> QED
  BY <1>2, <1>3, JobsArePairs, SliceIsMerged DEF Awaits

(* When results is closed every slice was answered and merged.             *)
LEMMA ClosedIsDrained ==
    ASSUME RangeInv, NEW c \in Callers, closed[c]
    PROVE  /\ stage[c] = "merging" /\ results[c] = <<>>
           /\ Delivered(c) = {} /\ Underway(c) = {}
           /\ \A i \in Slices : /\ slice[c][i] \in {"cancelling", "done"}
                                /\ verdict[c][i] \in Verdicts
<1>1. stage[c] = "merging"
  BY DEF RangeInv, CallsAreClean
<1>2. Underway(c) \cup Delivered(c) = {}
  <2>1. Cardinality(Underway(c) \cup Delivered(c)) = 0
    BY DEF RangeInv, WaitGroupExact, Counted
  <2>2. results[c] \in Seq(Slices)
    BY DEF RangeInv, TypeOK
  <2>3. Delivered(c) \subseteq Slices
    BY <2>2 DEF Delivered
  <2>4. Underway(c) \subseteq Slices
    BY DEF Underway
  <2>5. IsFiniteSet(Underway(c) \cup Delivered(c))
    BY <2>3, <2>4, FS_Subset
  <2> QED
    BY <2>1, <2>5, FS_EmptySet
<1>3. results[c] = <<>>
  <2>1. results[c] \in Seq(Slices)
    BY DEF RangeInv, TypeOK
  <2>2. DOMAIN results[c] = {}
    BY <1>2 DEF Delivered
  <2>3. Len(results[c]) \in Nat /\ DOMAIN results[c] = 1..Len(results[c])
    BY <2>1
  <2>4. 1 \notin 1..Len(results[c])
    BY <2>2, <2>3
  <2>5. Len(results[c]) = 0
    BY <2>3, <2>4
  <2> QED
    BY <2>1, <2>5
<1>4. ASSUME NEW i \in Slices
      PROVE  slice[c][i] \in {"cancelling", "done"} /\ verdict[c][i] \in Verdicts
  <2>1. slice[c][i] \in {"none", "sending", "queued", "delivering", "cancelling", "done"}
        /\ verdict[c][i] \in Verdicts \cup {None}
    BY DEF RangeInv, TypeOK
  <2>2. slice[c][i] # "none"
    BY <1>1 DEF RangeInv, CallsAreClean
  <2>3. slice[c][i] \in {"cancelling", "done"}
    BY <1>2, <2>1, <2>2 DEF Underway
  <2> QED
    BY <2>1, <2>3 DEF RangeInv, WaitGroupExact, Counted
<1> QED
  BY <1>1, <1>2, <1>3, <1>4

(* Every step keeps the variables in their types.                          *)
LEMMA TypePreserved == RangeInv /\ [Next]_vars => TypeOK'
<1> SUFFICES ASSUME RangeInv, [Next]_vars PROVE TypeOK'
  OBVIOUS
<1>t. TypeOK
  BY DEF RangeInv
<1>n. Cardinality(Slices) \in Nat
  BY FS_CardinalityType
<1>1. ASSUME NEW c \in Callers, CheckStep(c) PROVE TypeOK'
  <2>1. ASSUME NEW k \in Keys, Ask(c, k) PROVE TypeOK'
    BY <2>1, <1>t DEF Ask, TypeOK
  <2>2. CASE Stop(c)
    BY <2>2, <1>t DEF Stop, TypeOK
  <2> QED
    BY <1>1, <2>1, <2>2 DEF CheckStep
<1>2. ASSUME NEW c \in Callers, CallStep(c) PROVE TypeOK'
  <2>1. CASE Begin(c)
    <3>1. key[c] \in Keys
      BY <2>1 DEF Begin, RangeInv, CallsAreClean
    <3>2. pending' \in [Callers -> 0..Cardinality(Slices)]
      BY <2>1, <1>t, <1>n DEF Begin, TypeOK
    <3> QED
      BY <2>1, <3>1, <3>2, <1>t DEF Begin, TypeOK
  <2>2. CASE Merge(c)
    <3> DEFINE h == Head(results[c])
    <3>1. h \in Slices /\ Tail(results[c]) \in Seq(Slices) /\ h = results[c][1]
          /\ 1 \in DOMAIN results[c]
      BY <2>2, <1>t DEF Merge, TypeOK
    <3>2. pending[c] # 0
      <4>1. ~closed[c] /\ h \in Delivered(c)
        BY <2>2, <3>1, ClosedIsDrained DEF Merge, Delivered
      <4>2. IsFiniteSet(Underway(c) \cup Delivered(c))
        <5>1. Delivered(c) \subseteq Slices
          BY <1>t DEF TypeOK, Delivered
        <5> QED
          BY <5>1, FS_Subset DEF Underway
      <4> QED
        BY <4>1, <4>2, FS_EmptySet DEF RangeInv, WaitGroupExact, Counted
    <3>3. pending[c] - 1 \in 0..Cardinality(Slices)
      BY <3>2, <1>t, <1>n DEF TypeOK
    <3>4. verdict[c][h] \in Verdicts \cup {None}
      BY <3>1, <1>t DEF TypeOK
    <3>5. pending' \in [Callers -> 0..Cardinality(Slices)]
      BY <2>2, <3>3, <1>t DEF Merge, TypeOK
    <3>6. /\ results' \in [Callers -> Seq(Slices)]
          /\ gathered' \in [Callers -> SUBSET Slices]
          /\ lastErr' \in [Callers -> Verdicts \cup {None}]
      BY <2>2, <3>1, <3>4, <1>t DEF Merge, TypeOK
    <3> QED
      BY <2>2, <3>5, <3>6, <1>t DEF Merge, TypeOK
  <2>3. ASSUME Forget(c)
        PROVE  /\ slice' \in [Callers -> [Slices -> {"none", "sending", "queued",
                                           "delivering", "cancelling", "done"}]]
               /\ verdict' \in [Callers -> [Slices -> Verdicts \cup {None}]]
               /\ results' \in [Callers -> Seq(Slices)]
               /\ pending' \in [Callers -> 0..Cardinality(Slices)]
               /\ closed' \in [Callers -> BOOLEAN]
               /\ lastErr' \in [Callers -> Verdicts \cup {None}]
               /\ ctxDone' \in [Callers -> BOOLEAN]
    BY <2>3, <1>t, <1>n DEF Forget, TypeOK
  <2>4. CASE TryNext(c)
    <3>1. srv[c] + 1 \in Servers
      BY <2>4, <1>t DEF TryNext, Moves, TypeOK
    <3> QED
      BY <2>3, <2>4, <3>1, <1>t DEF TryNext, Unlock, TypeOK
  <2>5. CASE Answer(c)
    BY <2>3, <2>5, <1>t DEF Answer, Unlock, TypeOK
  <2>6. CASE Consume(c)
    BY <2>6, <1>t DEF Consume, TypeOK
  <2> QED
    BY <1>2, <2>1, <2>2, <2>4, <2>5, <2>6 DEF CallStep
<1>3. ASSUME NEW c \in Callers, CloseResults(c) PROVE TypeOK'
  BY <1>3, <1>t DEF CloseResults, TypeOK
<1>4. ASSUME NEW c \in Callers, NEW i \in Slices, SliceStep(c, i) PROVE TypeOK'
  <2>1. CASE SendSlice(c, i)
    <3> DEFINE s == srv[c]
    <3>1. s \in Servers /\ <<c, i>> \in Jobs
      BY <1>t DEF TypeOK, Jobs
    <3>2. /\ Append(queue[s], <<c, i>>) \in Seq(Jobs)
          /\ Len(Append(queue[s], <<c, i>>)) <= QueueCap
      BY <2>1, <3>1, <1>t DEF SendSlice, TypeOK
    <3>3. queue' \in [Servers -> Seq(Jobs)] /\ \A t \in Servers : Len(queue'[t]) <= QueueCap
      BY <2>1, <3>1, <3>2, <1>t DEF SendSlice, TypeOK
    <3> QED
      BY <2>1, <3>3, <1>t DEF SendSlice, TypeOK
  <2>2. CASE DeliverSlice(c, i)
    BY <2>2, <1>t DEF DeliverSlice, TypeOK
  <2>3. CASE CancelSiblings(c, i)
    BY <2>3, <1>t DEF CancelSiblings, TypeOK
  <2> QED
    BY <1>4, <2>1, <2>2, <2>3 DEF SliceStep
<1>5. ASSUME NEW w \in Workers, WorkerStep(w) PROVE TypeOK'
  <2>1. CASE Start(w)
    <3> DEFINE s == Home[w]
    <3>1. s \in Servers /\ queue[s] \in Seq(Jobs) /\ queue[s] # <<>>
      BY <2>1, <1>t DEF Start, TypeOK
    <3>2. Head(queue[s]) \in Jobs /\ Tail(queue[s]) \in Seq(Jobs)
          /\ Len(Tail(queue[s])) <= QueueCap
      BY <3>1, <1>t DEF TypeOK
    <3>3. queue' \in [Servers -> Seq(Jobs)] /\ \A t \in Servers : Len(queue'[t]) <= QueueCap
      BY <2>1, <3>1, <3>2, <1>t DEF Start, TypeOK
    <3>4. /\ job' \in [Workers -> Jobs \cup {<<>>}]
          /\ work' \in [Workers -> {"idle", "running", "reply"}]
          /\ got' \in [Workers -> Verdicts \cup {None}]
      BY <2>1, <3>2, <1>t DEF Start, TypeOK
    <3> QED
      BY <2>1, <3>3, <3>4, <1>t DEF Start, TypeOK
  <2>2. CASE Reply(w)
    BY <2>2, <1>t DEF Reply, TypeOK
  <2>3. ASSUME NEW v \in Verdicts, Finish(w, v) PROVE TypeOK'
    <3>1. job[w] # <<>>
      BY <2>3 DEF Finish, RangeInv, JobsAccounted
    <3>2. <<Home[w], key[job[w][1]], job[w][2]>> \in Servers \X Keys \X Slices
      BY <3>1, WorkerJob
    <3>3. cache' \subseteq Servers \X Keys \X Slices
      BY <2>3, <3>2, <1>t DEF Finish, TypeOK
    <3> QED
      BY <2>3, <3>3, <1>t DEF Finish, TypeOK
  <2> QED
    BY <1>5, <2>1, <2>2, <2>3 DEF WorkerStep
<1>6. CASE CancelRun
  BY <1>6, <1>t DEF CancelRun, TypeOK
<1>7. CASE Terminated \/ UNCHANGED vars
  BY <1>7, <1>t DEF Terminated, vars, TypeOK
<1> QED
  BY <1>1, <1>2, <1>3, <1>4, <1>5, <1>6, <1>7 DEF Next

(* A step keeps calls clean: the slices of a call are gone before it is    *)
(* out of its merging loop.                                                *)
LEMMA CleanPreserved == RangeInv /\ [Next]_vars => CallsAreClean'
<1> SUFFICES ASSUME RangeInv, [Next]_vars PROVE CallsAreClean'
  OBVIOUS
<1>t. TypeOK /\ CallsAreClean
  BY DEF RangeInv
<1>1. ASSUME NEW c \in Callers, CheckStep(c) \/ CallStep(c) PROVE CallsAreClean'
  <2>1. ASSUME NEW k \in Keys, Ask(c, k) PROVE CallsAreClean'
    BY <2>1, <1>t DEF Ask, TypeOK, CallsAreClean
  <2>2. CASE Stop(c)
    BY <2>2, <1>t DEF Stop, TypeOK, CallsAreClean
  <2>3. CASE Begin(c)
    BY <2>3, <1>t DEF Begin, TypeOK, CallsAreClean
  <2>4. CASE Merge(c)
    BY <2>4, <1>t DEF Merge, TypeOK, CallsAreClean
  <2>5. CASE TryNext(c) \/ Answer(c)
    <3>1. closed[c] /\ stage[c] = "merging" /\ key[c] \in Keys
      BY <2>5, <1>t DEF TryNext, Answer, Merged, CallsAreClean
    <3>2. slice'[c] = [i \in Slices |-> "none"]
      BY <2>5, <3>1, ClosedIsDrained, <1>t DEF TryNext, Answer, Forget, TypeOK
    <3>3. \A d \in Callers : d # c =>
            UNCHANGED <<stage[d], key[d], gathered[d], slice[d], verdict[d], results[d],
                        closed[d], ctxDone[d], lastErr[d]>>
      BY <2>5, <1>t DEF TryNext, Answer, Forget, TypeOK
    <3>4. /\ stage'[c] \in {"locking", "answered"} /\ key'[c] = key[c]
          /\ verdict'[c] = [i \in Slices |-> None]
          /\ results'[c] = <<>> /\ ~closed'[c] /\ ~ctxDone'[c] /\ lastErr'[c] = None
          /\ stage'[c] = "locking" => gathered'[c] = {}
      BY <2>5, <1>t DEF TryNext, Answer, Forget, TypeOK
    <3> QED
      BY <3>1, <3>2, <3>3, <3>4, <1>t DEF CallsAreClean
  <2>6. CASE Consume(c)
    BY <2>6, <1>t DEF Consume, TypeOK, CallsAreClean
  <2> QED
    BY <1>1, <2>1, <2>2, <2>3, <2>4, <2>5, <2>6 DEF CheckStep, CallStep
<1>2. ASSUME NEW c \in Callers, CloseResults(c) PROVE CallsAreClean'
  BY <1>2, <1>t DEF CloseResults, TypeOK, CallsAreClean
<1>3. ASSUME NEW c \in Callers, NEW i \in Slices, SliceStep(c, i) PROVE CallsAreClean'
  <2>1. stage[c] = "merging"
    BY <1>3, SliceIsMerged DEF SliceStep, SendSlice, DeliverSlice, CancelSiblings
  <2>2. /\ UNCHANGED <<stage, key, gathered, verdict, closed, lastErr>>
        /\ \A d \in Callers : d # c => UNCHANGED <<slice[d], results[d], ctxDone[d]>>
        /\ \A j \in Slices : slice'[c][j] = "none" => slice[c][j] = "none"
    BY <1>3, <1>t DEF SliceStep, SendSlice, DeliverSlice, CancelSiblings, TypeOK
  <2> QED
    BY <2>1, <2>2, <1>t DEF CallsAreClean
<1>4. ASSUME NEW w \in Workers, WorkerStep(w) PROVE CallsAreClean'
  <2>1. ASSUME Start(w) \/ \E v \in Verdicts : Finish(w, v) PROVE CallsAreClean'
    <3>1. UNCHANGED <<callVars, sliceVars, ctxDone>>
      BY <2>1 DEF Start, Finish
    <3> QED
      BY <3>1, <1>t DEF CallsAreClean
  <2>2. CASE Reply(w)
    <3> DEFINE c == job[w][1]
               i == job[w][2]
    <3>1. c \in Callers /\ i \in Slices /\ stage[c] = "merging"
      BY <2>2, WorkerJob DEF Reply, RangeInv, JobsAccounted
    <3>2. /\ UNCHANGED <<stage, key, gathered, results, closed, lastErr, ctxDone>>
          /\ \A d \in Callers : d # c => UNCHANGED <<slice[d], verdict[d]>>
          /\ \A j \in Slices : slice'[c][j] = "none" => slice[c][j] = "none"
      BY <2>2, <3>1, <1>t DEF Reply, TypeOK
    <3> QED
      BY <3>1, <3>2, <1>t DEF CallsAreClean
  <2> QED
    BY <1>4, <2>1, <2>2 DEF WorkerStep
<1>5. CASE CancelRun \/ Terminated \/ UNCHANGED vars
  <2>1. UNCHANGED <<callVars, sliceVars, ctxDone>>
    BY <1>5 DEF CancelRun, Terminated, vars
  <2> QED
    BY <2>1, <1>t DEF CallsAreClean
<1> QED
  BY <1>1, <1>2, <1>3, <1>4, <1>5 DEF Next

(* Steps of goroutines other than a caller's leave what a call asks, of    *)
(* which server, and its lock alone.                                       *)
LEMMA CallsUndisturbed ==
    ASSUME RangeInv,
           \/ \E c \in Callers : Merge(c) \/ CloseResults(c) \/ \E i \in Slices : SliceStep(c, i)
           \/ \E w \in Workers : WorkerStep(w)
           \/ CancelRun \/ Terminated \/ UNCHANGED vars
    PROVE  UNCHANGED <<callVars, locked>>
<1>1. ASSUME NEW c \in Callers, Merge(c) \/ CloseResults(c) \/ \E i \in Slices : SliceStep(c, i)
      PROVE  UNCHANGED <<callVars, locked>>
  BY <1>1 DEF Merge, CloseResults, SliceStep, SendSlice, DeliverSlice, CancelSiblings
<1>2. ASSUME NEW w \in Workers, WorkerStep(w)
      PROVE  UNCHANGED <<callVars, locked>>
  BY <1>2 DEF WorkerStep, Start, Finish, Reply
<1>3. CASE CancelRun \/ Terminated \/ UNCHANGED vars
  BY <1>3 DEF CancelRun, Terminated, vars
<1> QED
  BY <1>1, <1>2, <1>3

(* The lock of a key is taken by one call and dropped by the same.         *)
LEMMA LocksPreserved == RangeInv /\ [Next]_vars => OneCallPerKey'
<1> SUFFICES ASSUME RangeInv, [Next]_vars PROVE OneCallPerKey'
  OBVIOUS
<1>t. TypeOK /\ OneCallPerKey
  BY DEF RangeInv
<1>0. ASSUME UNCHANGED <<callVars, locked>> PROVE OneCallPerKey'
  BY <1>0, <1>t DEF OneCallPerKey
<1>1. ASSUME NEW c \in Callers, CheckStep(c) PROVE OneCallPerKey'
  <2>1. ASSUME NEW k \in Keys, Ask(c, k) PROVE OneCallPerKey'
    BY <2>1, <1>t DEF Ask, TypeOK, OneCallPerKey
  <2>2. CASE Stop(c)
    BY <2>2, <1>t DEF Stop, TypeOK, OneCallPerKey
  <2> QED
    BY <1>1, <2>1, <2>2 DEF CheckStep
<1>2. ASSUME NEW c \in Callers, CallStep(c) PROVE OneCallPerKey'
  <2>1. CASE Begin(c)
    <3>1. /\ UNCHANGED <<srv, key>> /\ key[c] \notin locked[srv[c]]
          /\ \A d \in Callers : d # c => stage'[d] = stage[d]
          /\ \A s \in Servers : locked[s] \subseteq locked'[s]
          /\ key[c] \in locked'[srv[c]]
      BY <2>1, <1>t DEF Begin, TypeOK
    <3>2. \A d \in Callers : srv[d] \in Servers
      BY <1>t DEF TypeOK
    <3> QED
      BY <3>1, <3>2, <1>t DEF OneCallPerKey
  <2>2. CASE Merge(c)
    BY <2>2, <1>0, CallsUndisturbed
  <2>3. CASE TryNext(c) \/ Answer(c)
    <3>1. /\ stage[c] = "merging" /\ stage'[c] # "merging" /\ key' = key
          /\ \A d \in Callers : d # c => stage'[d] = stage[d] /\ srv'[d] = srv[d]
      <4>1. CASE TryNext(c)
        BY <4>1, <1>t DEF TryNext, Merged, TypeOK
      <4>2. CASE Answer(c)
        BY <4>2, <1>t DEF Answer, Merged, TypeOK
      <4> QED
        BY <2>3, <4>1, <4>2
    <3>2. \A s \in Servers : \A k \in locked[s] :
            k \in locked'[s] \/ (s = srv[c] /\ k = key[c])
      <4>1. Unlock(c)
        BY <2>3 DEF TryNext, Answer
      <4> QED
        BY <4>1, <1>t DEF Unlock, TypeOK
    <3>3. \A d \in Callers : srv[d] \in Servers
      BY <1>t DEF TypeOK
    <3>4. ASSUME NEW d \in Callers, stage'[d] = "merging"
          PROVE  /\ stage[d] = "merging" /\ srv'[d] = srv[d] /\ key'[d] = key[d]
                 /\ key[d] \in locked'[srv[d]]
      <4>1. d # c /\ stage[d] = "merging" /\ srv'[d] = srv[d] /\ key'[d] = key[d]
        BY <3>1, <3>4
      <4>2. key[d] \in locked[srv[d]] /\ ~(srv[d] = srv[c] /\ key[d] = key[c])
        BY <3>1, <4>1, <1>t DEF OneCallPerKey
      <4> QED
        BY <3>2, <3>3, <4>1, <4>2
    <3> QED
      BY <3>4, <1>t DEF OneCallPerKey
  <2>4. CASE Consume(c)
    BY <2>4, <1>t DEF Consume, TypeOK, OneCallPerKey
  <2> QED
    BY <1>2, <2>1, <2>2, <2>3, <2>4 DEF CallStep
<1> QED
  BY <1>0, <1>1, <1>2, CallsUndisturbed DEF Next

(* Where the jobs are does not depend on the rest of the program, as long  *)
(* as a queued slice stays queued at its server.                           *)
LEMMA SameJobs ==
    ASSUME RangeInv, UNCHANGED <<queue, job>>,
           \A w \in Workers : /\ work'[w] = "idle" <=> work[w] = "idle"
                              /\ work'[w] = "reply" <=> got'[w] # None,
           \A j \in Jobs, s \in Servers : Awaits(j, s) => Awaits(j, s)'
    PROVE  JobsAccounted'
<1>1. TypeOK /\ JobsAccounted
  BY DEF RangeInv
<1>0. \A j \in Jobs, s \in Servers : Awaits(j, s) =>
        slice'[j[1]][j[2]] = "queued" /\ srv'[j[1]] = s
  BY DEF Awaits
<1>2. ASSUME NEW s \in Servers, NEW n \in 1..Len(queue[s])
      PROVE  Awaits(queue[s][n], s)'
  <2>1. queue[s] \in Seq(Jobs) /\ UNCHANGED queue
    BY <1>1 DEF TypeOK
  <2>2. queue[s][n] \in Jobs
    BY <2>1
  <2>3. slice'[queue[s][n][1]][queue[s][n][2]] = "queued" /\ srv'[queue[s][n][1]] = s
    BY <1>0, <1>1, <2>2 DEF JobsAccounted
  <2> QED
    BY <2>1, <2>3 DEF Awaits
<1>3. ASSUME NEW w \in Workers, work[w] # "idle"
      PROVE  Awaits(job[w], Home[w])'
  <2>1. job[w] # <<>> /\ Awaits(job[w], Home[w])
    BY <1>1, <1>3 DEF JobsAccounted
  <2>2. job[w] \in Jobs /\ Home[w] \in Servers
    BY <2>1, WorkerJob
  <2>3. slice'[job[w][1]][job[w][2]] = "queued" /\ srv'[job[w][1]] = Home[w]
    BY <1>0, <2>1, <2>2
  <2> QED
    BY <2>3 DEF Awaits
<1>4. /\ \A w \in Workers : (work'[w] = "idle" <=> job'[w] = <<>>)
                            /\ (work'[w] = "reply" <=> got'[w] # None)
      /\ \A s \in Servers : \A m, n \in 1..Len(queue'[s]) :
           queue'[s][m] = queue'[s][n] => m = n
      /\ \A w \in Workers : work'[w] # "idle" =>
           \A n \in 1..Len(queue'[Home[w]]) : queue'[Home[w]][n] # job'[w]
      /\ \A w, x \in Workers : work'[w] # "idle" /\ job'[w] = job'[x] => w = x
  BY <1>1 DEF JobsAccounted
<1> QED
  BY <1>2, <1>3, <1>4 DEF JobsAccounted

(* A slice that is queued stays so at its server until a worker replies.   *)
LEMMA QueuedStaysQueued ==
    ASSUME RangeInv, NEW c \in Callers,
           CheckStep(c) \/ CallStep(c) \/ CloseResults(c)
           \/ \E i \in Slices : SliceStep(c, i),
           NEW j \in Jobs, NEW s \in Servers, Awaits(j, s)
    PROVE  Awaits(j, s)'
<1>t. TypeOK
  BY DEF RangeInv
<1>1. /\ j[1] \in Callers /\ j[2] \in Slices
      /\ slice[j[1]][j[2]] = "queued" /\ srv[j[1]] = s /\ stage[j[1]] = "merging"
  BY JobsArePairs, SliceIsMerged DEF Awaits
<1> SUFFICES slice'[j[1]][j[2]] = "queued" /\ srv'[j[1]] = srv[j[1]]
  BY <1>1 DEF Awaits
<1>2. CASE CheckStep(c)
  BY <1>1, <1>2, <1>t DEF CheckStep, Ask, Stop
<1>3. CASE Begin(c) \/ Consume(c)
  BY <1>1, <1>3, <1>t DEF Begin, Consume, TypeOK
<1>4. CASE Merge(c) \/ CloseResults(c)
  BY <1>1, <1>4 DEF Merge, CloseResults
<1>5. CASE TryNext(c) \/ Answer(c)
  <2>1. j[1] # c
    BY <1>1, <1>5, ClosedIsDrained DEF TryNext, Answer, Merged
  <2> QED
    BY <1>1, <1>5, <2>1, <1>t DEF TryNext, Answer, Forget, TypeOK
<1>6. ASSUME NEW i \in Slices, SliceStep(c, i)
      PROVE  slice'[j[1]][j[2]] = "queued" /\ srv'[j[1]] = srv[j[1]]
  <2>1. slice[c][i] # "queued"
    BY <1>6 DEF SliceStep, SendSlice, DeliverSlice, CancelSiblings
  <2>2. ~(j[1] = c /\ j[2] = i)
    BY <1>1, <2>1
  <2>3. CASE SendSlice(c, i)
    BY <1>1, <2>2, <2>3, <1>t DEF SendSlice, TypeOK
  <2>4. CASE DeliverSlice(c, i)
    BY <1>1, <2>2, <2>4, <1>t DEF DeliverSlice, TypeOK
  <2>5. CASE CancelSiblings(c, i)
    BY <1>1, <2>2, <2>5, <1>t DEF CancelSiblings, TypeOK
  <2> QED
    BY <2>2, <2>3, <2>4, <2>5, <1>6 DEF SliceStep
<1> QED
  BY <1>2, <1>3, <1>4, <1>5, <1>6 DEF CallStep

(* Sending a slice puts one job at the end of its server's queue.          *)
LEMMA SendKeepsJobs ==
    ASSUME RangeInv, NEW c \in Callers, NEW i \in Slices, SendSlice(c, i)
    PROVE  JobsAccounted'
<1> DEFINE s == srv[c]
           q == queue[s]
           new == <<c, i>>
<1>t. TypeOK /\ JobsAccounted
  BY DEF RangeInv
<1>1. q \in Seq(Jobs) /\ s \in Servers /\ new \in Jobs
  BY <1>t DEF TypeOK, Jobs
<1>2. /\ queue' = [queue EXCEPT ![s] = Append(q, new)]
      /\ slice[c][i] = "sending" /\ slice' = [slice EXCEPT ![c][i] = "queued"]
      /\ UNCHANGED <<srv, work, job, got>>
  BY DEF SendSlice
<1>3. /\ Len(queue'[s]) = Len(q) + 1 /\ queue'[s][Len(q) + 1] = new
      /\ \A n \in 1..Len(q) : queue'[s][n] = q[n]
      /\ Len(q) \in Nat
  BY <1>1, <1>2, <1>t DEF TypeOK
<1>4. \A t \in Servers \ {s} : queue'[t] = queue[t]
  BY <1>2, <1>t DEF TypeOK
<1>5. ~Awaits(new, s) /\ \A t \in Servers : t = s => Awaits(new, t)'
  BY <1>2, <1>t DEF Awaits, TypeOK
<1>6. ASSUME NEW j \in Jobs, NEW t \in Servers, Awaits(j, t)
      PROVE  j # new /\ Awaits(j, t)'
  <2>1. j # new /\ j[1] \in Callers /\ j[2] \in Slices /\ ~(j[1] = c /\ j[2] = i)
    BY <1>2, <1>6, JobsArePairs DEF Awaits
  <2> QED
    BY <1>2, <1>6, <2>1, <1>t DEF Awaits, TypeOK
<1>7. \A t \in Servers : \A n \in 1..Len(queue[t]) : queue[t][n] \in Jobs
  BY <1>t DEF TypeOK
<1>8. ASSUME NEW t \in Servers, NEW n \in 1..Len(queue'[t])
      PROVE  Awaits(queue[t][n], t)'
  <2>0. ASSUME NEW j \in Jobs, Awaits(j, t)', queue'[t][n] = j
        PROVE  Awaits(queue[t][n], t)'
    BY <2>0 DEF Awaits
  <2>1. CASE t = s /\ n = Len(q) + 1
    BY <1>1, <1>3, <1>5, <2>0, <2>1
  <2>2. CASE t = s /\ n # Len(q) + 1
    <3>1. n \in 1..Len(q) /\ queue'[t][n] = q[n]
      BY <1>3, <1>8, <2>2
    <3>2. q[n] \in Jobs /\ Awaits(q[n], s)
      BY <1>1, <1>7, <3>1, <1>t DEF JobsAccounted
    <3> QED
      BY <1>6, <2>0, <2>2, <3>1, <3>2
  <2>3. CASE t # s
    <3>1. queue'[t] = queue[t] /\ n \in 1..Len(queue[t])
      BY <1>4, <1>8, <2>3
    <3>2. queue[t][n] \in Jobs /\ Awaits(queue[t][n], t)
      BY <1>7, <3>1, <1>t DEF JobsAccounted
    <3> QED
      BY <1>6, <2>0, <3>1, <3>2
  <2> QED
    BY <2>1, <2>2, <2>3
<1>9. ASSUME NEW t \in Servers, NEW m \in 1..Len(queue'[t]),
             NEW n \in 1..Len(queue'[t]), queue'[t][m] = queue'[t][n]
      PROVE  m = n
  <2>1. \A k \in 1..Len(q) : q[k] # new
    BY <1>1, <1>5, <1>t DEF JobsAccounted
  <2>2. CASE t = s
    <3>1. m \in 1..Len(q) + 1 /\ n \in 1..Len(q) + 1 /\ queue'[s][m] = queue'[s][n]
      BY <1>3, <1>9, <2>2
    <3>2. CASE m \in 1..Len(q) /\ n \in 1..Len(q)
      <4>1. q[m] = q[n]
        BY <1>3, <3>1, <3>2
      <4> QED
        BY <1>1, <3>2, <4>1, <1>t DEF JobsAccounted
    <3>3. CASE m = Len(q) + 1 /\ n # Len(q) + 1
      <4>1. n \in 1..Len(q)
        BY <1>3, <3>1, <3>3
      <4> QED
        BY <1>3, <2>1, <3>1, <3>3, <4>1
    <3>4. CASE n = Len(q) + 1 /\ m # Len(q) + 1
      <4>1. m \in 1..Len(q)
        BY <1>3, <3>1, <3>4
      <4> QED
        BY <1>3, <2>1, <3>1, <3>4, <4>1
    <3> QED
      BY <1>3, <3>1, <3>2, <3>3, <3>4
  <2>3. CASE t # s
    BY <1>4, <1>9, <2>3, <1>t DEF JobsAccounted
  <2> QED
    BY <2>2, <2>3
<1>10. ASSUME NEW w \in Workers, work'[w] # "idle"
       PROVE  /\ Awaits(job[w], Home[w])'
              /\ job[w] \in Jobs /\ job[w] # new
  <2>1. Home[w] \in Servers /\ work[w] # "idle" /\ job[w] # <<>> /\ Awaits(job[w], Home[w])
    BY <1>2, <1>10, <1>t DEF JobsAccounted
  <2>2. job[w] \in Jobs
    BY <2>1, WorkerJob
  <2>3. slice'[job[w][1]][job[w][2]] = "queued" /\ srv'[job[w][1]] = Home[w] /\ job[w] # new
    BY <1>6, <2>1, <2>2 DEF Awaits
  <2> QED
    BY <1>2, <2>2, <2>3 DEF Awaits
<1>11. ASSUME NEW w \in Workers, work'[w] # "idle", NEW n \in 1..Len(queue'[Home[w]])
       PROVE  queue'[Home[w]][n] # job'[w]
  <2>1. Home[w] \in Servers /\ work[w] # "idle" /\ job'[w] = job[w] /\ job[w] # new
    BY <1>2, <1>10, <1>11
  <2>2. CASE Home[w] = s
    <3>1. CASE n = Len(q) + 1
      BY <1>3, <2>1, <2>2, <3>1
    <3>2. CASE n # Len(q) + 1
      <4>1. n \in 1..Len(q) /\ queue'[Home[w]][n] = q[n]
        BY <1>3, <1>11, <2>2, <3>2
      <4> QED
        BY <2>1, <2>2, <4>1, <1>t DEF JobsAccounted
    <3> QED
      BY <3>1, <3>2
  <2>3. CASE Home[w] # s
    BY <1>4, <1>11, <2>1, <2>3, <1>t DEF JobsAccounted
  <2> QED
    BY <2>2, <2>3
<1>12. /\ \A w \in Workers : (work'[w] = "idle" <=> job'[w] = <<>>)
                             /\ (work'[w] = "reply" <=> got'[w] # None)
       /\ \A w, x \in Workers : work'[w] # "idle" /\ job'[w] = job'[x] => w = x
  BY <1>2, <1>t DEF JobsAccounted
<1> QED
  BY <1>8, <1>9, <1>10, <1>11, <1>12 DEF JobsAccounted

(* A worker takes the oldest job of its server's queue in hand.            *)
LEMMA StartKeepsJobs ==
    ASSUME RangeInv, NEW w \in Workers, Start(w)
    PROVE  JobsAccounted'
<1> DEFINE s == Home[w]
           q == queue[s]
<1>t. TypeOK /\ JobsAccounted
  BY DEF RangeInv
<1>1. q \in Seq(Jobs) /\ s \in Servers /\ q # <<>>
  BY <1>t DEF Start, TypeOK
<1>2. /\ queue' = [queue EXCEPT ![s] = Tail(q)]
      /\ job' = [job EXCEPT ![w] = Head(q)]
      /\ work[w] = "idle" /\ UNCHANGED <<srv, slice>>
  BY DEF Start
<1>3. /\ Len(q) \in Nat \ {0} /\ Len(queue'[s]) = Len(q) - 1
      /\ \A n \in 1..Len(q) - 1 : queue'[s][n] = q[n + 1]
      /\ job'[w] = q[1] /\ q[1] \in Jobs
  BY <1>1, <1>2, <1>t DEF TypeOK
<1>4. \A t \in Servers \ {s} : queue'[t] = queue[t]
  BY <1>2, <1>t DEF TypeOK
<1>5. /\ work'[w] \in {"running", "reply"}
      /\ work'[w] = "reply" <=> got'[w] # None
      /\ \A x \in Workers \ {w} : work'[x] = work[x] /\ job'[x] = job[x] /\ got'[x] = got[x]
  <2>1. got[w] = None
    BY <1>2, <1>t DEF JobsAccounted
  <2> QED
    BY <2>1, <1>t DEF Start, TypeOK
<1>6. Awaits(q[1], s)
  BY <1>1, <1>3, <1>t DEF JobsAccounted
<1>7. ASSUME NEW t \in Servers, NEW n \in 1..Len(queue'[t])
      PROVE  Awaits(queue'[t][n], t)
  <2>1. CASE t = s
    <3>1. n + 1 \in 1..Len(q) /\ queue'[t][n] = q[n + 1]
      BY <1>3, <1>7, <2>1
    <3> QED
      BY <2>1, <3>1, <1>t DEF JobsAccounted
  <2>2. CASE t # s
    BY <1>4, <1>7, <2>2, <1>t DEF JobsAccounted
  <2> QED
    BY <2>1, <2>2
<1>8. ASSUME NEW x \in Workers, work'[x] # "idle"
      PROVE  Awaits(job'[x], Home[x])
  <2>1. CASE x = w
    BY <1>3, <1>6, <2>1
  <2>2. CASE x # w
    BY <1>5, <1>8, <2>2, <1>t DEF JobsAccounted
  <2> QED
    BY <2>1, <2>2
<1>9. ASSUME NEW t \in Servers, NEW m \in 1..Len(queue'[t]),
             NEW n \in 1..Len(queue'[t]), queue'[t][m] = queue'[t][n]
      PROVE  m = n
  <2>1. CASE t = s
    <3>1. m + 1 \in 1..Len(q) /\ n + 1 \in 1..Len(q) /\ q[m + 1] = q[n + 1]
      BY <1>3, <1>9, <2>1
    <3>2. m + 1 = n + 1
      BY <1>1, <3>1, <1>t DEF JobsAccounted
    <3> QED
      BY <1>9, <2>1, <1>3, <3>2
  <2>2. CASE t # s
    BY <1>4, <1>9, <2>2, <1>t DEF JobsAccounted
  <2> QED
    BY <2>1, <2>2
<1>10. ASSUME NEW x \in Workers, work'[x] # "idle", NEW n \in 1..Len(queue'[Home[x]])
       PROVE  queue'[Home[x]][n] # job'[x]
  <2>1. CASE x = w
    <3>1. n + 1 \in 1..Len(q) /\ 1 \in 1..Len(q) /\ queue'[s][n] = q[n + 1]
      BY <1>3, <1>10, <2>1
    <3>2. n + 1 # 1
      BY <1>3, <1>10, <2>1
    <3>3. q[n + 1] # q[1]
      BY <1>1, <3>1, <3>2, <1>t DEF JobsAccounted
    <3> QED
      BY <1>3, <2>1, <3>1, <3>3
  <2>2. CASE x # w /\ Home[x] = s
    <3>1. n + 1 \in 1..Len(q) /\ queue'[s][n] = q[n + 1]
      BY <1>3, <1>10, <2>2
    <3> QED
      BY <1>5, <1>10, <2>2, <3>1, <1>t DEF JobsAccounted
  <2>3. CASE x # w /\ Home[x] # s
    <3>1. queue'[Home[x]] = queue[Home[x]]
      BY <1>4, <2>3
    <3> QED
      BY <1>5, <1>10, <2>3, <3>1, <1>t DEF JobsAccounted
  <2> QED
    BY <2>1, <2>2, <2>3
<1>11. ASSUME NEW x \in Workers, NEW y \in Workers, work'[x] # "idle", job'[x] = job'[y]
       PROVE  x = y
  <2>1. ASSUME NEW z \in Workers \ {w}, work[z] # "idle" PROVE job[z] # q[1]
    <3>1. CASE Home[z] = s
      BY <1>1, <1>3, <2>1, <3>1, <1>t DEF JobsAccounted
    <3>2. CASE Home[z] # s
      BY <1>6, <2>1, <3>2, <1>t DEF JobsAccounted, Awaits
    <3> QED
      BY <3>1, <3>2
  <2>2. \A z \in Workers : work[z] = "idle" => job[z] = <<>>
    BY <1>t DEF JobsAccounted
  <2>3. q[1] # <<>>
    BY <1>3, JobsArePairs
  <2>4. CASE x = w
    BY <1>3, <1>5, <1>11, <2>1, <2>2, <2>3, <2>4
  <2>5. CASE x # w
    BY <1>3, <1>5, <1>11, <2>1, <2>5, <1>t DEF JobsAccounted
  <2> QED
    BY <2>4, <2>5
<1>12. \A x \in Workers : (work'[x] = "idle" <=> job'[x] = <<>>)
                          /\ (work'[x] = "reply" <=> got'[x] # None)
  <2>1. q[1] # <<>>
    BY <1>3, JobsArePairs
  <2> QED
    BY <1>3, <1>5, <2>1, <1>t DEF JobsAccounted
<1>13. /\ \A t \in Servers : \A n \in 1..Len(queue'[t]) : Awaits(queue[t][n], t)'
       /\ \A x \in Workers : work'[x] # "idle" => Awaits(job[x], Home[x])'
  BY <1>2, <1>7, <1>8 DEF Awaits
<1> QED
  BY <1>9, <1>10, <1>11, <1>12, <1>13 DEF JobsAccounted

(* A worker that replies holds nothing, and the slice waits no more.       *)
LEMMA ReplyKeepsJobs ==
    ASSUME RangeInv, NEW w \in Workers, Reply(w)
    PROVE  JobsAccounted'
<1>t. TypeOK /\ JobsAccounted
  BY DEF RangeInv
<1>1. work[w] # "idle" /\ job[w] # <<>>
  BY <1>t DEF Reply, JobsAccounted
<1>2. /\ job[w] \in Jobs /\ job[w][1] \in Callers /\ job[w][2] \in Slices
      /\ job[w] = <<job[w][1], job[w][2]>> /\ Awaits(job[w], Home[w])
  BY <1>1, WorkerJob, <1>t DEF JobsAccounted
<1>3. /\ slice' = [slice EXCEPT ![job[w][1]][job[w][2]] = "delivering"]
      /\ job' = [job EXCEPT ![w] = <<>>]
      /\ work' = [work EXCEPT ![w] = "idle"]
      /\ got' = [got EXCEPT ![w] = None]
      /\ UNCHANGED <<srv, queue>>
  BY DEF Reply
<1>4. /\ work'[w] = "idle" /\ job'[w] = <<>> /\ got'[w] = None
      /\ \A x \in Workers \ {w} : work'[x] = work[x] /\ job'[x] = job[x] /\ got'[x] = got[x]
  BY <1>3, <1>t DEF TypeOK
<1>5. ASSUME NEW j \in Jobs, NEW s \in Servers, Awaits(j, s), j # job[w]
      PROVE  slice'[j[1]][j[2]] = "queued" /\ srv'[j[1]] = s
  <2>1. j[1] \in Callers /\ j[2] \in Slices /\ ~(j[1] = job[w][1] /\ j[2] = job[w][2])
    BY <1>2, <1>5, JobsArePairs
  <2> QED
    BY <1>2, <1>3, <1>5, <2>1, <1>t DEF Awaits, TypeOK
<1>6. ASSUME NEW s \in Servers, NEW n \in 1..Len(queue[s])
      PROVE  Awaits(queue[s][n], s)'
  <2>1. queue[s][n] \in Jobs /\ Awaits(queue[s][n], s)
    BY <1>t DEF TypeOK, JobsAccounted
  <2>2. queue[s][n] # job[w]
    <3>1. CASE s = Home[w]
      BY <1>1, <3>1, <1>t DEF JobsAccounted
    <3>2. CASE s # Home[w]
      BY <1>2, <2>1, <3>2 DEF Awaits
    <3> QED
      BY <3>1, <3>2
  <2>3. slice'[queue[s][n][1]][queue[s][n][2]] = "queued" /\ srv'[queue[s][n][1]] = s
    BY <1>5, <2>1, <2>2
  <2> QED
    BY <1>3, <2>3 DEF Awaits
<1>7. ASSUME NEW x \in Workers, work'[x] # "idle"
      PROVE  Awaits(job[x], Home[x])'
  <2>1. x # w /\ work[x] # "idle" /\ job'[x] = job[x]
    BY <1>4, <1>7
  <2>2. job[x] \in Jobs /\ Awaits(job[x], Home[x]) /\ job[x] # job[w] /\ Home[x] \in Servers
    BY <2>1, <1>t DEF JobsAccounted, TypeOK
  <2>3. slice'[job[x][1]][job[x][2]] = "queued" /\ srv'[job[x][1]] = Home[x]
    BY <1>5, <2>2
  <2> QED
    BY <2>1, <2>3 DEF Awaits
<1>8. /\ \A x \in Workers : (work'[x] = "idle" <=> job'[x] = <<>>)
                            /\ (work'[x] = "reply" <=> got'[x] # None)
      /\ \A s \in Servers : \A m, n \in 1..Len(queue'[s]) :
           queue'[s][m] = queue'[s][n] => m = n
  BY <1>3, <1>4, <1>t DEF JobsAccounted
<1>9. /\ \A x \in Workers : work'[x] # "idle" =>
           \A n \in 1..Len(queue'[Home[x]]) : queue'[Home[x]][n] # job'[x]
      /\ \A x, y \in Workers : work'[x] # "idle" /\ job'[x] = job'[y] => x = y
  BY <1>3, <1>4, <1>t DEF JobsAccounted
<1> QED
  BY <1>3, <1>6, <1>7, <1>8, <1>9 DEF JobsAccounted

(* Every job is of a queued slice, once, wherever it is.                   *)
LEMMA JobsPreserved == RangeInv /\ [Next]_vars => JobsAccounted'
<1> SUFFICES ASSUME RangeInv, [Next]_vars PROVE JobsAccounted'
  OBVIOUS
<1>t. TypeOK /\ JobsAccounted
  BY DEF RangeInv
<1>0. ASSUME UNCHANGED <<queue, work, job, got>>,
             \A j \in Jobs, s \in Servers : Awaits(j, s) => Awaits(j, s)'
      PROVE  JobsAccounted'
  <2>1. \A w \in Workers : (work'[w] = "idle" <=> work[w] = "idle")
                           /\ (work'[w] = "reply" <=> got'[w] # None)
    BY <1>0, <1>t DEF JobsAccounted
  <2> QED
    BY <1>0, <2>1, SameJobs
<1>1. ASSUME NEW c \in Callers,
             CheckStep(c) \/ CallStep(c) \/ CloseResults(c) \/ \E i \in Slices : SliceStep(c, i)
      PROVE  JobsAccounted'
  <2>1. ASSUME NEW i \in Slices, SendSlice(c, i) PROVE JobsAccounted'
    BY <2>1, SendKeepsJobs
  <2>2. ASSUME UNCHANGED <<queue, work, job, got>> PROVE JobsAccounted'
    BY <1>0, <1>1, <2>2, QueuedStaysQueued
  <2>3. ASSUME CheckStep(c) \/ CallStep(c) \/ CloseResults(c)
        PROVE  UNCHANGED <<queue, work, job, got>>
    BY <2>3 DEF CheckStep, Ask, Stop, CallStep, Begin, Merge, TryNext, Answer, Consume,
                CloseResults
  <2>4. ASSUME NEW i \in Slices, DeliverSlice(c, i) \/ CancelSiblings(c, i)
        PROVE  UNCHANGED <<queue, work, job, got>>
    BY <2>4 DEF DeliverSlice, CancelSiblings
  <2> QED
    BY <1>1, <2>1, <2>2, <2>3, <2>4 DEF SliceStep
<1>2. ASSUME NEW w \in Workers, WorkerStep(w) PROVE JobsAccounted'
  <2>1. ASSUME NEW v \in Verdicts, Finish(w, v) PROVE JobsAccounted'
    <3>1. UNCHANGED <<queue, job, slice, srv>>
      BY <2>1 DEF Finish
    <3>2. \A x \in Workers : (work'[x] = "idle" <=> work[x] = "idle")
                             /\ (work'[x] = "reply" <=> got'[x] # None)
      BY <2>1, <1>t DEF Finish, TypeOK, JobsAccounted
    <3>3. \A j \in Jobs, s \in Servers : Awaits(j, s) => Awaits(j, s)'
      BY <3>1 DEF Awaits
    <3> QED
      BY <3>1, <3>2, <3>3, SameJobs
  <2> QED
    BY <1>2, <2>1, StartKeepsJobs, ReplyKeepsJobs DEF WorkerStep
<1>3. CASE CancelRun \/ Terminated \/ UNCHANGED vars
  <2>1. UNCHANGED <<queue, work, job, got, slice, srv>>
    BY <1>3 DEF CancelRun, Terminated, vars
  <2>2. \A j \in Jobs, s \in Servers : Awaits(j, s) => Awaits(j, s)'
    BY <2>1 DEF Awaits
  <2> QED
    BY <1>0, <2>1, <2>2
<1> QED
  BY <1>1, <1>2, <1>3 DEF Next

(* The count of a call does not change with the rest of the program.       *)
LEMMA SameCount ==
    ASSUME RangeInv, NEW c \in Callers,
           UNCHANGED <<slice[c], verdict[c], results[c], pending[c], closed[c]>>
    PROVE  Counted(c)'
<1>1. Counted(c)
  BY DEF RangeInv, WaitGroupExact
<1>2. Underway(c)' = Underway(c) /\ Delivered(c)' = Delivered(c)
  BY DEF Underway, Delivered
<1> QED
  BY <1>1, <1>2 DEF Counted

(* Taking a result off the channel takes its slice off the count.          *)
LEMMA MergeCounts ==
    ASSUME RangeInv, NEW c \in Callers, Merge(c)
    PROVE  /\ Counted(c)'
           /\ Head(results[c]) \in Delivered(c)
           /\ Delivered(c)' = Delivered(c) \ {Head(results[c])}
<1> DEFINE r == results[c]
           h == Head(r)
<1>t. TypeOK /\ Counted(c)
  BY DEF RangeInv, WaitGroupExact
<1>1. r \in Seq(Slices) /\ r # <<>> /\ h = r[1] /\ Len(r) \in Nat \ {0}
      /\ DOMAIN r = 1..Len(r)
  BY <1>t DEF Merge, TypeOK
<1>2. results'[c] = Tail(r) /\ pending'[c] = pending[c] - 1
      /\ UNCHANGED <<slice, verdict, closed>>
  BY <1>t DEF Merge, TypeOK
<1>3. /\ Len(Tail(r)) = Len(r) - 1 /\ DOMAIN Tail(r) = 1..Len(r) - 1
      /\ \A n \in 1..Len(r) - 1 : Tail(r)[n] = r[n + 1]
  BY <1>1
<1>4. h \in Delivered(c)
  BY <1>1 DEF Delivered
<1>5. Delivered(c)' = Delivered(c) \ {h}
  <2>1. Delivered(c)' = {Tail(r)[n] : n \in 1..Len(r) - 1}
    BY <1>2, <1>3 DEF Delivered
  <2>2. ASSUME NEW n \in 1..Len(r) - 1 PROVE Tail(r)[n] \in Delivered(c) \ {h}
    <3>1. n + 1 \in DOMAIN r /\ 1 \in DOMAIN r /\ n + 1 # 1 /\ Tail(r)[n] = r[n + 1]
      BY <1>1, <1>3
    <3> QED
      BY <1>1, <1>t, <3>1 DEF Counted, Delivered
  <2>3. ASSUME NEW x \in Delivered(c), x # h PROVE \E n \in 1..Len(r) - 1 : Tail(r)[n] = x
    <3>1. PICK m \in 1..Len(r) : r[m] = x
      BY <1>1 DEF Delivered
    <3>2. m - 1 \in 1..Len(r) - 1 /\ (m - 1) + 1 = m
      BY <1>1, <2>3, <3>1
    <3>3. Tail(r)[m - 1] = r[m]
      BY <1>3, <3>2
    <3> QED
      BY <3>1, <3>2, <3>3
  <2> QED
    BY <2>1, <2>2, <2>3
<1>6. Underway(c)' = Underway(c)
  BY <1>2 DEF Underway
<1>7. pending'[c] = Cardinality(Underway(c)' \cup Delivered(c)')
  <2> DEFINE U == Underway(c) \cup Delivered(c)
  <2>1. IsFiniteSet(U)
    <3>1. U \subseteq Slices
      BY <1>1 DEF Underway, Delivered
    <3> QED
      BY <3>1, FS_Subset
  <2>2. Cardinality(U \ {h}) = Cardinality(U) - 1
    BY <1>4, <2>1, FS_RemoveElement
  <2>3. Underway(c)' \cup Delivered(c)' = U \ {h}
    BY <1>4, <1>5, <1>6, <1>t DEF Counted
  <2> QED
    BY <1>2, <1>t, <2>2, <2>3 DEF Counted
<1>8. \A m, n \in DOMAIN results'[c] : results'[c][m] = results'[c][n] => m = n
  <2> SUFFICES ASSUME NEW m \in 1..Len(r) - 1, NEW n \in 1..Len(r) - 1,
                      r[m + 1] = r[n + 1]
               PROVE  m = n
    BY <1>2, <1>3
  <2>1. m + 1 \in DOMAIN r /\ n + 1 \in DOMAIN r
    BY <1>1
  <2>2. m + 1 = n + 1
    BY <2>1, <1>t DEF Counted
  <2> QED
    BY <1>1, <2>2
<1>9. ~closed'[c]
  BY <1>2, ClosedIsDrained DEF Merge
<1>10. Delivered(c)' \cap Underway(c)' = {}
  BY <1>5, <1>6, <1>t DEF Counted
<1>11. \A i \in Slices :
         /\ slice'[c][i] \in {"delivering", "cancelling", "done"} => verdict'[c][i] # None
         /\ slice'[c][i] = "cancelling" => verdict'[c][i] # "ok"
  BY <1>2, <1>t DEF Counted
<1> QED
  BY <1>4, <1>5, <1>7, <1>8, <1>9, <1>10, <1>11 DEF Counted

(* A slice that delivers moves from those underway to the channel.         *)
LEMMA DeliverCounts ==
    ASSUME RangeInv, NEW c \in Callers, NEW i \in Slices, DeliverSlice(c, i)
    PROVE  Counted(c)' /\ Delivered(c)' = Delivered(c) \cup {i}
<1> DEFINE r == results[c]
<1>t. TypeOK /\ Counted(c)
  BY DEF RangeInv, WaitGroupExact
<1>1. r \in Seq(Slices) /\ Len(r) \in Nat /\ DOMAIN r = 1..Len(r)
  BY <1>t DEF TypeOK
<1>2. /\ results'[c] = Append(r, i) /\ pending'[c] = pending[c]
      /\ UNCHANGED <<verdict, closed>> /\ slice[c][i] = "delivering"
      /\ slice'[c][i] = IF verdict[c][i] = "ok" THEN "done" ELSE "cancelling"
      /\ \A j \in Slices \ {i} : slice'[c][j] = slice[c][j]
  BY <1>t DEF DeliverSlice, TypeOK
<1>3. /\ DOMAIN Append(r, i) = 1..Len(r) + 1 /\ Append(r, i)[Len(r) + 1] = i
      /\ \A n \in 1..Len(r) : Append(r, i)[n] = r[n]
  BY <1>1
<1>4. Delivered(c)' = Delivered(c) \cup {i}
  <2>1. Delivered(c)' = {Append(r, i)[n] : n \in 1..Len(r) + 1}
    BY <1>2, <1>3 DEF Delivered
  <2>2. ASSUME NEW n \in 1..Len(r) + 1 PROVE Append(r, i)[n] \in Delivered(c) \cup {i}
    BY <1>1, <1>3 DEF Delivered
  <2>3. ASSUME NEW x \in Delivered(c) \cup {i}
        PROVE  \E n \in 1..Len(r) + 1 : Append(r, i)[n] = x
    BY <1>1, <1>3 DEF Delivered
  <2> QED
    BY <2>1, <2>2, <2>3
<1>5. Underway(c)' = Underway(c) \ {i} /\ i \in Underway(c)
  BY <1>2 DEF Underway
<1>6. Underway(c)' \cup Delivered(c)' = Underway(c) \cup Delivered(c)
  BY <1>4, <1>5
<1>7. i \notin Delivered(c)
  BY <1>5, <1>t DEF Counted
<1>8. \A m, n \in DOMAIN results'[c] : results'[c][m] = results'[c][n] => m = n
  <2>1. \A n \in 1..Len(r) : r[n] # i
    BY <1>1, <1>7 DEF Delivered
  <2> SUFFICES ASSUME NEW m \in 1..Len(r) + 1, NEW n \in 1..Len(r) + 1,
                      Append(r, i)[m] = Append(r, i)[n]
               PROVE  m = n
    BY <1>2, <1>3
  <2>2. CASE m \in 1..Len(r) /\ n \in 1..Len(r)
    BY <1>1, <1>3, <2>2, <1>t DEF Counted
  <2>3. CASE m = Len(r) + 1 /\ n \in 1..Len(r)
    BY <1>1, <1>3, <2>1, <2>3
  <2>4. CASE n = Len(r) + 1 /\ m \in 1..Len(r)
    BY <1>1, <1>3, <2>1, <2>4
  <2> QED
    BY <1>1, <2>2, <2>3, <2>4
<1>9. \A j \in Slices :
         /\ slice'[c][j] \in {"delivering", "cancelling", "done"} => verdict'[c][j] # None
         /\ slice'[c][j] = "cancelling" => verdict'[c][j] # "ok"
  BY <1>2, <1>t DEF Counted
<1>10. closed'[c] => pending'[c] = 0
  BY <1>2, <1>t DEF Counted
<1>11. Delivered(c)' \cap Underway(c)' = {}
  BY <1>4, <1>5, <1>t DEF Counted
<1>12. pending'[c] = Cardinality(Underway(c)' \cup Delivered(c)')
  BY <1>2, <1>6, <1>t DEF Counted
<1> QED
  BY <1>4, <1>8, <1>9, <1>10, <1>11, <1>12 DEF Counted

(* A finished attempt leaves nothing behind.                               *)
LEMMA ForgetClears ==
    ASSUME RangeInv, NEW c \in Callers, TryNext(c) \/ Answer(c)
    PROVE  /\ \A i \in Slices : slice'[c][i] = "none" /\ verdict'[c][i] = None
           /\ results'[c] = <<>> /\ pending'[c] = 0 /\ ~closed'[c]
           /\ lastErr'[c] = None /\ ~ctxDone'[c]
           /\ \A d \in Callers \ {c} :
                UNCHANGED <<slice[d], verdict[d], results[d], pending[d], closed[d],
                            lastErr[d], ctxDone[d], stage[d], srv[d], answer[d],
                            gathered[d]>>
           /\ UNCHANGED <<key, parentDone, poolVars>>
<1>t. TypeOK
  BY DEF RangeInv
<1>1. closed[c] /\ Forget(c)
  BY DEF TryNext, Answer, Merged
<1>2. \A i \in Slices : slice[c][i] \in {"cancelling", "done"}
  BY <1>1, ClosedIsDrained
<1>3. \A i \in Slices : slice'[c][i] = "none" /\ verdict'[c][i] = None
  BY <1>1, <1>2, <1>t DEF Forget, TypeOK
<1>4. /\ results'[c] = <<>> /\ pending'[c] = 0 /\ ~closed'[c]
      /\ lastErr'[c] = None /\ ~ctxDone'[c]
      /\ \A d \in Callers \ {c} :
           UNCHANGED <<slice[d], verdict[d], results[d], pending[d], closed[d],
                       lastErr[d], ctxDone[d]>>
  BY <1>1, <1>t DEF Forget, TypeOK
<1>5. \A d \in Callers \ {c} : UNCHANGED <<stage[d], srv[d], answer[d], gathered[d]>>
  <2>1. CASE TryNext(c)
    BY <2>1, <1>t DEF TryNext, TypeOK
  <2>2. CASE Answer(c)
    BY <2>2, <1>t DEF Answer, TypeOK
  <2> QED
    BY <2>1, <2>2
<1>6. UNCHANGED <<key, parentDone, poolVars>>
  BY DEF TryNext, Answer
<1> QED
  BY <1>3, <1>4, <1>5, <1>6

(* The WaitGroup stays exact, so results is closed neither early nor never.*)
LEMMA CountsPreserved == RangeInv /\ [Next]_vars => WaitGroupExact'
<1> SUFFICES ASSUME RangeInv, [Next]_vars, NEW d \in Callers PROVE Counted(d)'
  BY DEF WaitGroupExact
<1>t. TypeOK /\ Counted(d)
  BY DEF RangeInv, WaitGroupExact
<1>0. ASSUME UNCHANGED <<slice[d], verdict[d], results[d], pending[d], closed[d]>>
      PROVE  Counted(d)'
  BY <1>0, SameCount
<1>1. ASSUME NEW c \in Callers, CheckStep(c) PROVE Counted(d)'
  BY <1>0, <1>1 DEF CheckStep, Ask, Stop
<1>2. ASSUME NEW c \in Callers, CallStep(c) \/ CloseResults(c) PROVE Counted(d)'
  <2>1. CASE d # c
    <3>1. CASE TryNext(c) \/ Answer(c)
      BY <1>0, <2>1, <3>1, ForgetClears
    <3>2. CASE Begin(c) \/ Merge(c) \/ Consume(c) \/ CloseResults(c)
      BY <1>0, <2>1, <3>2, <1>t DEF Begin, Merge, Consume, CloseResults, TypeOK
    <3> QED
      BY <1>2, <3>1, <3>2 DEF CallStep
  <2>2. CASE d = c /\ Begin(c)
    <3>1. /\ results'[d] = <<>> /\ ~closed'[d] /\ pending'[d] = Cardinality(Slices)
          /\ \A i \in Slices : slice'[d][i] = "sending"
      BY <2>2, <1>t DEF Begin, TypeOK, RangeInv, CallsAreClean
    <3>2. Underway(d)' = Slices /\ Delivered(d)' = {}
      BY <3>1 DEF Underway, Delivered
    <3> QED
      BY <3>1, <3>2 DEF Counted
  <2>3. CASE d = c /\ Merge(c)
    BY <2>3, MergeCounts
  <2>4. CASE d = c /\ (TryNext(c) \/ Answer(c))
    <3>1. /\ \A i \in Slices : slice'[d][i] = "none"
          /\ results'[d] = <<>> /\ pending'[d] = 0 /\ ~closed'[d]
      BY <2>4, ForgetClears
    <3>2. Underway(d)' \cup Delivered(d)' = {}
      BY <3>1 DEF Underway, Delivered
    <3>3. Delivered(d)' \cap Underway(d)' = {}
          /\ pending'[d] = Cardinality(Underway(d)' \cup Delivered(d)')
      BY <3>1, <3>2, FS_EmptySet
    <3> QED
      BY <3>1, <3>3 DEF Counted
  <2>5. CASE Consume(c)
    BY <1>0, <2>5 DEF Consume
  <2>6. CASE d = c /\ CloseResults(c)
    <3>1. UNCHANGED <<slice, verdict, results, pending>> /\ pending[d] = 0
      BY <2>6 DEF CloseResults
    <3>2. Underway(d)' = Underway(d) /\ Delivered(d)' = Delivered(d)
      BY <3>1 DEF Underway, Delivered
    <3> QED
      BY <3>1, <3>2, <1>t DEF Counted
  <2> QED
    BY <1>2, <2>1, <2>2, <2>3, <2>4, <2>5, <2>6 DEF CallStep
<1>3. ASSUME NEW c \in Callers, NEW i \in Slices, SliceStep(c, i) PROVE Counted(d)'
  <2>1. CASE d # c
    BY <1>0, <1>3, <2>1, <1>t DEF SliceStep, SendSlice, DeliverSlice, CancelSiblings, TypeOK
  <2>2. CASE d = c /\ DeliverSlice(c, i)
    BY <2>2, DeliverCounts
  <2>3. CASE d = c /\ (SendSlice(c, i) \/ CancelSiblings(c, i))
    <3>1. /\ UNCHANGED <<verdict, results, pending, closed>>
          /\ \A j \in Slices \ {i} : slice'[d][j] = slice[d][j]
          /\ \/ slice[d][i] = "sending" /\ slice'[d][i] = "queued"
             \/ slice[d][i] = "cancelling" /\ slice'[d][i] = "done"
      BY <2>3, <1>t DEF SendSlice, CancelSiblings, TypeOK
    <3>2. Underway(d)' = Underway(d) /\ Delivered(d)' = Delivered(d)
      BY <3>1 DEF Underway, Delivered
    <3> QED
      BY <3>1, <3>2, <1>t DEF Counted
  <2> QED
    BY <1>3, <2>1, <2>2, <2>3 DEF SliceStep
<1>4. ASSUME NEW w \in Workers, WorkerStep(w) PROVE Counted(d)'
  <2>1. ASSUME Start(w) \/ \E v \in Verdicts : Finish(w, v) PROVE Counted(d)'
    BY <1>0, <2>1 DEF Start, Finish
  <2>2. CASE Reply(w)
    <3> DEFINE c == job[w][1]
               i == job[w][2]
    <3>0. work[w] = "reply" /\ job[w] # <<>> /\ got[w] # None
      BY <2>2 DEF Reply, RangeInv, JobsAccounted
    <3>1. /\ c \in Callers /\ i \in Slices /\ slice[c][i] = "queued"
          /\ got[w] \in Verdicts
      BY <3>0, WorkerJob, <1>t DEF TypeOK
    <3>2. CASE d # c
      BY <1>0, <2>2, <3>1, <3>2, <1>t DEF Reply, TypeOK
    <3>3. CASE d = c
      <4>1. /\ UNCHANGED <<results, pending, closed>>
            /\ slice'[d][i] = "delivering" /\ verdict'[d][i] = got[w]
            /\ \A j \in Slices \ {i} : slice'[d][j] = slice[d][j]
                                       /\ verdict'[d][j] = verdict[d][j]
        BY <2>2, <3>1, <3>3, <1>t DEF Reply, TypeOK
      <4>2. Underway(d)' = Underway(d) /\ Delivered(d)' = Delivered(d)
        BY <3>1, <3>3, <4>1 DEF Underway, Delivered
      <4> QED
        BY <3>1, <4>1, <4>2, <1>t DEF Counted
    <3> QED
      BY <3>2, <3>3
  <2> QED
    BY <1>4, <2>1, <2>2 DEF WorkerStep
<1>5. CASE CancelRun \/ Terminated \/ UNCHANGED vars
  BY <1>0, <1>5 DEF CancelRun, Terminated, vars
<1> QED
  BY <1>1, <1>2, <1>3, <1>4, <1>5 DEF Next

(* A failed slice stays failed for as long as the attempt lasts.           *)
LEMMA FailureStays ==
    ASSUME RangeInv, [Next]_vars, NEW d \in Callers, Failed(d),
           ~(TryNext(d) \/ Answer(d))
    PROVE  Failed(d)'
<1>t. TypeOK
  BY DEF RangeInv
<1>1. PICK i \in Slices : /\ slice[d][i] \in {"cancelling", "done"}
                          /\ verdict[d][i] \in {"unavailable", "rejected", "truncated"}
  BY DEF Failed
<1>2. stage[d] = "merging"
  BY <1>1, SliceIsMerged
<1> SUFFICES slice'[d][i] \in {"cancelling", "done"} /\ verdict'[d][i] = verdict[d][i]
  BY <1>1 DEF Failed
<1>0. ASSUME UNCHANGED <<slice[d], verdict[d]>>
      PROVE  slice'[d][i] \in {"cancelling", "done"} /\ verdict'[d][i] = verdict[d][i]
  BY <1>0, <1>1
<1>3. ASSUME NEW c \in Callers, CheckStep(c) \/ CallStep(c) \/ CloseResults(c)
      PROVE  UNCHANGED <<slice[d], verdict[d]>>
  <2>1. CASE CheckStep(c) \/ Merge(c) \/ Consume(c) \/ CloseResults(c)
    BY <2>1 DEF CheckStep, Ask, Stop, Merge, Consume, CloseResults
  <2>2. CASE Begin(c)
    BY <1>2, <2>2, <1>t DEF Begin, TypeOK
  <2>3. CASE TryNext(c) \/ Answer(c)
    BY <2>3, ForgetClears
  <2> QED
    BY <1>3, <2>1, <2>2, <2>3 DEF CallStep
<1>4. ASSUME NEW c \in Callers, NEW j \in Slices, SliceStep(c, j)
      PROVE  slice'[d][i] \in {"cancelling", "done"} /\ verdict'[d][i] = verdict[d][i]
  <2>1. CASE SendSlice(c, j)
    BY <1>1, <2>1, <1>t DEF SendSlice, TypeOK
  <2>2. CASE DeliverSlice(c, j)
    BY <1>1, <2>2, <1>t DEF DeliverSlice, TypeOK
  <2>3. CASE CancelSiblings(c, j)
    BY <1>1, <2>3, <1>t DEF CancelSiblings, TypeOK
  <2> QED
    BY <1>4, <2>1, <2>2, <2>3 DEF SliceStep
<1>5. ASSUME NEW w \in Workers, WorkerStep(w)
      PROVE  slice'[d][i] \in {"cancelling", "done"} /\ verdict'[d][i] = verdict[d][i]
  <2>1. ASSUME Start(w) \/ \E v \in Verdicts : Finish(w, v)
        PROVE  UNCHANGED <<slice[d], verdict[d]>>
    BY <2>1 DEF Start, Finish
  <2>2. CASE Reply(w)
    BY <1>1, <2>2, <1>t DEF Reply, TypeOK
  <2> QED
    BY <1>0, <1>5, <2>1, <2>2 DEF WorkerStep
<1>6. ASSUME CancelRun \/ Terminated \/ UNCHANGED vars
      PROVE  UNCHANGED <<slice[d], verdict[d]>>
  BY <1>6 DEF CancelRun, Terminated, vars
<1> QED
  BY <1>0, <1>3, <1>4, <1>5, <1>6 DEF Next

(* The first cancellation a call sees is that of a slice that failed.      *)
LEMMA FirstCancel ==
    ASSUME RangeInv, [Next]_vars, ~parentDone, NEW d \in Callers,
           SeesCancel(d)', ~SeesCancel(d), ~(TryNext(d) \/ Answer(d))
    PROVE  Failed(d)
<1>t. TypeOK
  BY DEF RangeInv
<1>0. ASSUME UNCHANGED <<ctxDone[d], verdict[d], job, got>> PROVE FALSE
  BY <1>0 DEF SeesCancel
<1>1. ASSUME NEW c \in Callers, CheckStep(c) \/ CallStep(c) \/ CloseResults(c) PROVE FALSE
  <2>1. CASE CheckStep(c) \/ Merge(c) \/ Consume(c) \/ CloseResults(c) \/ Begin(c)
    BY <1>0, <2>1 DEF CheckStep, Ask, Stop, Merge, Consume, CloseResults, Begin
  <2>2. CASE TryNext(c) \/ Answer(c)
    BY <1>0, <2>2, ForgetClears
  <2> QED
    BY <1>1, <2>1, <2>2 DEF CallStep
<1>2. ASSUME NEW c \in Callers, NEW i \in Slices, SliceStep(c, i) PROVE Failed(d)
  <2>1. CASE SendSlice(c, i) \/ DeliverSlice(c, i)
    BY <1>0, <2>1 DEF SendSlice, DeliverSlice
  <2>2. CASE CancelSiblings(c, i) /\ c # d
    BY <1>0, <2>2, <1>t DEF CancelSiblings, TypeOK
  <2>3. CASE CancelSiblings(c, i) /\ c = d
    <3>1. slice[d][i] = "cancelling"
      BY <2>3 DEF CancelSiblings
    <3>2. verdict[d][i] \in Verdicts \ {"ok", "canceled"}
      <4>1. verdict[d][i] # None /\ verdict[d][i] # "ok"
        BY <3>1 DEF RangeInv, WaitGroupExact, Counted
      <4>2. verdict[d][i] # "canceled"
        BY DEF SeesCancel
      <4> QED
        BY <4>1, <4>2, <1>t DEF TypeOK
    <3> QED
      BY <3>1, <3>2 DEF Failed
  <2> QED
    BY <1>2, <2>1, <2>2, <2>3 DEF SliceStep
<1>3. ASSUME NEW w \in Workers, WorkerStep(w) PROVE FALSE
  <2>1. CASE Start(w)
    <3> DEFINE j == Head(queue[Home[w]])
    <3>1. /\ UNCHANGED <<ctxDone, verdict>>
          /\ job'[w] = j
          /\ got'[w] = "canceled" => got[w] = "canceled" \/ Done(j[1])
          /\ \A x \in Workers \ {w} : job'[x] = job[x] /\ got'[x] = got[x]
      BY <2>1, <1>t DEF Start, TypeOK
    <3>2. got[w] = None
      BY <2>1 DEF Start, RangeInv, JobsAccounted
    <3>3. ~ctxDone'[d] /\ \A i \in Slices : verdict'[d][i] # "canceled"
      BY <3>1 DEF SeesCancel
    <3>4. PICK x \in Workers : job'[x] # <<>> /\ job'[x][1] = d /\ got'[x] = "canceled"
      BY <3>3 DEF SeesCancel
    <3>5. x = w
      BY <3>1, <3>4 DEF SeesCancel
    <3> QED
      <4>1. j[1] = d /\ got'[w] = "canceled"
        BY <3>1, <3>4, <3>5
      <4>2. Done(d)
        BY <3>1, <3>2, <4>1
      <4> QED
        BY <4>2 DEF SeesCancel, Done
  <2>2. ASSUME NEW v \in Verdicts, Finish(w, v) PROVE FALSE
    <3>1. /\ UNCHANGED <<ctxDone, verdict, job>>
          /\ got'[w] = "canceled" => Done(job[w][1])
          /\ \A x \in Workers \ {w} : got'[x] = got[x]
      BY <2>2, <1>t DEF Finish, TypeOK
    <3>2. ~ctxDone'[d] /\ \A i \in Slices : verdict'[d][i] # "canceled"
      BY <3>1 DEF SeesCancel
    <3>3. PICK x \in Workers : job'[x] # <<>> /\ job'[x][1] = d /\ got'[x] = "canceled"
      BY <3>2 DEF SeesCancel
    <3>4. x = w
      BY <3>1, <3>3 DEF SeesCancel
    <3> QED
      BY <3>1, <3>3, <3>4 DEF SeesCancel, Done
  <2>3. CASE Reply(w)
    <3> DEFINE c == job[w][1]
               i == job[w][2]
    <3>1. job[w] # <<>>
      BY <2>3 DEF Reply, RangeInv, JobsAccounted
    <3>2. c \in Callers /\ i \in Slices
      BY <3>1, WorkerJob
    <3>3. /\ ctxDone' = ctxDone
          /\ \A j \in Slices : verdict'[d][j] = verdict[d][j]
                               \/ (d = c /\ verdict'[d][j] = got[w])
          /\ job'[w] = <<>>
          /\ \A x \in Workers \ {w} : job'[x] = job[x] /\ got'[x] = got[x]
      BY <2>3, <3>2, <1>t DEF Reply, TypeOK
    <3> QED
      BY <3>1, <3>3 DEF SeesCancel
  <2> QED
    BY <1>3, <2>1, <2>2, <2>3 DEF WorkerStep
<1>4. ASSUME CancelRun \/ Terminated \/ UNCHANGED vars PROVE FALSE
  BY <1>0, <1>4 DEF CancelRun, Terminated, vars
<1> QED
  BY <1>1, <1>2, <1>3, <1>4 DEF Next

(* Cancellations keep having a failure behind them.                        *)
LEMMA CancelsPreserved == RangeInv /\ [Next]_vars => CancelledByFailure'
<1> SUFFICES ASSUME RangeInv, [Next]_vars, ~parentDone', NEW d \in Callers, SeesCancel(d)'
             PROVE  Failed(d)'
  BY DEF CancelledByFailure
<1>1. ~parentDone
  <2>1. parentDone => parentDone'
    BY DEF Next, vars, CheckStep, Ask, Stop, CallStep, Begin, Merge, TryNext, Answer,
           Consume, CloseResults, SliceStep, SendSlice, DeliverSlice, CancelSiblings,
           WorkerStep, Start, Finish, Reply, CancelRun, Terminated
  <2> QED
    BY <2>1
<1>2. ~(TryNext(d) \/ Answer(d))
  <2> SUFFICES ASSUME TryNext(d) \/ Answer(d) PROVE FALSE
    OBVIOUS
  <2>1. /\ \A i \in Slices : verdict'[d][i] = None
        /\ ~ctxDone'[d] /\ UNCHANGED <<job, got>>
    BY ForgetClears
  <2>2. PICK w \in Workers : job[w] # <<>> /\ job[w][1] = d
    BY <2>1 DEF SeesCancel
  <2>3. slice[d][job[w][2]] = "queued" /\ job[w][2] \in Slices
    BY <2>2, WorkerJob
  <2>4. closed[d]
    BY DEF TryNext, Answer, Merged
  <2> QED
    BY <2>3, <2>4, ClosedIsDrained
<1>3. CASE SeesCancel(d)
  BY <1>1, <1>2, <1>3, FailureStays DEF RangeInv, CancelledByFailure
<1>4. CASE ~SeesCancel(d)
  BY <1>1, <1>2, <1>4, FirstCancel, FailureStays
<1> QED
  BY <1>3, <1>4

(* No result of a slice is lost between the channel and the merged answer. *)
LEMMA KeptPreserved == RangeInv /\ [Next]_vars => MergedIsKept'
<1> SUFFICES ASSUME RangeInv, [Next]_vars, NEW d \in Callers, NEW i \in Slices,
                    slice'[d][i] \in {"cancelling", "done"}, i \notin Delivered(d)'
             PROVE  /\ verdict'[d][i] = "ok" => i \in gathered'[d]
                    /\ verdict'[d][i] \notin {"ok", "canceled"} => lastErr'[d] # None
  BY DEF MergedIsKept
<1> DEFINE Kept == /\ verdict'[d][i] = "ok" => i \in gathered'[d]
                   /\ verdict'[d][i] \notin {"ok", "canceled"} => lastErr'[d] # None
<1>t. TypeOK /\ Counted(d)
  BY DEF RangeInv, WaitGroupExact
<1>0. ASSUME slice[d][i] \in {"cancelling", "done"}, i \notin Delivered(d),
             UNCHANGED <<verdict[d][i], gathered[d], lastErr[d]>>
      PROVE  Kept
  BY <1>0 DEF RangeInv, MergedIsKept
<1>1. ASSUME UNCHANGED <<slice[d], results[d], verdict[d], gathered[d], lastErr[d]>>
      PROVE  Kept
  <2>1. Delivered(d)' = Delivered(d)
    BY <1>1 DEF Delivered
  <2> QED
    BY <1>0, <1>1, <2>1
<1>2. ASSUME NEW c \in Callers, CheckStep(c) \/ CloseResults(c) PROVE Kept
  BY <1>1, <1>2 DEF CheckStep, Ask, Stop, CloseResults
<1>3. ASSUME NEW c \in Callers, CallStep(c) PROVE Kept
  <2>1. CASE c # d
    <3>1. CASE TryNext(c) \/ Answer(c)
      BY <1>1, <2>1, <3>1, ForgetClears
    <3>2. CASE Begin(c)
      BY <1>1, <2>1, <3>2, <1>t DEF Begin, TypeOK
    <3>3. CASE Merge(c)
      BY <1>1, <2>1, <3>3, <1>t DEF Merge, TypeOK
    <3>4. CASE Consume(c)
      BY <1>1, <2>1, <3>4, <1>t DEF Consume, TypeOK
    <3> QED
      BY <1>3, <3>1, <3>2, <3>3, <3>4 DEF CallStep
  <2>2. CASE c = d /\ Begin(d)
    BY <2>2, <1>t DEF Begin, TypeOK
  <2>3. CASE c = d /\ Merge(d)
    <3> DEFINE h == Head(results[d])
    <3>1. /\ h \in Delivered(d) /\ Delivered(d)' = Delivered(d) \ {h}
          /\ UNCHANGED <<slice, verdict>>
      BY <2>3, MergeCounts DEF Merge
    <3>2. h \in Slices
      BY <2>3, <1>t DEF Merge, TypeOK
    <3>3. verdict[d][h] # None
      <4>1. slice[d][h] # "none" /\ h \notin Underway(d)
        BY <2>3, <3>1, <3>2, <1>t DEF Merge, Counted, RangeInv, CallsAreClean
      <4> QED
        BY <3>2, <4>1, <1>t DEF Underway, Counted, TypeOK
    <3>4. /\ gathered'[d] = IF verdict[d][h] = "ok" THEN gathered[d] \cup {h} ELSE gathered[d]
          /\ lastErr'[d] = IF verdict[d][h] \in {"ok", "canceled"}
                           THEN lastErr[d] ELSE verdict[d][h]
      BY <2>3, <1>t DEF Merge, TypeOK
    <3>5. CASE i = h
      BY <3>1, <3>3, <3>4, <3>5
    <3>6. CASE i # h
      <4>1. /\ verdict[d][i] = "ok" => i \in gathered[d]
            /\ verdict[d][i] \notin {"ok", "canceled"} => lastErr[d] # None
        BY <3>1, <3>6 DEF RangeInv, MergedIsKept
      <4> QED
        BY <3>1, <3>3, <3>4, <4>1
    <3> QED
      BY <3>5, <3>6
  <2>4. CASE c = d /\ (TryNext(d) \/ Answer(d))
    BY <2>4, ForgetClears
  <2>5. CASE c = d /\ Consume(d)
    BY <2>5, SliceIsMerged DEF Consume
  <2> QED
    BY <1>3, <2>1, <2>2, <2>3, <2>4, <2>5 DEF CallStep
<1>4. ASSUME NEW c \in Callers, NEW j \in Slices, SliceStep(c, j) PROVE Kept
  <2>1. CASE c # d
    BY <1>1, <1>4, <2>1, <1>t DEF SliceStep, SendSlice, DeliverSlice, CancelSiblings, TypeOK
  <2>2. CASE c = d /\ DeliverSlice(d, j)
    <3>1. Delivered(d)' = Delivered(d) \cup {j} /\ UNCHANGED <<verdict, gathered, lastErr>>
      BY <2>2, DeliverCounts DEF DeliverSlice
    <3>2. slice[d][i] \in {"cancelling", "done"}
      BY <2>2, <3>1, <1>t DEF DeliverSlice, TypeOK
    <3> QED
      BY <1>0, <3>1, <3>2
  <2>3. CASE c = d /\ (SendSlice(d, j) \/ CancelSiblings(d, j))
    <3>1. UNCHANGED <<verdict, gathered, lastErr, results>>
          /\ slice[d][i] \in {"cancelling", "done"}
      BY <2>3, <1>t DEF SendSlice, CancelSiblings, TypeOK
    <3>2. Delivered(d)' = Delivered(d)
      BY <3>1 DEF Delivered
    <3> QED
      BY <1>0, <3>1, <3>2
  <2> QED
    BY <1>4, <2>1, <2>2, <2>3 DEF SliceStep
<1>5. ASSUME NEW w \in Workers, WorkerStep(w) PROVE Kept
  <2>1. ASSUME Start(w) \/ \E v \in Verdicts : Finish(w, v) PROVE Kept
    BY <1>1, <2>1 DEF Start, Finish
  <2>2. CASE Reply(w)
    <3>1. /\ slice[d][i] \in {"cancelling", "done"}
          /\ UNCHANGED <<verdict[d][i], gathered, lastErr, results>>
      BY <2>2, <1>t DEF Reply, TypeOK
    <3>2. Delivered(d)' = Delivered(d)
      BY <3>1 DEF Delivered
    <3> QED
      BY <1>0, <3>1, <3>2
  <2> QED
    BY <1>5, <2>1, <2>2 DEF WorkerStep
<1>6. CASE CancelRun \/ Terminated \/ UNCHANGED vars
  BY <1>1, <1>6 DEF CancelRun, Terminated, vars
<1> QED
  BY <1>2, <1>3, <1>4, <1>5, <1>6 DEF Next

(* What the merging loop ends with when no slice was lost: an error of     *)
(* some slice, or the ranges of all of them.                               *)
LEMMA MergedAll ==
    ASSUME RangeInv, NEW c \in Callers, closed[c], ~parentDone, lastErr[c] = None
    PROVE  gathered[c] = Slices
<1>1. \A i \in Slices : /\ slice[c][i] \in {"cancelling", "done"}
                        /\ verdict[c][i] \in Verdicts /\ i \notin Delivered(c)
  BY ClosedIsDrained
<1>2. \A i \in Slices : /\ verdict[c][i] \in {"ok", "canceled"}
                        /\ verdict[c][i] = "ok" => i \in gathered[c]
  BY <1>1 DEF RangeInv, MergedIsKept
<1>3. ~Failed(c)
  BY <1>2 DEF Failed
<1>4. \A i \in Slices : verdict[c][i] # "canceled"
  BY <1>3 DEF RangeInv, CancelledByFailure, SeesCancel
<1> QED
  BY <1>2, <1>4 DEF RangeInv, TypeOK

(* A call that succeeds keeps every slice until the check has the answer.  *)
LEMMA SuccessPreserved == RangeInv /\ [Next]_vars => SuccessIsComplete'
<1> SUFFICES ASSUME RangeInv, [Next]_vars, NEW d \in Callers,
                    stage'[d] = "answered", answer'[d] = "ok", ~parentDone'
             PROVE  gathered'[d] = Slices
  BY DEF SuccessIsComplete
<1>t. TypeOK /\ SuccessIsComplete
  BY DEF RangeInv
<1>0. ASSUME UNCHANGED <<stage[d], answer[d], gathered[d], parentDone>>
      PROVE  gathered'[d] = Slices
  BY <1>0, <1>t DEF SuccessIsComplete
<1>1. ASSUME NEW c \in Callers, CheckStep(c) \/ CallStep(c) PROVE gathered'[d] = Slices
  <2>1. CASE c # d
    <3>1. CASE TryNext(c) \/ Answer(c)
      BY <1>0, <2>1, <3>1, ForgetClears
    <3>2. CASE CheckStep(c)
      BY <1>0, <2>1, <3>2, <1>t DEF CheckStep, Ask, Stop, TypeOK
    <3>3. CASE Begin(c) \/ Merge(c) \/ Consume(c)
      BY <1>0, <2>1, <3>3, <1>t DEF Begin, Merge, Consume, TypeOK
    <3> QED
      BY <1>1, <3>1, <3>2, <3>3 DEF CallStep
  <2>2. CASE c = d /\ Answer(d)
    <3>1. /\ closed[d] /\ UNCHANGED <<gathered, parentDone>>
          /\ lastErr[d] = None \/ lastErr[d] = "ok"
      BY <2>2, <1>t DEF Answer, Merged, TypeOK
    <3>2. lastErr[d] # "ok"
      BY DEF RangeInv, LastServerAnswers
    <3> QED
      BY <3>1, <3>2, MergedAll
  <2>3. CASE c = d /\ (CheckStep(d) \/ Begin(d) \/ TryNext(d) \/ Consume(d))
    BY <2>3, <1>t DEF CheckStep, Ask, Stop, Begin, TryNext, Consume, TypeOK
  <2>4. CASE c = d /\ Merge(d)
    BY <2>4 DEF Merge
  <2> QED
    BY <1>1, <2>1, <2>2, <2>3, <2>4 DEF CallStep
<1>2. ASSUME \/ \E c \in Callers : CloseResults(c) \/ \E i \in Slices : SliceStep(c, i)
             \/ \E w \in Workers : WorkerStep(w)
             \/ Terminated \/ UNCHANGED vars
      PROVE  UNCHANGED <<stage[d], answer[d], gathered[d], parentDone>>
  BY <1>2 DEF CloseResults, SliceStep, SendSlice, DeliverSlice, CancelSiblings, WorkerStep,
              Start, Finish, Reply, Terminated, vars
<1>3. CASE CancelRun
  BY <1>3 DEF CancelRun
<1> QED
  BY <1>0, <1>1, <1>2, <1>3 DEF Next

(* Only a verdict of the last server, or one that is not "unavailable",    *)
(* reaches the check.                                                      *)
LEMMA AnswersPreserved == RangeInv /\ [Next]_vars => LastServerAnswers'
<1> SUFFICES ASSUME RangeInv, [Next]_vars PROVE LastServerAnswers'
  OBVIOUS
<1>t. TypeOK /\ LastServerAnswers
  BY DEF RangeInv
<1>0. ASSUME UNCHANGED <<callVars, lastErr>> PROVE LastServerAnswers'
  BY <1>0, <1>t DEF LastServerAnswers
<1>1. ASSUME NEW c \in Callers, CheckStep(c) PROVE LastServerAnswers'
  <2>1. ASSUME NEW k \in Keys, Ask(c, k) PROVE LastServerAnswers'
    BY <2>1, <1>t DEF Ask, TypeOK, LastServerAnswers
  <2>2. CASE Stop(c)
    BY <2>2, <1>t DEF Stop, TypeOK, LastServerAnswers
  <2> QED
    BY <1>1, <2>1, <2>2 DEF CheckStep
<1>2. ASSUME NEW c \in Callers, CallStep(c) PROVE LastServerAnswers'
  <2>1. CASE Begin(c)
    BY <2>1, <1>t DEF Begin, TypeOK, LastServerAnswers
  <2>2. CASE Merge(c)
    <3>1. UNCHANGED callVars
      BY <2>2 DEF Merge
    <3>2. \A d \in Callers : lastErr'[d] = lastErr[d] \/ lastErr'[d] \notin {"ok", "canceled"}
      BY <2>2, <1>t DEF Merge, TypeOK
    <3> QED
      BY <3>1, <3>2, <1>t DEF LastServerAnswers
  <2>3. CASE TryNext(c)
    <3>1. /\ lastErr'[c] = None /\ stage'[c] = "locking" /\ UNCHANGED answer
          /\ \A d \in Callers \ {c} : UNCHANGED <<lastErr[d], stage[d], srv[d]>>
          /\ stage[c] = "merging"
      <4>1. stage'[c] = "locking" /\ UNCHANGED answer /\ stage[c] = "merging"
        BY <2>3, <1>t DEF TryNext, Merged, TypeOK
      <4> QED
        BY <2>3, <4>1, ForgetClears
    <3> QED
      BY <3>1, <1>t DEF LastServerAnswers
  <2>4. CASE Answer(c)
    <3>1. /\ lastErr'[c] = None /\ stage'[c] = "answered" /\ UNCHANGED srv
          /\ \A d \in Callers \ {c} : UNCHANGED <<lastErr[d], stage[d], answer[d]>>
          /\ answer'[c] = IF lastErr[c] = None THEN "ok" ELSE lastErr[c]
          /\ ~Moves(c)
      <4>1. /\ stage'[c] = "answered" /\ UNCHANGED srv /\ ~Moves(c)
            /\ answer'[c] = IF lastErr[c] = None THEN "ok" ELSE lastErr[c]
        BY <2>4, <1>t DEF Answer, TypeOK
      <4> QED
        BY <2>4, <4>1, ForgetClears
    <3>2. answer'[c] = "unavailable" => srv[c] = NumServers
      BY <3>1, <1>t DEF Moves, IsUnavailableError, TypeOK
    <3> QED
      BY <3>1, <3>2, <1>t DEF LastServerAnswers
  <2>5. CASE Consume(c)
    BY <2>5, <1>t DEF Consume, TypeOK, LastServerAnswers
  <2> QED
    BY <1>2, <2>1, <2>2, <2>3, <2>4, <2>5 DEF CallStep
<1>3. ASSUME \/ \E c \in Callers : CloseResults(c) \/ \E i \in Slices : SliceStep(c, i)
             \/ \E w \in Workers : WorkerStep(w)
             \/ CancelRun \/ Terminated \/ UNCHANGED vars
      PROVE  UNCHANGED <<callVars, lastErr>>
  BY <1>3 DEF CloseResults, SliceStep, SendSlice, DeliverSlice, CancelSiblings, WorkerStep,
              Start, Finish, Reply, CancelRun, Terminated, vars
<1> QED
  BY <1>0, <1>1, <1>2, <1>3 DEF Next

(* Everything the slices, the workers and the loops hold of a range query  *)
(* adds up in every reachable state (range.go, failover.go).               *)
THEOREM RangeInvariant == Spec => []RangeInv
<1>1. Init => RangeInv
  BY InitInv
<1>2. RangeInv /\ [Next]_vars => RangeInv'
  BY TypePreserved, CleanPreserved, LocksPreserved, JobsPreserved, CountsPreserved,
     CancelsPreserved, KeptPreserved, SuccessPreserved, AnswersPreserved
     DEF RangeInv
<1> QED
  BY <1>1, <1>2, PTL DEF Spec

(* A range query that succeeds has the samples of every slice, for any     *)
(* number of slices, callers and workers and in whatever order results and *)
(* cancellations arrive: ignoring "canceled" in the merging loop never     *)
(* swallows the error that caused it.                                      *)
THEOREM SuccessHasEverySlice == Spec => []SuccessIsComplete
<1>1. RangeInv => SuccessIsComplete
  BY DEF RangeInv
<1> QED
  BY <1>1, RangeInvariant, PTL

(* The goroutine that closes results waits for the WaitGroup, and that is  *)
(* enough: no slice has its send still to do.                              *)
THEOREM ResultsChannelIsSafe == Spec => []NoSendOnClosedResults
<1>1. RangeInv => NoSendOnClosedResults
  BY ClosedIsDrained DEF NoSendOnClosedResults
<1> QED
  BY <1>1, RangeInvariant, PTL

(* When a range query returns, no goroutine, queue or worker still has one *)
(* of its slices.                                                          *)
THEOREM SlicesEndWithCall == Spec => []NoSliceOutlivesCall
<1>1. RangeInv => NoSliceOutlivesCall
  <2> SUFFICES ASSUME RangeInv, NEW c \in Callers, stage[c] # "merging"
               PROVE  /\ \A i \in Slices : slice[c][i] = "none"
                      /\ \A w \in Workers : job[w] # <<>> => job[w][1] # c
    BY DEF NoSliceOutlivesCall
  <2>1. \A i \in Slices : slice[c][i] = "none"
    BY DEF RangeInv, CallsAreClean
  <2> QED
    BY <2>1, WorkerJob
<1> QED
  BY <1>1, RangeInvariant, PTL

(* Two callers never have the slices of one range query on one server at   *)
(* the same time: whoever waits for the lock finds them in the cache.      *)
THEOREM OneCallPerRange == Spec => []OneCallPerKey
<1>1. RangeInv => OneCallPerKey
  BY DEF RangeInv
<1> QED
  BY <1>1, RangeInvariant, PTL
----------------------------------------------------------------------------
(* Refinement: a range query keeps the promise of a failover list although *)
(* each of its attempts is many jobs.  Closing results judges a server;    *)
(* every other step of the attempt is a stutter.                           *)

(* What the contract sees of a caller follows from these variables.        *)
LEMMA SameSight ==
    ASSUME NEW d \in Callers,
           UNCHANGED <<stage[d], srv[d], key[d], answer[d], closed[d]>>,
           closed[d] => lastErr'[d] = lastErr[d]
    PROVE  PhaseOf(d)' = PhaseOf(d) /\ AnswerOf(d)' = AnswerOf(d)
<1>1. PhaseOf(d)' = PhaseOf(d) /\ Judged(d)' = Judged(d)
  BY DEF PhaseOf, Judged
<1>2. Judged(d) => VerdictOf(d)' = VerdictOf(d)
  BY DEF VerdictOf, Judged
<1> QED
  BY <1>1, <1>2 DEF AnswerOf

(* The verdict of a merged attempt is one of the contract's.               *)
LEMMA VerdictsAreContract ==
    ASSUME RangeInv, NEW c \in Callers, Judged(c)
    PROVE  VerdictOf(c) \in {"ok", "unavailable", "rejected"}
<1>1. /\ lastErr[c] \in {None, "unavailable", "rejected", "truncated"}
      /\ answer[c] \in {None, "ok", "unavailable", "rejected", "truncated"}
  BY DEF RangeInv, TypeOK, LastServerAnswers
<1> QED
  BY <1>1 DEF VerdictOf

(* Each step is a step of the contract, or one it does not see.            *)
LEMMA ContractStep ==
    ASSUME RangeInv, [Next]_vars
    PROVE  Contract!ContractNext \/ UNCHANGED Contract!cvars
<1>t. TypeOK /\ LastServerAnswers
  BY DEF RangeInv
<1> DEFINE Nothing == [verdict |-> None, uri |-> 0, key |-> None]
           Phases == [c \in Callers |-> PhaseOf(c)]
           Hands == [c \in Callers |-> AnswerOf(c)]
           Same(d) == PhaseOf(d)' = PhaseOf(d) /\ AnswerOf(d)' = AnswerOf(d)
<1>0. ASSUME \A d \in Callers : Same(d), UNCHANGED <<srv, key, parentDone>>
      PROVE  UNCHANGED Contract!cvars
  <2>1. Phases' = Phases /\ Hands' = Hands
    BY <1>0
  <2> QED
    BY <1>0, <2>1 DEF Contract!cvars
<1>1. ASSUME NEW c \in Callers, NEW k \in Keys, Ask(c, k)
      PROVE  Contract!AskGroup(c, k)
  <2>1. /\ stage[c] = "idle" /\ stage' = [stage EXCEPT ![c] = "locking"]
        /\ key' = [key EXCEPT ![c] = k]
        /\ UNCHANGED <<srv, answer, closed, lastErr, parentDone>>
    BY <1>1 DEF Ask
  <2>2. /\ PhaseOf(c) = "idle" /\ PhaseOf(c)' = "asking"
        /\ AnswerOf(c) = Nothing /\ AnswerOf(c)' = Nothing
    BY <2>1, <1>t DEF PhaseOf, Judged, AnswerOf, TypeOK
  <2>3. \A d \in Callers \ {c} : Same(d)
    BY <2>1, SameSight, <1>t DEF TypeOK
  <2>4. Phases' = [Phases EXCEPT ![c] = "asking"] /\ Hands' = Hands /\ Phases[c] = "idle"
    BY <2>2, <2>3
  <2> QED
    BY <2>1, <2>4 DEF Contract!AskGroup
<1>2. ASSUME NEW c \in Callers, Stop(c) \/ Begin(c)
      PROVE  UNCHANGED Contract!cvars
  <2>1. /\ UNCHANGED <<srv, key, answer, closed, lastErr, parentDone>>
        /\ \A d \in Callers \ {c} : stage'[d] = stage[d]
        /\ \/ stage[c] = "idle" /\ stage'[c] = "stopped"
           \/ stage[c] = "locking" /\ stage'[c] = "merging" /\ ~closed[c]
    BY <1>2, <1>t DEF Stop, Begin, TypeOK, RangeInv, CallsAreClean
  <2>2. Same(c)
    BY <2>1 DEF PhaseOf, Judged, AnswerOf
  <2>3. \A d \in Callers \ {c} : Same(d)
    BY <2>1, SameSight
  <2> QED
    BY <1>0, <2>1, <2>2, <2>3
<1>3. ASSUME NEW c \in Callers, Merge(c)
      PROVE  UNCHANGED Contract!cvars
  <2>1. ~closed[c]
    BY <1>3, ClosedIsDrained DEF Merge
  <2>2. /\ UNCHANGED <<stage, srv, key, answer, closed, parentDone>>
        /\ \A d \in Callers \ {c} : lastErr'[d] = lastErr[d]
    BY <1>3, <1>t DEF Merge, TypeOK
  <2>3. \A d \in Callers : Same(d)
    BY <2>1, <2>2, SameSight
  <2> QED
    BY <1>0, <2>2, <2>3
<1>4. ASSUME NEW c \in Callers, CloseResults(c)
      PROVE  \E v \in Contract!Verdicts : Contract!Judge(c, v)
  <2>1. /\ stage[c] = "merging" /\ ~closed[c] /\ closed' = [closed EXCEPT ![c] = TRUE]
        /\ UNCHANGED <<stage, srv, key, answer, lastErr, parentDone>>
    BY <1>4 DEF CloseResults
  <2>2. lastErr[c] \in {None, "unavailable", "rejected", "truncated"}
    BY <1>t DEF TypeOK, LastServerAnswers
  <2> DEFINE v == IF lastErr[c] = None THEN "ok"
                  ELSE IF lastErr[c] = "truncated" THEN "rejected" ELSE lastErr[c]
  <2>3. v \in Contract!Verdicts /\ v # "canceled"
    BY <2>2 DEF Contract!Verdicts
  <2>4. closed'[c]
    BY <2>1, <1>t DEF TypeOK
  <2>5. Judged(c)' /\ PhaseOf(c) = "asking" /\ PhaseOf(c)' = "judged"
    BY <2>1, <2>4 DEF PhaseOf, Judged
  <2>6. AnswerOf(c)' = [verdict |-> v, uri |-> srv[c], key |-> key[c]]
    BY <2>1, <2>2, <2>5 DEF AnswerOf, VerdictOf
  <2>7. \A d \in Callers \ {c} : Same(d)
    BY <2>1, SameSight, <1>t DEF TypeOK
  <2> HIDE DEF v
  <2>8. /\ Phases' = [Phases EXCEPT ![c] = "judged"] /\ Phases[c] = "asking"
        /\ Hands' = [Hands EXCEPT ![c] = [verdict |-> v, uri |-> srv[c], key |-> key[c]]]
    BY <2>5, <2>6, <2>7
  <2>9. Contract!Judge(c, v)
    BY <2>1, <2>3, <2>8 DEF Contract!Judge
  <2> QED
    BY <2>3, <2>9
<1>5. ASSUME NEW c \in Callers, TryNext(c)
      PROVE  Contract!NextServer(c)
  <2>1. /\ stage[c] = "merging" /\ closed[c] /\ stage' = [stage EXCEPT ![c] = "locking"]
        /\ lastErr[c] = "unavailable" /\ srv[c] < NumServers
        /\ srv' = [srv EXCEPT ![c] = @ + 1]
        /\ UNCHANGED <<key, answer, parentDone>>
    BY <1>5, <1>t DEF TryNext, Merged, Moves, IsUnavailableError, LastServerAnswers
  <2>2. PhaseOf(c) = "judged" /\ AnswerOf(c).verdict = "unavailable"
    BY <2>1 DEF PhaseOf, Judged, AnswerOf, VerdictOf
  <2>3. PhaseOf(c)' = "asking" /\ AnswerOf(c)' = Nothing
    BY <2>1, <1>t DEF PhaseOf, Judged, AnswerOf, TypeOK
  <2>4. \A d \in Callers \ {c} : Same(d)
    BY <1>5, <2>1, ForgetClears, SameSight
  <2>5. /\ Phases' = [Phases EXCEPT ![c] = "asking"] /\ Phases[c] = "judged"
        /\ Hands' = [Hands EXCEPT ![c] = Nothing] /\ Hands[c].verdict = "unavailable"
    BY <2>2, <2>3, <2>4
  <2> QED
    BY <2>1, <2>5 DEF Contract!NextServer, Contract!TriesNext, Contract!NoAnswer,
                      Contract!NoKey
<1>6. ASSUME NEW c \in Callers, Answer(c)
      PROVE  UNCHANGED Contract!cvars
  <2>1. /\ stage[c] = "merging" /\ closed[c] /\ stage' = [stage EXCEPT ![c] = "answered"]
        /\ answer' = [answer EXCEPT ![c] = IF lastErr[c] = None THEN "ok" ELSE lastErr[c]]
        /\ UNCHANGED <<srv, key, parentDone>>
    BY <1>6 DEF Answer, Merged
  <2>2. PhaseOf(c) = "judged" /\ PhaseOf(c)' = "judged" /\ Judged(c) /\ Judged(c)'
    BY <2>1, <1>t DEF PhaseOf, Judged, TypeOK
  <2>3. VerdictOf(c)' = VerdictOf(c)
    BY <2>1, <1>t DEF VerdictOf, TypeOK
  <2>4. \A d \in Callers \ {c} : Same(d)
    BY <1>6, <2>1, ForgetClears, SameSight
  <2>5. Same(c)
    BY <2>1, <2>2, <2>3 DEF AnswerOf
  <2> QED
    BY <1>0, <2>1, <2>4, <2>5
<1>7. ASSUME NEW c \in Callers, Consume(c)
      PROVE  Contract!Deliver(c)
  <2>1. /\ stage[c] = "answered" /\ stage' = [stage EXCEPT ![c] = "idle"]
        /\ srv' = [srv EXCEPT ![c] = 1] /\ key' = [key EXCEPT ![c] = None]
        /\ answer' = [answer EXCEPT ![c] = None]
        /\ UNCHANGED <<closed, lastErr, parentDone>>
    BY <1>7 DEF Consume
  <2>2. PhaseOf(c) = "judged" /\ AnswerOf(c).verdict = VerdictOf(c)
    BY <2>1 DEF PhaseOf, Judged, AnswerOf
  <2>3. VerdictOf(c) \in {"unavailable", "canceled"} => srv[c] = NumServers
    BY <2>1, <1>t DEF VerdictOf, LastServerAnswers
  <2>4. PhaseOf(c)' = "idle" /\ AnswerOf(c)' = Nothing
    BY <2>1, <1>t DEF PhaseOf, Judged, AnswerOf, TypeOK
  <2>5. \A d \in Callers \ {c} : Same(d)
    BY <2>1, SameSight, <1>t DEF TypeOK
  <2>6. /\ Phases' = [Phases EXCEPT ![c] = "idle"] /\ Phases[c] = "judged"
        /\ Hands' = [Hands EXCEPT ![c] = Nothing]
        /\ Hands[c].verdict \in {"unavailable", "canceled"} => srv[c] = NumServers
    BY <2>2, <2>3, <2>4, <2>5
  <2> QED
    BY <2>1, <2>6 DEF Contract!Deliver, Contract!TriesNext, Contract!NoAnswer,
                      Contract!NoKey
<1>8. ASSUME \/ \E c \in Callers, i \in Slices : SliceStep(c, i)
             \/ \E w \in Workers : WorkerStep(w)
             \/ Terminated \/ UNCHANGED vars
      PROVE  UNCHANGED Contract!cvars
  <2>1. UNCHANGED <<stage, srv, key, answer, closed, lastErr, parentDone>>
    BY <1>8 DEF SliceStep, SendSlice, DeliverSlice, CancelSiblings, WorkerStep, Start,
                Finish, Reply, Terminated, vars
  <2>2. \A d \in Callers : Same(d)
    BY <2>1, SameSight
  <2> QED
    BY <1>0, <2>1, <2>2
<1>9. ASSUME CancelRun PROVE Contract!CancelRun
  <2>1. UNCHANGED <<stage, srv, key, answer, closed, lastErr>>
    BY <1>9 DEF CancelRun
  <2>2. \A d \in Callers : Same(d)
    BY <2>1, SameSight
  <2>3. Phases' = Phases /\ Hands' = Hands
    BY <2>2
  <2> QED
    BY <1>9, <2>1, <2>3 DEF CancelRun, Contract!CancelRun
<1> HIDE DEF Same
<1> QED
  <2>1. ASSUME NEW c \in Callers, CheckStep(c) \/ CallStep(c) \/ CloseResults(c)
        PROVE  Contract!ContractNext \/ UNCHANGED Contract!cvars
    BY <2>1, <1>1, <1>2, <1>3, <1>4, <1>5, <1>6, <1>7
       DEF CheckStep, CallStep, Contract!ContractNext, Contract!GroupStep
  <2> QED
    BY <2>1, <1>8, <1>9 DEF Next, Contract!ContractNext

(* A range query keeps the failover contract, slices, goroutines and all   *)
(* (its safety half; that every query is answered is model-checked).       *)
THEOREM RangeKeepsContract == Spec => Contract!ContractSafe
<1>1. Init => Contract!ContractInit
  <2> SUFFICES ASSUME Init PROVE Contract!ContractInit
    OBVIOUS
  <2>1. \A c \in Callers : /\ PhaseOf(c) = "idle"
                           /\ AnswerOf(c) = [verdict |-> None, uri |-> 0, key |-> None]
    BY DEF Init, PhaseOf, Judged, AnswerOf
  <2> QED
    BY <2>1 DEF Init, Contract!ContractInit, Contract!NoAnswer, Contract!NoKey
<1>2. RangeInv /\ [Next]_vars =>
        [Contract!ContractNext]_(Contract!cvars)
  BY ContractStep
<1> QED
  BY <1>1, <1>2, RangeInvariant, PTL DEF Spec, Contract!ContractSafe
============================================================================
