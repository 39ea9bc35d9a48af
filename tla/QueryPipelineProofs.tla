------------------------ MODULE QueryPipelineProofs ------------------------
(***************************************************************************)
(* Proofs about QueryPipeline for any number of callers, keys, servers and *)
(* workers and any channel capacity.  The inductive invariant PipelineInv  *)
(* collects what one step needs to know; each of its parts has a lemma     *)
(* that Next preserves it, with one step per action that can disturb it.   *)
(***************************************************************************)
EXTENDS QueryPipeline, TLAPS

(* A caller inside a query knows its key.                                  *)
KeyKnown ==
    \A c \in Callers : stage[c] \notin {"idle", "stopped"} => key[c] \in Keys

PipelineInv ==
    /\ TypeOK
    /\ KeyKnown
    /\ LockTableExact
    /\ NoLostWakeup
    /\ JobsAccounted
    /\ WaiterHasJob
    /\ ResultsHonest
    /\ RunOnlyOnMiss

USE PipelineAssumption DEF Servers, Stages, Phases, Verdicts, CacheKeys,
    callerVars, workerVars

(* Before the first question nobody holds, waits for or runs anything.     *)
LEMMA InitInv == Init => PipelineInv
<1> SUFFICES ASSUME Init PROVE PipelineInv
  OBVIOUS
<1>1. TypeOK
  <2>1. cache \in [CacheKeys -> Answers \cup {NoAnswer}]
    BY DEF Init
  <2>2. queue \in [Servers -> Seq(Callers)]
    BY DEF Init
  <2>3. cancelled \in BOOLEAN
    BY DEF Init
  <2> QED
    BY <2>1, <2>2, <2>3 DEF Init, TypeOK
<1>2. KeyKnown /\ LockTableExact /\ NoLostWakeup
  BY DEF Init, KeyKnown, LockTableExact, NoLostWakeup, Holds
<1>3. JobsAccounted /\ WaiterHasJob
  BY DEF Init, JobsAccounted, WaiterHasJob, Busy
<1>4. ResultsHonest /\ RunOnlyOnMiss
  BY DEF Init, ResultsHonest, RunOnlyOnMiss, CacheKey
<1> QED
  BY <1>1, <1>2, <1>3, <1>4 DEF PipelineInv

(* Every step keeps the variables in their types.                          *)
LEMMA TypePreserved == PipelineInv /\ [Next]_vars => TypeOK'
<1> SUFFICES ASSUME PipelineInv, [Next]_vars PROVE TypeOK'
  OBVIOUS
<1>t. closed \in 0..NumServers /\ cleaner \in {"running", "done"}
  BY DEF PipelineInv, TypeOK
<1> USE DEF PipelineInv, TypeOK
<1>1. ASSUME NEW c \in Callers, CheckStep(c) \/ CallerStep(c) PROVE TypeOK'
  <2>1. ASSUME NEW k \in Keys, Ask(c, k) PROVE TypeOK'
    BY <2>1 DEF Ask
  <2>2. CASE Stop(c)
    BY <2>2 DEF Stop
  <2>3. CASE Acquire(c)
    <3>1. key[c] \in Keys
      BY <2>3 DEF Acquire, KeyKnown
    <3> QED
      BY <2>3, <3>1 DEF Acquire
  <2>4. CASE Park(c)
    BY <2>4 DEF Park
  <2>5. CASE Send(c)
    <3>1. queue[srv[c]] \in Seq(Callers)
      OBVIOUS
    <3>2. Append(queue[srv[c]], c) \in Seq(Callers)
      BY <3>1
    <3> QED
      BY <2>5, <3>2 DEF Send
  <2>6. CASE Return(c)
    <3>1. NextServer(c) \in 0..NumServers
      BY DEF NextServer
    <3>2. stage' \in [Callers -> Stages] /\ srv' \in [Callers -> Servers]
      BY <2>6, <3>1 DEF Return
    <3>3. locked' \in [Servers -> SUBSET Keys]
      BY <2>6 DEF Return
    <3> QED
      BY <2>6, <3>2, <3>3 DEF Return
  <2> QED
    BY <1>1, <2>1, <2>2, <2>3, <2>4, <2>5, <2>6 DEF CheckStep, CallerStep
<1>2. ASSUME NEW w \in Workers, WorkerStep(w) PROVE TypeOK'
  <2>1. CASE Take(w)
    BY <2>1 DEF Take
  <2>2. CASE Hit(w)
    <3>1. Awaits(job[w], Home[w])
      BY <2>2 DEF Hit, JobsAccounted, Busy
    <3>2. CacheKey(Home[w], key[job[w]]) \in CacheKeys
      BY <3>1 DEF CacheKey, Awaits, KeyKnown
    <3> QED
      BY <2>2, <3>2 DEF Hit
  <2>3. CASE Miss(w)
    <3>1. Awaits(job[w], Home[w])
      BY <2>3 DEF Miss, JobsAccounted, Busy
    <3>2. Verdict(w, "canceled") \in Answers
      BY <3>1 DEF Verdict, Answers, Awaits, KeyKnown
    <3> QED
      BY <2>3, <3>2 DEF Miss
  <2>4. ASSUME NEW v \in Verdicts, Finish(w, v) PROVE TypeOK'
    <3>1. Awaits(job[w], Home[w])
      BY <2>4 DEF Finish, JobsAccounted, Busy
    <3>2. Verdict(w, v) \in Answers
      BY <3>1 DEF Verdict, Answers, Awaits, KeyKnown
    <3> QED
      BY <2>4, <3>2 DEF Finish
  <2>5. CASE Store(w)
    BY <2>5 DEF Store
  <2>6. CASE Reply(w)
    BY <2>6 DEF Reply
  <2>7. CASE Exit(w)
    BY <2>7 DEF Exit
  <2> QED
    BY <1>2, <2>1, <2>2, <2>3, <2>4, <2>5, <2>6, <2>7 DEF WorkerStep
<1>3. CASE Cancel
  BY <1>3 DEF Cancel
<1>4. CASE CollectGarbage
  BY <1>4 DEF CollectGarbage
<1>5. CASE CloseServer \/ QuitCleaner
  <2>1. closed' \in 0..NumServers /\ cleaner' \in {"running", "done"}
    <3> HIDE DEF PipelineInv
    <3> QED
      BY <1>5, <1>t DEF CloseServer, QuitCleaner
  <2>2. UNCHANGED <<stage, srv, key, answer, calls, locked, queue, work, job, got,
                    cache, cancelled>>
    BY <1>5 DEF CloseServer, QuitCleaner
  <2> QED
    BY <2>1, <2>2
<1>6. CASE Terminated \/ UNCHANGED vars
  BY <1>6 DEF Terminated, vars
<1> QED
  BY <1>1, <1>2, <1>3, <1>4, <1>5, <1>6 DEF Next

(* Steps of the workers and of the rest of the program leave the callers   *)
(* alone, except that a reply moves one from waiting to returning.         *)
LEMMA CallersUndisturbed ==
    ASSUME PipelineInv,
           \/ \E w \in Workers : WorkerStep(w)
           \/ Cancel \/ CollectGarbage \/ CloseServer \/ QuitCleaner
           \/ Terminated \/ UNCHANGED vars
    PROVE  /\ UNCHANGED <<srv, key, locked>>
           /\ \A c \in Callers :
                \/ stage'[c] = stage[c]
                \/ stage[c] = "waiting" /\ stage'[c] = "returning"
<1> USE DEF PipelineInv, TypeOK
<1>1. ASSUME NEW w \in Workers, WorkerStep(w)
      PROVE  /\ UNCHANGED <<srv, key, locked>>
             /\ \A c \in Callers :
                  \/ stage'[c] = stage[c]
                  \/ stage[c] = "waiting" /\ stage'[c] = "returning"
  <2>1. CASE Reply(w)
    BY <2>1 DEF Reply
  <2>2. CASE Take(w) \/ Hit(w) \/ Miss(w) \/ Store(w) \/ Exit(w)
    BY <2>2 DEF Take, Hit, Miss, Store, Exit
  <2>3. CASE \E v \in Verdicts : Finish(w, v)
    BY <2>3 DEF Finish
  <2> QED
    BY <1>1, <2>1, <2>2, <2>3 DEF WorkerStep
<1>2. CASE Cancel \/ CollectGarbage \/ CloseServer \/ QuitCleaner
  BY <1>2 DEF Cancel, CollectGarbage, CloseServer, QuitCleaner
<1>3. CASE Terminated \/ UNCHANGED vars
  BY <1>3 DEF Terminated, vars
<1> QED
  BY <1>1, <1>2, <1>3

(* A caller inside a query knows its key.                                  *)
LEMMA KeyKnownPreserved == PipelineInv /\ [Next]_vars => KeyKnown'
<1> SUFFICES ASSUME PipelineInv, [Next]_vars PROVE KeyKnown'
  OBVIOUS
<1> USE DEF PipelineInv, TypeOK, KeyKnown
<1>1. ASSUME NEW c \in Callers, CheckStep(c) \/ CallerStep(c) PROVE KeyKnown'
  <2>1. CASE CheckStep(c)
    BY <2>1 DEF CheckStep, Ask, Stop
  <2>2. CASE Acquire(c) \/ Park(c) \/ Send(c)
    BY <2>2 DEF Acquire, Park, Send
  <2>3. CASE Return(c)
    BY <2>3 DEF Return, Woken, Parked
  <2> QED
    BY <1>1, <2>1, <2>2, <2>3 DEF CallerStep
<1>2. ASSUME ~ \E c \in Callers : CheckStep(c) \/ CallerStep(c) PROVE KeyKnown'
  BY <1>2, CallersUndisturbed DEF Next
<1> QED
  BY <1>1, <1>2

(* A step that moves nobody across lock() or unlock() keeps the table.     *)
LEMMA SameHolders ==
    ASSUME PipelineInv,
           UNCHANGED locked,
           \A c \in Callers : Holds(c)' <=> Holds(c),
           \A c \in Callers : Holds(c) \/ stage'[c] = "parked" =>
                              srv'[c] = srv[c] /\ key'[c] = key[c],
           \A c \in Callers : stage'[c] = "parked" =>
                              stage[c] = "parked" \/ key[c] \in locked[srv[c]]
    PROVE  LockTableExact' /\ NoLostWakeup'
<1>1. NoLostWakeup'
  BY DEF PipelineInv, NoLostWakeup
<1>2. \A c \in Callers : Holds(c)' => (key[c] \in locked[srv[c]])'
  BY DEF PipelineInv, LockTableExact
<1>3. \A c, d \in Callers :
        Holds(c)' /\ Holds(d)' /\ (srv[c] = srv[d])' /\ (key[c] = key[d])'
        => c = d
  BY DEF PipelineInv, LockTableExact
<1>4. ASSUME NEW s \in Servers, NEW k \in locked'[s]
      PROVE  \E d \in Callers : Holds(d)' /\ srv'[d] = s /\ key'[d] = k
  <2>1. PICK d \in Callers : Holds(d) /\ srv[d] = s /\ key[d] = k
    BY <1>4 DEF PipelineInv, LockTableExact
  <2> QED
    BY <2>1
<1> QED
  BY <1>1, <1>2, <1>3, <1>4 DEF LockTableExact

(* The lock table and the wait lists: Acquire is the only way in, Return   *)
(* the only way out, and it wakes whoever waited for the key it frees.     *)
LEMMA LocksPreserved ==
    PipelineInv /\ [Next]_vars => LockTableExact' /\ NoLostWakeup'
<1> SUFFICES ASSUME PipelineInv, [Next]_vars
             PROVE  LockTableExact' /\ NoLostWakeup'
  OBVIOUS
<1> USE DEF PipelineInv, TypeOK
<1>1. ASSUME NEW c \in Callers, CheckStep(c) \/ CallerStep(c)
      PROVE  LockTableExact' /\ NoLostWakeup'
  <2>1. CASE CheckStep(c) \/ Park(c) \/ Send(c)
    <3>1. /\ UNCHANGED locked
          /\ \A d \in Callers : Holds(d)' <=> Holds(d)
          /\ \A d \in Callers : Holds(d) \/ stage'[d] = "parked" =>
                              srv'[d] = srv[d] /\ key'[d] = key[d]
          /\ \A d \in Callers : stage'[d] = "parked" =>
                              stage[d] = "parked" \/ key[d] \in locked[srv[d]]
      BY <2>1 DEF CheckStep, Ask, Stop, Park, Send, Holds
    <3> QED
      BY <3>1, SameHolders
  <2>2. CASE Acquire(c)
    <3>1. /\ UNCHANGED <<srv, key>>
          /\ \A d \in Callers : Holds(d)' <=> d = c \/ Holds(d)
          /\ \A d \in Callers \ {c} : stage'[d] = stage[d]
          /\ stage'[c] = "sending" /\ key[c] \in Keys
          /\ key[c] \notin locked[srv[c]]
      BY <2>2 DEF Acquire, Holds, KeyKnown
    <3>2. ASSUME NEW s \in Servers
          PROVE  locked'[s] = IF s = srv[c] THEN locked[s] \cup {key[c]}
                              ELSE locked[s]
      BY <2>2 DEF Acquire
    <3>3. NoLostWakeup'
      BY <3>1, <3>2 DEF NoLostWakeup
    <3>4. ASSUME NEW d \in Callers, Holds(d)'
          PROVE  (key[d] \in locked[srv[d]])'
      <4>1. CASE d = c
        BY <4>1, <3>1, <3>2
      <4>2. CASE d # c
        <5>1. Holds(d) /\ key[d] \in locked[srv[d]]
          BY <4>2, <3>1, <3>4 DEF LockTableExact
        <5> QED
          BY <5>1, <3>1, <3>2
      <4> QED
        BY <4>1, <4>2
    <3>5. \A d, e \in Callers :
            Holds(d)' /\ Holds(e)' /\ (srv[d] = srv[e])' /\ (key[d] = key[e])'
            => d = e
      BY <3>1 DEF LockTableExact
    <3>6. ASSUME NEW s \in Servers, NEW k \in locked'[s]
          PROVE  \E d \in Callers : Holds(d)' /\ srv'[d] = s /\ key'[d] = k
      <4>1. CASE k \in locked[s]
        BY <4>1, <3>1 DEF LockTableExact
      <4>2. CASE s = srv[c] /\ k = key[c]
        BY <4>2, <3>1
      <4> QED
        BY <4>1, <4>2, <3>2, <3>6
    <3> QED
      BY <3>3, <3>4, <3>5, <3>6 DEF LockTableExact
  <2>3. CASE Return(c)
    <3>1. ASSUME NEW s \in Servers
          PROVE  locked'[s] = IF s = srv[c] THEN locked[s] \ {key[c]}
                              ELSE locked[s]
      BY <2>3 DEF Return, Released
    <3>2. \A d \in Callers \ {c} :
            /\ srv'[d] = srv[d] /\ key'[d] = key[d]
            /\ stage'[d] = IF stage[d] = "parked" /\ srv[d] = srv[c]
                           THEN "locking" ELSE stage[d]
      BY <2>3 DEF Return, Woken, Parked
    <3>3. stage[c] = "returning" /\ stage'[c] \in {"locking", "idle"}
      BY <2>3 DEF Return
    <3>4. \A d \in Callers : Holds(d)' <=> d # c /\ Holds(d)
      BY <3>2, <3>3 DEF Holds
    <3>5. NoLostWakeup'
      <4>1. ASSUME NEW d \in Callers, stage'[d] = "parked"
            PROVE  d # c /\ stage[d] = "parked" /\ srv[d] # srv[c]
        BY <4>1, <3>2, <3>3
      <4> QED
        BY <4>1, <3>1, <3>2 DEF NoLostWakeup
    <3>6. ASSUME NEW d \in Callers, Holds(d)'
          PROVE  (key[d] \in locked[srv[d]])'
      <4>1. d # c /\ Holds(d) /\ srv'[d] = srv[d] /\ key'[d] = key[d]
        BY <3>2, <3>4, <3>6
      <4>2. key[d] \in locked[srv[d]] /\ ~(srv[d] = srv[c] /\ key[d] = key[c])
        BY <4>1, <3>3 DEF LockTableExact, Holds
      <4> QED
        BY <4>1, <4>2, <3>1
    <3>7. \A d, e \in Callers :
            Holds(d)' /\ Holds(e)' /\ (srv[d] = srv[e])' /\ (key[d] = key[e])'
            => d = e
      BY <3>2, <3>4 DEF LockTableExact
    <3>8. ASSUME NEW s \in Servers, NEW k \in locked'[s]
          PROVE  \E d \in Callers : Holds(d)' /\ srv'[d] = s /\ key'[d] = k
      <4>1. k \in locked[s] /\ ~(s = srv[c] /\ k = key[c])
        BY <3>1, <3>8
      <4>2. PICK d \in Callers : Holds(d) /\ srv[d] = s /\ key[d] = k
        BY <4>1 DEF LockTableExact
      <4> QED
        BY <4>1, <4>2, <3>2, <3>4
    <3> QED
      BY <3>5, <3>6, <3>7, <3>8 DEF LockTableExact
  <2> QED
    BY <1>1, <2>1, <2>2, <2>3 DEF CallerStep
<1>2. ASSUME ~ \E c \in Callers : CheckStep(c) \/ CallerStep(c)
      PROVE  LockTableExact' /\ NoLostWakeup'
  <2>1. /\ UNCHANGED <<srv, key, locked>>
        /\ \A c \in Callers :
             \/ stage'[c] = stage[c]
             \/ stage[c] = "waiting" /\ stage'[c] = "returning"
    BY <1>2, CallersUndisturbed DEF Next
  <2>2. \A c \in Callers : /\ Holds(c)' <=> Holds(c)
                           /\ stage'[c] = "parked" => stage[c] = "parked"
    BY <2>1 DEF Holds
  <2> QED
    BY <2>1, <2>2, SameHolders
<1> QED
  BY <1>1, <1>2

(* A step that neither moves a job nor a caller in or out of waiting.      *)
LEMMA SameJobs ==
    ASSUME PipelineInv,
           UNCHANGED <<queue, job>>,
           \A w \in Workers : Busy(w)' <=> Busy(w),
           \A c \in Callers : stage'[c] = "waiting" <=> stage[c] = "waiting",
           \A c \in Callers : stage[c] = "waiting" => srv'[c] = srv[c]
    PROVE  JobsAccounted' /\ WaiterHasJob'
<1>1. \A c, s : Awaits(c, s) => Awaits(c, s)'
  BY DEF Awaits
<1>2. JobsAccounted'
  BY <1>1 DEF PipelineInv, JobsAccounted
<1>3. WaiterHasJob'
  BY DEF PipelineInv, WaiterHasJob
<1> QED
  BY <1>2, <1>3

(* Jobs are conserved: Send adds one for a caller that had none, Take      *)
(* moves one, Reply removes one together with its caller's wait.           *)
LEMMA JobsPreserved ==
    PipelineInv /\ [Next]_vars => JobsAccounted' /\ WaiterHasJob'
<1> SUFFICES ASSUME PipelineInv, [Next]_vars
             PROVE  JobsAccounted' /\ WaiterHasJob'
  OBVIOUS
<1>a. \A s \in Servers : \A i \in 1..Len(queue[s]) : Awaits(queue[s][i], s)
  BY DEF PipelineInv, JobsAccounted
<1>b. \A w \in Workers : Busy(w) => Awaits(job[w], Home[w])
  BY DEF PipelineInv, JobsAccounted
<1>c. \A s \in Servers : \A i, j \in 1..Len(queue[s]) :
        queue[s][i] = queue[s][j] => i = j
  BY DEF PipelineInv, JobsAccounted
<1>d. \A w \in Workers : Busy(w) =>
        \A i \in 1..Len(queue[Home[w]]) : queue[Home[w]][i] # job[w]
  BY DEF PipelineInv, JobsAccounted
<1>e. \A w, x \in Workers : Busy(w) /\ Busy(x) /\ job[w] = job[x] => w = x
  BY DEF PipelineInv, JobsAccounted
<1>f. WaiterHasJob
  BY DEF PipelineInv
<1>g. TypeOK
  BY DEF PipelineInv
<1>1. ASSUME NEW c \in Callers, CheckStep(c) \/ CallerStep(c)
      PROVE  JobsAccounted' /\ WaiterHasJob'
  <2>1. CASE CheckStep(c) \/ Acquire(c) \/ Park(c) \/ Return(c)
    <3>1. /\ UNCHANGED <<queue, job, work>>
          /\ \A d \in Callers : stage'[d] = "waiting" <=> stage[d] = "waiting"
          /\ \A d \in Callers : stage[d] = "waiting" => srv'[d] = srv[d]
      BY <2>1, <1>g DEF TypeOK, CheckStep, Ask, Stop, Acquire, Park, Return, Woken, Parked
    <3> QED
      BY <3>1, SameJobs DEF Busy
  <2>2. CASE Send(c)
    <3> DEFINE s == srv[c]
               q == queue[s]
    <3>1. q \in Seq(Callers) /\ s \in Servers
      BY <1>g DEF TypeOK
    <3>2. /\ queue' = [queue EXCEPT ![s] = Append(q, c)]
          /\ stage[c] = "sending" /\ stage' = [stage EXCEPT ![c] = "waiting"]
          /\ UNCHANGED <<srv, work, job>>
      BY <2>2 DEF Send
    <3>3. /\ Len(queue'[s]) = Len(q) + 1 /\ queue'[s][Len(q) + 1] = c
          /\ \A i \in 1..Len(q) : queue'[s][i] = q[i]
          /\ Len(q) \in Nat
      BY <3>1, <3>2, <1>g DEF TypeOK
    <3>4. \A t \in Servers \ {s} : queue'[t] = queue[t]
      BY <3>2, <1>g DEF TypeOK
    <3>5. \A d, t : Awaits(d, t) => d # c /\ Awaits(d, t)'
      BY <3>2, <1>g DEF Awaits, TypeOK
    <3>6. Awaits(c, s)'
      BY <3>2, <1>g DEF Awaits, TypeOK
    <3>7. \A w \in Workers : Busy(w)' => Busy(w) /\ job'[w] = job[w]
      BY <3>2 DEF Busy
    <3>8. ASSUME NEW t \in Servers, NEW i \in 1..Len(queue'[t])
          PROVE  Awaits(queue[t][i], t)'
      <4>1. CASE t = s /\ i = Len(q) + 1
        BY <3>2, <3>3, <3>6, <4>1 DEF Awaits
      <4>2. CASE t = s /\ i # Len(q) + 1
        <5>1. i \in 1..Len(q) /\ queue'[t][i] = q[i]
          BY <3>3, <3>8, <4>2
        <5> QED
          BY <5>1, <3>5, <1>a, <4>2
      <4>3. CASE t # s
        BY <3>4, <3>5, <3>8, <1>a, <4>3
      <4> QED
        BY <4>1, <4>2, <4>3
    <3>9. ASSUME NEW t \in Servers, NEW i \in 1..Len(queue'[t]),
                 NEW j \in 1..Len(queue'[t]), queue'[t][i] = queue'[t][j]
          PROVE  i = j
      <4>1. \A k \in 1..Len(q) : q[k] # c
        BY <3>1, <3>5, <1>a
      <4>2. CASE t = s
        <5>1. i \in 1..Len(q) + 1 /\ j \in 1..Len(q) + 1 /\ queue'[s][i] = queue'[s][j]
          BY <3>3, <3>9, <4>2
        <5>2. CASE i \in 1..Len(q) /\ j \in 1..Len(q)
          <6>1. q[i] = q[j]
            BY <3>3, <5>1, <5>2
          <6> QED
            BY <3>1, <5>2, <6>1, <1>c
        <5>3. CASE i = Len(q) + 1 /\ j # Len(q) + 1
          BY <3>3, <4>1, <5>1, <5>3
        <5>4. CASE j = Len(q) + 1 /\ i # Len(q) + 1
          BY <3>3, <4>1, <5>1, <5>4
        <5> QED
          BY <3>3, <5>1, <5>2, <5>3, <5>4
      <4>3. CASE t # s
        BY <3>4, <3>9, <4>3, <1>c
      <4> QED
        BY <4>2, <4>3
    <3>10. ASSUME NEW w \in Workers, Busy(w)',
                  NEW i \in 1..Len(queue'[Home[w]])
           PROVE  queue'[Home[w]][i] # job'[w]
      <4>1. job[w] # c
        BY <3>5, <3>7, <3>10, <1>b
      <4>2. Home[w] \in Servers
        OBVIOUS
      <4>3. CASE Home[w] = s
        <5>1. CASE i = Len(q) + 1
          BY <3>3, <3>7, <3>10, <4>1, <4>3, <5>1
        <5>2. CASE i # Len(q) + 1
          <6>1. i \in 1..Len(q) /\ queue'[Home[w]][i] = q[i]
            BY <3>3, <3>10, <4>3, <5>2
          <6>2. queue[Home[w]][i] # job[w]
            BY <6>1, <3>7, <3>10, <4>3, <1>d
          <6> QED
            BY <6>1, <6>2, <3>7, <3>10, <4>3
        <5> QED
          BY <5>1, <5>2
      <4>4. CASE Home[w] # s
        BY <3>4, <3>7, <3>10, <4>2, <4>4, <1>d
      <4> QED
        BY <4>3, <4>4
    <3>11. JobsAccounted'
      <4>1. \A w \in Workers : Busy(w)' => Awaits(job[w], Home[w])'
        BY <3>5, <3>7, <1>b DEF Awaits
      <4>2. \A w, x \in Workers : Busy(w)' /\ Busy(x)' /\ job'[w] = job'[x]
                                  => w = x
        BY <3>7, <1>e
      <4> QED
        BY <3>8, <3>9, <3>10, <4>1, <4>2 DEF JobsAccounted
    <3>12. ASSUME NEW d \in Callers, stage'[d] = "waiting"
           PROVE  \/ \E i \in 1..Len(queue'[srv'[d]]) : queue'[srv'[d]][i] = d
                  \/ \E w \in Workers : Busy(w)' /\ job'[w] = d
      <4>1. CASE d = c
        BY <3>2, <3>3, <4>1
      <4>2. CASE d # c
        <5>1. stage[d] = "waiting" /\ srv'[d] = srv[d] /\ srv[d] \in Servers
          BY <3>2, <3>12, <4>2, <1>g DEF TypeOK
        <5>2. CASE \E w \in Workers : Busy(w) /\ job[w] = d
          BY <3>2, <5>2 DEF Busy
        <5>3. ASSUME NEW i \in 1..Len(queue[srv[d]]), queue[srv[d]][i] = d
              PROVE  \E j \in 1..Len(queue'[srv[d]]) : queue'[srv[d]][j] = d
          <6>1. CASE srv[d] = s
            <7>1. i \in 1..Len(queue'[s]) /\ queue'[s][i] = d
              BY <3>3, <5>3, <6>1
            <7> QED
              BY <7>1, <6>1
          <6>2. CASE srv[d] # s
            BY <3>4, <5>1, <5>3, <6>2
          <6> QED
            BY <6>1, <6>2
        <5> QED
          BY <5>1, <5>2, <5>3, <1>f DEF WaiterHasJob
      <4> QED
        BY <4>1, <4>2
    <3>13. WaiterHasJob'
      BY <3>12 DEF WaiterHasJob
    <3> QED
      BY <3>11, <3>13
  <2> QED
    BY <1>1, <2>1, <2>2 DEF CallerStep
<1>2. ASSUME NEW w \in Workers, WorkerStep(w)
      PROVE  JobsAccounted' /\ WaiterHasJob'
  <2>1. CASE Take(w)
    <3> DEFINE s == Home[w]
               q == queue[s]
    <3>1. q \in Seq(Callers) /\ s \in Servers /\ q # <<>>
      BY <2>1, <1>g DEF Take, TypeOK
    <3>2. /\ queue' = [queue EXCEPT ![s] = Tail(q)]
          /\ job' = [job EXCEPT ![w] = Head(q)]
          /\ work[w] = "idle" /\ work' = [work EXCEPT ![w] = "lookup"]
          /\ UNCHANGED <<stage, srv>>
      BY <2>1 DEF Take, callerVars
    <3>3. /\ Len(q) \in Nat \ {0} /\ Len(queue'[s]) = Len(q) - 1
          /\ \A i \in 1..Len(q) - 1 : queue'[s][i] = q[i + 1]
          /\ job'[w] = q[1]
      BY <3>1, <3>2, <1>g DEF TypeOK
    <3>4. \A t \in Servers \ {s} : queue'[t] = queue[t]
      BY <3>2, <1>g DEF TypeOK
    <3>5. \A d, t : Awaits(d, t) => Awaits(d, t)'
      BY <3>2 DEF Awaits
    <3>6. /\ ~Busy(w) /\ Busy(w)'
          /\ \A x \in Workers \ {w} : (Busy(x)' <=> Busy(x)) /\ job'[x] = job[x]
      BY <3>2, <1>g DEF Busy, TypeOK
    <3>7. Awaits(q[1], s)
      BY <3>1, <3>3, <1>a
    <3>8. ASSUME NEW t \in Servers, NEW i \in 1..Len(queue'[t])
          PROVE  Awaits(queue[t][i], t)'
      <4>1. CASE t = s
        <5>1. i + 1 \in 1..Len(q) /\ queue'[t][i] = q[i + 1]
          BY <3>3, <3>8, <4>1
        <5> QED
          BY <5>1, <3>5, <1>a, <4>1
      <4>2. CASE t # s
        BY <3>4, <3>5, <3>8, <1>a, <4>2
      <4> QED
        BY <4>1, <4>2
    <3>9. ASSUME NEW x \in Workers, Busy(x)' PROVE Awaits(job[x], Home[x])'
      <4>1. CASE x = w
        BY <3>3, <3>5, <3>7, <4>1 DEF Awaits
      <4>2. CASE x # w
        BY <3>5, <3>6, <3>9, <4>2, <1>b DEF Awaits
      <4> QED
        BY <4>1, <4>2
    <3>10. ASSUME NEW t \in Servers, NEW i \in 1..Len(queue'[t]),
                  NEW j \in 1..Len(queue'[t]), queue'[t][i] = queue'[t][j]
           PROVE  i = j
      <4>1. CASE t = s
        <5>1. i + 1 \in 1..Len(q) /\ j + 1 \in 1..Len(q) /\ q[i + 1] = q[j + 1]
          BY <3>3, <3>10, <4>1
        <5> QED
          BY <5>1, <3>1, <3>10, <4>1, <1>c
      <4>2. CASE t # s
        BY <3>4, <3>10, <4>2, <1>c
      <4> QED
        BY <4>1, <4>2
    <3>11. ASSUME NEW x \in Workers, Busy(x)',
                  NEW i \in 1..Len(queue'[Home[x]])
           PROVE  queue'[Home[x]][i] # job'[x]
      <4>1. CASE x = w
        <5>1. i + 1 \in 1..Len(q) /\ 1 \in 1..Len(q) /\ queue'[s][i] = q[i + 1]
          BY <3>3, <3>11, <4>1
        <5>2. q[i + 1] # q[1]
          BY <5>1, <3>1, <1>c, <3>3, <3>11
        <5> QED
          BY <5>1, <5>2, <3>3, <4>1
      <4>2. CASE x # w
        <5>1. Busy(x) /\ job'[x] = job[x]
          BY <3>6, <3>11, <4>2
        <5>2. CASE Home[x] = s
          <6>1. i + 1 \in 1..Len(q) /\ queue'[s][i] = q[i + 1]
            BY <5>2, <3>3, <3>11
          <6> QED
            BY <6>1, <5>1, <5>2, <1>d
        <5>3. CASE Home[x] # s
          BY <5>1, <5>3, <3>4, <3>11, <1>d
        <5> QED
          BY <5>2, <5>3
      <4> QED
        BY <4>1, <4>2
    <3>12. ASSUME NEW x \in Workers, NEW y \in Workers, Busy(x)', Busy(y)',
                  job'[x] = job'[y]
           PROVE  x = y
      <4>1. ASSUME NEW z \in Workers \ {w}, Busy(z) PROVE job[z] # q[1]
        <5>1. CASE Home[z] = s
          BY <4>1, <5>1, <3>1, <3>3, <1>d
        <5>2. CASE Home[z] # s
          BY <4>1, <5>2, <3>7, <1>b DEF Awaits
        <5> QED
          BY <5>1, <5>2
      <4> QED
        BY <3>3, <3>6, <3>12, <4>1, <1>e
    <3>13. JobsAccounted'
      BY <3>8, <3>9, <3>10, <3>11, <3>12 DEF JobsAccounted
    <3>14. ASSUME NEW d \in Callers, stage'[d] = "waiting"
           PROVE  \/ \E i \in 1..Len(queue'[srv'[d]]) : queue'[srv'[d]][i] = d
                  \/ \E x \in Workers : Busy(x)' /\ job'[x] = d
      <4>1. stage[d] = "waiting" /\ srv'[d] = srv[d] /\ srv[d] \in Servers
        BY <3>2, <3>14, <1>g DEF TypeOK
      <4>2. CASE \E x \in Workers : Busy(x) /\ job[x] = d
        BY <3>6, <4>2
      <4>3. ASSUME NEW i \in 1..Len(queue[srv[d]]), queue[srv[d]][i] = d
            PROVE  \/ \E j \in 1..Len(queue'[srv[d]]) : queue'[srv[d]][j] = d
                   \/ \E x \in Workers : Busy(x)' /\ job'[x] = d
        <5>1. CASE srv[d] # s
          BY <5>1, <4>1, <4>3, <3>4
        <5>2. CASE srv[d] = s /\ i = 1
          BY <5>2, <4>3, <3>3, <3>6
        <5>3. CASE srv[d] = s /\ i # 1
          <6>1. i - 1 \in 1..Len(queue'[s]) /\ queue'[s][i - 1] = d
            BY <5>3, <4>3, <3>3
          <6> QED
            BY <6>1, <5>3
        <5> QED
          BY <5>1, <5>2, <5>3
      <4> QED
        BY <4>1, <4>2, <4>3, <1>f DEF WaiterHasJob
    <3>15. WaiterHasJob'
      BY <3>14 DEF WaiterHasJob
    <3> QED
      BY <3>13, <3>15
  <2>2. CASE Reply(w)
    <3>1. Busy(w) /\ Awaits(job[w], Home[w])
      BY <2>2, <1>b DEF Reply, Busy
    <3>2. /\ stage' = [stage EXCEPT ![job[w]] = "returning"]
          /\ job' = [job EXCEPT ![w] = NoJob]
          /\ work' = [work EXCEPT ![w] = "idle"]
          /\ UNCHANGED <<srv, queue>>
      BY <2>2 DEF Reply
    <3>3. \A d, s : Awaits(d, s) /\ d # job[w] => Awaits(d, s)'
      BY <3>1, <3>2, <1>g DEF Awaits, TypeOK
    <3>4. \A x \in Workers : Busy(x)' <=> x # w /\ Busy(x)
      BY <3>2, <1>g DEF Busy, TypeOK
    <3>5. \A x \in Workers \ {w} : job'[x] = job[x]
      BY <3>2, <1>g DEF TypeOK
    <3>6. ASSUME NEW s \in Servers, NEW i \in 1..Len(queue[s])
          PROVE  queue[s][i] # job[w]
      <4>1. Awaits(queue[s][i], s)
        BY <3>6, <1>a
      <4>2. CASE s = Home[w]
        BY <3>1, <3>6, <4>2, <1>d
      <4>3. CASE s # Home[w]
        BY <3>1, <4>1, <4>3 DEF Awaits
      <4> QED
        BY <4>2, <4>3
    <3>7. JobsAccounted'
      <4>1. \A s \in Servers : \A i \in 1..Len(queue'[s]) :
              Awaits(queue[s][i], s)'
        BY <3>2, <3>3, <3>6, <1>a
      <4>2. \A x \in Workers : Busy(x)' => Awaits(job[x], Home[x])'
        <5>1. ASSUME NEW x \in Workers, Busy(x)'
              PROVE  job'[x] = job[x] /\ job[x] # job[w] /\ Busy(x)
          BY <5>1, <3>1, <3>4, <3>5, <1>e
        <5> QED
          BY <5>1, <3>3, <1>b DEF Awaits
      <4>3. \A s \in Servers : \A i, j \in 1..Len(queue'[s]) :
              queue'[s][i] = queue'[s][j] => i = j
        BY <3>2, <1>c
      <4>4. \A x \in Workers : Busy(x)' =>
              \A i \in 1..Len(queue'[Home[x]]) : queue'[Home[x]][i] # job'[x]
        BY <3>2, <3>4, <3>5, <1>d
      <4>5. \A x, y \in Workers : Busy(x)' /\ Busy(y)' /\ job'[x] = job'[y]
                                  => x = y
        BY <3>4, <3>5, <1>e
      <4> QED
        BY <4>1, <4>2, <4>3, <4>4, <4>5 DEF JobsAccounted
    <3>8. WaiterHasJob'
      <4>1. ASSUME NEW d \in Callers, stage'[d] = "waiting"
            PROVE  d # job[w] /\ stage[d] = "waiting"
        BY <3>1, <3>2, <4>1, <1>g DEF Awaits, TypeOK
      <4>2. ASSUME NEW d \in Callers, stage'[d] = "waiting"
            PROVE  \/ \E i \in 1..Len(queue[srv[d]]) : queue[srv[d]][i] = d
                   \/ \E x \in Workers \ {w} : Busy(x) /\ job[x] = d
        BY <4>1, <4>2, <1>f DEF WaiterHasJob
      <4> QED
        BY <4>2, <3>2, <3>4, <3>5 DEF WaiterHasJob
    <3> QED
      BY <3>7, <3>8
  <2>3. CASE \/ Hit(w) \/ Miss(w) \/ Store(w) \/ Exit(w)
             \/ \E v \in Verdicts : Finish(w, v)
    <3>1. /\ UNCHANGED <<stage, srv, queue, job>>
          /\ \A x \in Workers : Busy(x)' <=> Busy(x)
      BY <2>3, <1>g DEF TypeOK, Hit, Miss, Store, Exit, Finish, callerVars, Busy
    <3> QED
      BY <3>1, SameJobs
  <2> QED
    BY <1>2, <2>1, <2>2, <2>3 DEF WorkerStep
<1>3. CASE \/ Cancel \/ CollectGarbage \/ CloseServer \/ QuitCleaner
           \/ Terminated \/ UNCHANGED vars
  <2>1. UNCHANGED <<stage, srv, queue, job, work>>
    BY <1>3 DEF Cancel, CollectGarbage, CloseServer, QuitCleaner, Terminated,
                vars, callerVars, workerVars
  <2> QED
    BY <2>1, SameJobs DEF Busy
<1> QED
  BY <1>1, <1>2, <1>3 DEF Next

(* Busy workers serve waiting callers, a waiting caller holds its key, and *)
(* a key has one holder: so one request per server and key.                *)
LEMMA InvSingleFlight == PipelineInv => SingleFlight
<1> SUFFICES ASSUME PipelineInv,
                    NEW w \in Workers, NEW x \in Workers, Busy(w), Busy(x),
                    Home[w] = Home[x], key[job[w]] = key[job[x]]
             PROVE  w = x
  BY DEF SingleFlight
<1>1. Awaits(job[w], Home[w]) /\ Awaits(job[x], Home[x])
  BY DEF PipelineInv, JobsAccounted
<1>2. job[w] = job[x]
  BY <1>1 DEF PipelineInv, LockTableExact, Awaits, Holds
<1> QED
  BY <1>2 DEF PipelineInv, JobsAccounted

(* The query of a job does not change while a worker has it in hand.       *)
LEMMA BusyKeyStable ==
    ASSUME PipelineInv, [Next]_vars, NEW w \in Workers, Busy(w)
    PROVE  /\ job[w] \in Callers /\ key'[job[w]] = key[job[w]]
           /\ key[job[w]] \in Keys
<1>1. job[w] \in Callers /\ stage[job[w]] = "waiting"
  BY DEF PipelineInv, JobsAccounted, Awaits
<1>2. key[job[w]] \in Keys
  BY <1>1 DEF PipelineInv, KeyKnown
<1>3. ASSUME NEW c \in Callers, CheckStep(c) \/ CallerStep(c)
      PROVE  key'[job[w]] = key[job[w]]
  BY <1>1, <1>3 DEF PipelineInv, TypeOK, CheckStep, CallerStep, Ask, Stop,
                    Acquire, Park, Send, Return
<1>4. ASSUME ~ \E c \in Callers : CheckStep(c) \/ CallerStep(c)
      PROVE  key'[job[w]] = key[job[w]]
  BY <1>4, CallersUndisturbed DEF Next
<1> QED
  BY <1>1, <1>2, <1>3, <1>4

(* What one step can do to the cache, to results and to worker phases.     *)
LEMMA ResultsPreserved == PipelineInv /\ [Next]_vars => ResultsHonest'
<1> SUFFICES ASSUME PipelineInv, [Next]_vars PROVE ResultsHonest'
  OBVIOUS
<1> DEFINE Success(s, k) == [verdict |-> "ok", uri |-> s, key |-> k]
<1>a. \A s \in Servers, k \in Keys :
        cache[<<s, k>>] # NoAnswer => cache[<<s, k>>] = Success(s, k)
  BY DEF PipelineInv, ResultsHonest, CacheKey
<1>b. \A w \in Workers : work[w] = "store" => got[w] = Verdict(w, "ok")
  BY DEF PipelineInv, ResultsHonest
<1>c. \A w \in Workers : work[w] = "reply" =>
        \E v \in Verdicts : got[w] = Verdict(w, v) /\ (v = "canceled" => cancelled)
  BY DEF PipelineInv, ResultsHonest
<1>g. TypeOK
  BY DEF PipelineInv
<1>d. \A w \in Workers : \A v : Busy(w) /\ job'[w] = job[w]
                            => Verdict(w, v)' = Verdict(w, v)
  BY BusyKeyStable DEF Verdict
<1>1. SUFFICES
        /\ \A s \in Servers, k \in Keys :
             cache'[<<s, k>>] # NoAnswer => cache'[<<s, k>>] = Success(s, k)
        /\ \A w \in Workers :
             work'[w] = "store" => got'[w] = Verdict(w, "ok")'
        /\ \A w \in Workers : work'[w] = "reply" =>
             \E v \in Verdicts :
                 got'[w] = Verdict(w, v)' /\ (v = "canceled" => cancelled')
  BY DEF ResultsHonest, CacheKey
<1>2. CASE \E w \in Workers : WorkerStep(w)
  <2> PICK w \in Workers : WorkerStep(w)
    BY <1>2
  <2>1. ASSUME NEW x \in Workers \ {w}
        PROVE  /\ work'[x] = work[x] /\ got'[x] = got[x] /\ job'[x] = job[x]
               /\ cancelled' = cancelled
    BY <1>g DEF TypeOK, WorkerStep, Take, Hit, Miss, Finish, Store, Reply, Exit
  <2>2. /\ \A x \in Workers \ {w} :
             work'[x] = "store" => got'[x] = Verdict(x, "ok")'
        /\ \A x \in Workers \ {w} : work'[x] = "reply" =>
             \E v \in Verdicts :
                 got'[x] = Verdict(x, v)' /\ (v = "canceled" => cancelled')
    BY <2>1, <1>b, <1>c, <1>d DEF Busy
  <2>3. CASE Take(w) \/ Reply(w) \/ Exit(w)
    <3>1. work'[w] \in {"lookup", "idle", "exited"} /\ UNCHANGED cache
      BY <2>3, <1>g DEF TypeOK, Take, Reply, Exit
    <3> QED
      BY <3>1, <2>2, <1>a
  <2>4. CASE Hit(w)
    <3>1. Busy(w) /\ Awaits(job[w], Home[w]) /\ key[job[w]] \in Keys
      BY <2>4, BusyKeyStable DEF Hit, Busy, PipelineInv, JobsAccounted
    <3>2. /\ work'[w] = "reply" /\ job'[w] = job[w]
          /\ got'[w] = cache[<<Home[w], key[job[w]]>>]
          /\ got'[w] # NoAnswer /\ UNCHANGED cache
      BY <2>4, <1>g DEF Hit, TypeOK, CacheKey
    <3>3. got'[w] = Verdict(w, "ok")
      BY <3>1, <3>2, <1>a DEF Verdict
    <3>4. got'[w] = Verdict(w, "ok")'
      BY <3>1, <3>2, <3>3, <1>d
    <3> QED
      BY <2>2, <3>2, <3>4, <1>a
  <2>5. CASE Miss(w)
    <3>1. Busy(w) /\ job'[w] = job[w] /\ UNCHANGED cache
      BY <2>5 DEF Miss, Busy
    <3>2. \/ work'[w] = "running"
          \/ work'[w] = "reply" /\ got'[w] = Verdict(w, "canceled") /\ cancelled'
      BY <2>5, <1>g DEF Miss, TypeOK
    <3> QED
      BY <2>2, <3>1, <3>2, <1>a, <1>d
  <2>6. ASSUME NEW v \in Verdicts, Finish(w, v)
        PROVE  ResultsHonest'
    <3>1. Busy(w) /\ job'[w] = job[w] /\ UNCHANGED cache
      BY <2>6 DEF Finish, Busy
    <3>2. /\ work'[w] = IF v = "ok" THEN "store" ELSE "reply"
          /\ got'[w] = Verdict(w, v) /\ (v = "canceled" => cancelled')
      BY <2>6, <1>g DEF Finish, TypeOK
    <3> QED
      BY <2>2, <3>1, <3>2, <1>a, <1>d DEF ResultsHonest, CacheKey
  <2>7. CASE Store(w)
    <3>1. Busy(w) /\ Awaits(job[w], Home[w]) /\ key[job[w]] \in Keys
      BY <2>7, BusyKeyStable DEF Store, Busy, PipelineInv, JobsAccounted
    <3>2. /\ work[w] = "store" /\ work'[w] = "reply"
          /\ job'[w] = job[w] /\ got'[w] = got[w]
          /\ cache' = [cache EXCEPT ![<<Home[w], key[job[w]]>>] = got[w]]
      BY <2>7, <1>g DEF Store, TypeOK, CacheKey
    <3>3. got[w] = Success(Home[w], key[job[w]])
      BY <3>2, <1>b DEF Verdict
    <3>4. ASSUME NEW s \in Servers, NEW k \in Keys, cache'[<<s, k>>] # NoAnswer
          PROVE  cache'[<<s, k>>] = Success(s, k)
      <4> HIDE DEF Success
      <4>1. CASE s = Home[w] /\ k = key[job[w]]
        BY <3>2, <3>3, <4>1, <1>g DEF TypeOK
      <4>2. CASE ~(s = Home[w] /\ k = key[job[w]])
        BY <3>2, <3>4, <4>2, <1>a, <1>g DEF TypeOK
      <4> QED
        BY <4>1, <4>2
    <3>5. got'[w] = Verdict(w, "ok")'
      BY <3>1, <3>2, <1>b, <1>d
    <3> QED
      BY <2>2, <3>2, <3>4, <3>5
  <2> QED
    BY <2>3, <2>4, <2>5, <2>6, <2>7 DEF WorkerStep, ResultsHonest, CacheKey
<1>3. CASE \E c \in Callers : CheckStep(c) \/ CallerStep(c)
  <2>1. UNCHANGED <<work, job, got, cache, cancelled>>
    BY <1>3 DEF CheckStep, CallerStep, Ask, Stop, Acquire, Park, Send, Return,
                workerVars
  <2> QED
    BY <2>1, <1>a, <1>b, <1>c, <1>d DEF Busy
<1>4. CASE Cancel \/ CloseServer \/ QuitCleaner \/ Terminated \/ UNCHANGED vars
  <2>1. UNCHANGED <<work, job, got, cache>> /\ (cancelled => cancelled')
    BY <1>4 DEF Cancel, CloseServer, QuitCleaner, Terminated, vars, workerVars
  <2> QED
    BY <2>1, <1>a, <1>b, <1>c, <1>d DEF Busy
<1>5. CASE CollectGarbage
  <2>1. UNCHANGED <<work, job, got, cancelled>>
    BY <1>5 DEF CollectGarbage, workerVars
  <2>2. ASSUME NEW s \in Servers, NEW k \in Keys
        PROVE  cache'[<<s, k>>] \in {NoAnswer, cache[<<s, k>>]}
    BY <1>5 DEF CollectGarbage
  <2> QED
    BY <2>1, <2>2, <1>a, <1>b, <1>c, <1>d DEF Busy
<1> QED
  BY <1>2, <1>3, <1>4, <1>5 DEF Next

(* Only Store fills the cache, and no other worker is fetching the same    *)
(* entry at that time: SingleFlight.                                       *)
LEMMA MissPreserved == PipelineInv /\ [Next]_vars => RunOnlyOnMiss'
<1> SUFFICES ASSUME PipelineInv, [Next]_vars,
                    NEW x \in Workers, work'[x] \in {"running", "store"}
             PROVE  cache'[<<Home[x], key'[job'[x]]>>] = NoAnswer
  BY DEF RunOnlyOnMiss, CacheKey
<1>a. \A y \in Workers : work[y] \in {"running", "store"} =>
        cache[<<Home[y], key[job[y]]>>] = NoAnswer
  BY DEF PipelineInv, RunOnlyOnMiss, CacheKey
<1>g. TypeOK
  BY DEF PipelineInv
<1>1. ASSUME Busy(x), job'[x] = job[x],
             cache'[<<Home[x], key[job[x]]>>] = NoAnswer
      PROVE  cache'[<<Home[x], key'[job'[x]]>>] = NoAnswer
  BY <1>1, BusyKeyStable
<1>2. ASSUME NEW w \in Workers, WorkerStep(w)
      PROVE  cache'[<<Home[x], key'[job'[x]]>>] = NoAnswer
  <2>1. CASE Store(w)
    <3>1. Busy(w) /\ key[job[w]] \in Keys
      BY <2>1, BusyKeyStable DEF Store, Busy
    <3>2. w # x /\ work[x] \in {"running", "store"} /\ job'[x] = job[x]
      BY <2>1, <1>g DEF Store, TypeOK
    <3>3. Busy(x) /\ key[job[x]] \in Keys
      BY <3>2, BusyKeyStable DEF Busy
    <3>4. ~(Home[w] = Home[x] /\ key[job[w]] = key[job[x]])
      BY <3>1, <3>2, <3>3, InvSingleFlight DEF SingleFlight
    <3>5. cache' = [cache EXCEPT ![<<Home[w], key[job[w]]>>] = got[w]]
      BY <2>1 DEF Store, CacheKey
    <3>6. <<Home[x], key[job[x]]>> \in CacheKeys
      BY <3>3
    <3>7. cache'[<<Home[x], key[job[x]]>>] = cache[<<Home[x], key[job[x]]>>]
      BY <3>4, <3>5, <3>6, <1>g DEF TypeOK
    <3> QED
      BY <3>2, <3>3, <3>7, <1>1, <1>a
  <2>2. CASE ~Store(w)
    <3>1. UNCHANGED cache
      BY <1>2, <2>2 DEF WorkerStep, Take, Hit, Miss, Finish, Reply, Exit
    <3>2. CASE work[x] \in {"running", "store"}
      <4>1. job'[x] = job[x] /\ Busy(x)
        BY <1>2, <3>2, <1>g DEF TypeOK, WorkerStep, Take, Hit, Miss, Finish,
                                Store, Reply, Exit, Busy
      <4> QED
        BY <3>1, <3>2, <4>1, <1>1, <1>a
    <3>3. CASE work[x] \notin {"running", "store"}
      <4>1. x = w /\ Miss(w)
        BY <1>2, <3>3, <1>g DEF TypeOK, WorkerStep, Take, Hit, Miss, Finish,
                                Store, Reply, Exit
      <4>2. Busy(x) /\ job'[x] = job[x]
            /\ cache[<<Home[x], key[job[x]]>>] = NoAnswer
        BY <4>1 DEF Miss, Busy, CacheKey
      <4> QED
        BY <3>1, <4>2, <1>1
    <3> QED
      BY <3>2, <3>3
  <2> QED
    BY <2>1, <2>2
<1>3. ASSUME UNCHANGED <<work, job>>,
             \A s \in Servers, k \in Keys :
                cache'[<<s, k>>] \in {NoAnswer, cache[<<s, k>>]}
      PROVE  cache'[<<Home[x], key'[job'[x]]>>] = NoAnswer
  <2>1. Busy(x) /\ key[job[x]] \in Keys
    BY <1>3, BusyKeyStable DEF Busy
  <2> QED
    BY <1>3, <2>1, <1>1, <1>a
<1>4. CASE \/ \E c \in Callers : CheckStep(c) \/ CallerStep(c)
           \/ Cancel \/ CloseServer \/ QuitCleaner \/ Terminated
           \/ UNCHANGED vars
  <2>1. UNCHANGED <<work, job, cache>>
    BY <1>4 DEF CheckStep, CallerStep, Ask, Stop, Acquire, Park, Send, Return,
                Cancel, CloseServer, QuitCleaner, Terminated, vars, workerVars
  <2> QED
    BY <2>1, <1>3
<1>5. CASE CollectGarbage
  <2>1. UNCHANGED <<work, job>>
    BY <1>5 DEF CollectGarbage, workerVars
  <2>2. \A s \in Servers, k \in Keys :
          cache'[<<s, k>>] \in {NoAnswer, cache[<<s, k>>]}
    BY <1>5 DEF CollectGarbage
  <2> QED
    BY <2>1, <2>2, <1>3
<1> QED
  BY <1>2, <1>4, <1>5 DEF Next

(* The invariant is inductive, and holds of every reachable state.         *)
THEOREM PipelineInvariant == Spec => []PipelineInv
<1>1. Init => PipelineInv
  BY InitInv
<1>2. PipelineInv /\ [Next]_vars => PipelineInv'
  BY TypePreserved, KeyKnownPreserved, LocksPreserved, JobsPreserved,
     ResultsPreserved, MissPreserved DEF PipelineInv
<1> QED
  BY <1>1, <1>2, PTL DEF Spec

(* One request per server and key at a time, whatever the number of        *)
(* callers, workers and keys.                                              *)
THEOREM SingleFlightHolds == Spec => []SingleFlight
  BY PipelineInvariant, InvSingleFlight, PTL

(* The invariants of the module, for every value of the constants.         *)
THEOREM PipelineSafety ==
    Spec => [](TypeOK /\ LockTableExact /\ NoLostWakeup /\ JobsAccounted
               /\ WaiterHasJob /\ ResultsHonest /\ RunOnlyOnMiss)
<1>1. PipelineInv => TypeOK /\ LockTableExact /\ NoLostWakeup /\ JobsAccounted
                     /\ WaiterHasJob /\ ResultsHonest /\ RunOnlyOnMiss
  BY DEF PipelineInv
<1> QED
  BY <1>1, PipelineInvariant, PTL

(* What a worker did not find in the cache is still not there when its     *)
(* answer arrives, however many workers share the cache, and whatever the  *)
(* cleaner drops meanwhile (processJob under partitionLocker).             *)
THEOREM MissesStayMisses == Spec => []RunOnlyOnMiss
  BY PipelineSafety, PTL

(* An answer is never that of another query or of another server, and no   *)
(* failure is served from the cache (Prometheus.doRequest and processJob). *)
THEOREM AnswersAreHonest == Spec => []ResultsHonest
  BY PipelineSafety, PTL

(* Refinement: the pipeline does what a failover list promises.  A query   *)
(* is judged when a worker replies and moves on when its caller returns;   *)
(* everything else is invisible to the check.                              *)
LEMMA ContractStep ==
    ASSUME PipelineInv, [Next]_vars
    PROVE  Contract!ContractNext \/ UNCHANGED Contract!cvars
<1> DEFINE phase == [c \in Callers |-> PhaseOf(stage[c])]
<1>g. TypeOK
  BY DEF PipelineInv
<1>0. ASSUME \A c \in Callers : PhaseOf(stage'[c]) = PhaseOf(stage[c]),
             UNCHANGED <<srv, key, answer, cancelled>>
      PROVE  UNCHANGED Contract!cvars
  BY <1>0 DEF Contract!cvars
<1>1. ASSUME NEW c \in Callers, NEW k \in Keys, Ask(c, k)
      PROVE  Contract!AskGroup(c, k)
  <2>1. phase' = [phase EXCEPT ![c] = "asking"] /\ phase[c] = "idle"
    BY <1>1, <1>g DEF Ask, TypeOK, PhaseOf
  <2> QED
    BY <1>1, <2>1 DEF Ask, Contract!AskGroup
<1>2. ASSUME NEW c \in Callers, Stop(c) \/ Acquire(c) \/ Park(c) \/ Send(c)
      PROVE  UNCHANGED Contract!cvars
  BY <1>0, <1>2, <1>g DEF Stop, Acquire, Park, Send, TypeOK, PhaseOf
<1>3. ASSUME NEW c \in Callers, Return(c)
      PROVE  Contract!NextServer(c) \/ Contract!Deliver(c)
  <2> DEFINE moves == IsUnavailableError(answer[c].verdict) /\ srv[c] < NumServers
  <2>1. /\ moves <=> NextServer(c) # 0
        /\ moves => NextServer(c) = srv[c] + 1
    BY <1>g DEF NextServer, TypeOK
  <2>2. phase[c] = "judged"
    BY <1>3 DEF Return, PhaseOf
  <2>3. phase' = [phase EXCEPT ![c] = IF moves THEN "asking" ELSE "idle"]
    BY <1>3, <1>g, <2>1 DEF Return, Woken, Parked, TypeOK, PhaseOf
  <2>4. CASE moves
    <3>1. srv' = [srv EXCEPT ![c] = @ + 1] /\ key' = key
      BY <1>3, <1>g, <2>1, <2>4 DEF Return, TypeOK
    <3> QED
      BY <1>3, <2>2, <2>3, <2>4, <3>1
         DEF Return, Contract!NextServer, Contract!TriesNext, IsUnavailableError,
             NoAnswer, Contract!NoAnswer, NoKey, Contract!NoKey
  <2>5. CASE ~moves
    <3>1. /\ srv' = [srv EXCEPT ![c] = 1] /\ key' = [key EXCEPT ![c] = NoKey]
          /\ answer' = [answer EXCEPT ![c] = NoAnswer] /\ UNCHANGED cancelled
      BY <1>3, <2>1, <2>5 DEF Return
    <3>2. Contract!TriesNext(answer[c].verdict) => srv[c] = NumServers
      BY <1>g, <2>5 DEF Contract!TriesNext, IsUnavailableError, TypeOK
    <3> QED
      BY <2>2, <2>3, <2>5, <3>1, <3>2
         DEF Contract!Deliver, NoAnswer, Contract!NoAnswer, NoKey, Contract!NoKey
  <2> QED
    BY <2>4, <2>5
<1>4. ASSUME NEW w \in Workers, Reply(w)
      PROVE  \E c \in Callers, v \in Verdicts : Contract!Judge(c, v)
  <2> DEFINE c == job[w]
  <2>1. c \in Callers /\ stage[c] = "waiting" /\ srv[c] = Home[w]
    BY <1>4 DEF Reply, Busy, PipelineInv, JobsAccounted, Awaits
  <2>2. PICK v \in Verdicts : got[w] = Verdict(w, v) /\ (v = "canceled" => cancelled)
    BY <1>4 DEF Reply, PipelineInv, ResultsHonest
  <2>3. answer' = [answer EXCEPT ![c] =
                      [verdict |-> v, uri |-> srv[c], key |-> key[c]]]
    BY <1>4, <2>1, <2>2 DEF Reply, Verdict
  <2>4. phase[c] = "asking" /\ phase' = [phase EXCEPT ![c] = "judged"]
    BY <1>4, <1>g, <2>1 DEF Reply, TypeOK, PhaseOf
  <2>5. UNCHANGED <<srv, key, cancelled>>
    BY <1>4 DEF Reply
  <2>6. Contract!Judge(c, v)
    BY <2>2, <2>3, <2>4, <2>5 DEF Contract!Judge
  <2> QED
    BY <2>1, <2>6
<1>5. ASSUME NEW w \in Workers,
             \/ Take(w) \/ Hit(w) \/ Miss(w) \/ Store(w) \/ Exit(w)
             \/ \E v \in Verdicts : Finish(w, v)
      PROVE  UNCHANGED Contract!cvars
  <2>1. UNCHANGED <<stage, srv, key, answer, cancelled>>
    BY <1>5 DEF Take, Hit, Miss, Store, Exit, Finish, callerVars
  <2> QED
    BY <1>0, <2>1
<1>6. ASSUME Cancel PROVE Contract!ContractNext
  <2>1. UNCHANGED <<stage, srv, key, answer>>
    BY <1>6 DEF Cancel, callerVars
  <2>2. UNCHANGED phase
    BY <2>1
  <2>3. Contract!CancelRun
    BY <1>6, <2>1, <2>2 DEF Cancel, Contract!CancelRun
  <2> QED
    BY <2>3 DEF Contract!ContractNext
<1>7. CASE CollectGarbage \/ CloseServer \/ QuitCleaner \/ Terminated
           \/ UNCHANGED vars
  <2>1. UNCHANGED <<stage, srv, key, answer, cancelled>>
    BY <1>7 DEF CollectGarbage, CloseServer, QuitCleaner, Terminated, vars,
                callerVars
  <2> QED
    BY <1>0, <2>1
<1> QED
  <2>1. ASSUME NEW c \in Callers, CheckStep(c) \/ CallerStep(c)
        PROVE  Contract!ContractNext \/ UNCHANGED Contract!cvars
    BY <2>1, <1>1, <1>2, <1>3
       DEF CheckStep, CallerStep, Contract!ContractNext, Contract!GroupStep
  <2>2. ASSUME NEW w \in Workers, WorkerStep(w)
        PROVE  Contract!ContractNext \/ UNCHANGED Contract!cvars
    BY <2>2, <1>4, <1>5
       DEF WorkerStep, Contract!ContractNext, Contract!GroupStep, Contract!Verdicts
  <2> QED
    BY <2>1, <2>2, <1>6, <1>7 DEF Next, Contract!ContractNext

(* The pipeline with its locks, channels, workers and cache implements the *)
(* failover contract (its safety half; liveness is model-checked).         *)
THEOREM ImplementsContractSafely == Spec => Contract!ContractSafe
<1>1. Init => Contract!ContractInit
  BY DEF Init, Contract!ContractInit, PhaseOf, NoAnswer, Contract!NoAnswer,
         NoKey, Contract!NoKey
<1>2. PipelineInv /\ [Next]_vars =>
        [Contract!ContractNext]_(Contract!cvars)
  BY ContractStep
<1> QED
  BY <1>1, <1>2, PipelineInvariant, PTL DEF Spec, Contract!ContractSafe
============================================================================
