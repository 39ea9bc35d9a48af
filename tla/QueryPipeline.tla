--------------------------- MODULE QueryPipeline ---------------------------
(***************************************************************************)
(* internal/promapi: how a query of a check reaches a Prometheus server.   *)
(*                                                                         *)
(* Callers are the goroutines that run checks (the scan workers of         *)
(* cmd/pint).  A caller asks a FailoverGroup; the group tries its servers  *)
(* in order; each attempt takes the per-key lock of that server, pushes a  *)
(* job on its bounded channel, waits for a worker goroutine to answer on   *)
(* an unbuffered channel and releases the lock.  Workers consult the cache *)
(* the group shares, send the request on a miss and store what succeeded.  *)
(* cacheCleaner evicts entries at its ticks; Close ends everything once    *)
(* the callers are gone.                                                   *)
(*                                                                         *)
(* Which cache entries are old enough to go is left open here (any subset  *)
(* may be evicted): time is the subject of QueryCache.                     *)
(***************************************************************************)
EXTENDS Naturals, Sequences

CONSTANTS Callers,     \* goroutines running checks
          Keys,        \* lock keys: endpoint and query
          NumServers,  \* length of the failover list
          Workers,     \* all the query workers of the group
          Home,        \* the server each worker was started for
          QueueCap,    \* capacity of Prometheus.queries (concurrency * 10)
          MaxCalls     \* bound: queries one caller makes in a run

ASSUME PipelineAssumption ==
    /\ NumServers \in Nat \ {0}
    /\ Home \in [Workers -> 1..NumServers]
    /\ QueueCap \in Nat \ {0}
    /\ MaxCalls \in Nat

Servers == 1..NumServers

Verdicts == {"ok", "unavailable", "rejected", "canceled"}
NoKey == "none"
NoJob == "none"
Answers == [verdict: Verdicts, uri: Servers, key: Keys]
NoAnswer == [verdict |-> "none", uri |-> 0, key |-> NoKey]

(* IsUnavailableError: an APIError counts only when the server failed,     *)
(* every other error does, context.Canceled included.                      *)
IsUnavailableError(v) == v \in {"unavailable", "canceled"}

VARIABLES
    stage,      \* where each caller is in FailoverGroup.Query
    srv,        \* index of the server the caller is trying
    key,        \* key of its current query, NoKey between queries
    answer,     \* result received from a worker and not yet returned
    calls,      \* queries made so far
    locked,     \* partitionLocker.s of each server
    queue,      \* Prometheus.queries of each server: jobs, named by caller
    work,       \* where each worker is in queryWorker
    job,        \* the job it has in hand, named by its caller
    got,        \* the result it will send back
    cache,      \* queryCache.entries: cache key to stored answer
    cancelled,  \* the context of the run is done
    closed,     \* how many servers FailoverGroup.Close has closed
    cleaner     \* cacheCleaner: "running" or "done"

callerVars == <<stage, srv, key, answer, calls>>
workerVars == <<work, job, got>>
vars == <<stage, srv, key, answer, calls, locked, queue, work, job, got,
          cache, cancelled, closed, cleaner>>

Stages == {"idle", "locking", "parked", "sending", "waiting", "returning",
           "stopped"}
Phases == {"idle", "lookup", "running", "store", "reply", "exited"}
CacheKeys == Servers \X Keys

(* A caller past lock() and before unlock().                               *)
Holds(c) == stage[c] \in {"sending", "waiting", "returning"}

(* A worker between taking a job and handing its result over.              *)
Busy(w) == work[w] \in {"lookup", "running", "store", "reply"}

(* The hash of the server's URI, the endpoint and the query.               *)
CacheKey(s, k) == <<s, k>>

TypeOK ==
    /\ stage \in [Callers -> Stages]
    /\ srv \in [Callers -> Servers]
    /\ key \in [Callers -> Keys \cup {NoKey}]
    /\ answer \in [Callers -> Answers \cup {NoAnswer}]
    /\ calls \in [Callers -> 0..MaxCalls]
    /\ locked \in [Servers -> SUBSET Keys]
    /\ queue \in [Servers -> Seq(Callers)]
    /\ work \in [Workers -> Phases]
    /\ job \in [Workers -> Callers \cup {NoJob}]
    /\ got \in [Workers -> Answers \cup {NoAnswer}]
    /\ cache \in [CacheKeys -> Answers \cup {NoAnswer}]
    /\ cancelled \in BOOLEAN
    /\ closed \in 0..NumServers
    /\ cleaner \in {"running", "done"}

Init ==
    /\ stage = [c \in Callers |-> "idle"]
    /\ srv = [c \in Callers |-> 1]
    /\ key = [c \in Callers |-> NoKey]
    /\ answer = [c \in Callers |-> NoAnswer]
    /\ calls = [c \in Callers |-> 0]
    /\ locked = [s \in Servers |-> {}]
    /\ queue = [s \in Servers |-> <<>>]
    /\ work = [w \in Workers |-> "idle"]
    /\ job = [w \in Workers |-> NoJob]
    /\ got = [w \in Workers |-> NoAnswer]
    /\ cache = [e \in CacheKeys |-> NoAnswer]
    /\ cancelled = FALSE
    /\ closed = 0
    /\ cleaner = "running"
----------------------------------------------------------------------------
(* Callers: FailoverGroup.Query around Prometheus.Query.                   *)

Ask(c, k) ==
    /\ stage[c] = "idle"
    /\ calls[c] < MaxCalls
    /\ stage' = [stage EXCEPT ![c] = "locking"]
    /\ key' = [key EXCEPT ![c] = k]
    /\ calls' = [calls EXCEPT ![c] = @ + 1]
    /\ UNCHANGED <<srv, answer, locked, queue, workerVars, cache, cancelled,
                   closed, cleaner>>

(* partitionLocker.lock: one pass of its loop, under the locker's mutex.   *)
Acquire_Unchecked(c) ==
    /\ stage[c] = "locking"
    /\ locked' = [locked EXCEPT ![srv[c]] = @ \cup {key[c]}]
    /\ stage' = [stage EXCEPT ![c] = "sending"]
    /\ UNCHANGED <<srv, key, answer, calls, queue, workerVars, cache,
                   cancelled, closed, cleaner>>

Acquire(c) ==
    /\ stage[c] = "locking"
    /\ key[c] \notin locked[srv[c]]
    /\ locked' = [locked EXCEPT ![srv[c]] = @ \cup {key[c]}]
    /\ stage' = [stage EXCEPT ![c] = "sending"]
    /\ UNCHANGED <<srv, key, answer, calls, queue, workerVars, cache,
                   cancelled, closed, cleaner>>

(* Cond.Wait joins the wait list and drops the mutex in one step.          *)
Park(c) ==
    /\ stage[c] = "locking"
    /\ key[c] \in locked[srv[c]]
    /\ stage' = [stage EXCEPT ![c] = "parked"]
    /\ UNCHANGED <<srv, key, answer, calls, locked, queue, workerVars, cache,
                   cancelled, closed, cleaner>>

(* A send on a closed channel would panic; none is: see ScanOver.          *)
Send(c) ==
    /\ stage[c] = "sending"
    /\ closed < srv[c]
    /\ Len(queue[srv[c]]) < QueueCap
    /\ queue' = [queue EXCEPT ![srv[c]] = Append(@, c)]
    /\ stage' = [stage EXCEPT ![c] = "waiting"]
    /\ UNCHANGED <<srv, key, answer, calls, locked, workerVars, cache,
                   cancelled, closed, cleaner>>

(* The server FailoverGroup.Query tries next, 0 when it returns.           *)
NextServer_AnyError(c) ==
    IF answer[c].verdict # "ok" /\ srv[c] < NumServers THEN srv[c] + 1 ELSE 0

NextServer_Retries(c) ==
    IF IsUnavailableError(answer[c].verdict) THEN (srv[c] % NumServers) + 1
    ELSE 0

NextServer(c) ==
    IF IsUnavailableError(answer[c].verdict) /\ srv[c] < NumServers
    THEN srv[c] + 1 ELSE 0

(* partitionLocker.unlock, deferred by Prometheus.Query: what it deletes   *)
(* from the lock table, and whom its Broadcast wakes.                      *)
Released_All(c) == locked[srv[c]]
Released(c) == {key[c]}

Parked(s) == {d \in Callers : stage[d] = "parked" /\ srv[d] = s}

Woken_One(c) ==
    IF Parked(srv[c]) = {} THEN {} ELSE {CHOOSE d \in Parked(srv[c]) : TRUE}
Woken(c) == Parked(srv[c])

Return(c) ==
    /\ stage[c] = "returning"
    /\ locked' = [locked EXCEPT ![srv[c]] = @ \ Released(c)]
    /\ stage' = [d \in Callers |->
                   IF d = c THEN IF NextServer(c) # 0 THEN "locking" ELSE "idle"
                   ELSE IF d \in Woken(c) THEN "locking" ELSE stage[d]]
    /\ srv' = [srv EXCEPT ![c] = IF NextServer(c) # 0 THEN NextServer(c) ELSE 1]
    /\ key' = [key EXCEPT ![c] = IF NextServer(c) # 0 THEN @ ELSE NoKey]
    /\ answer' = [answer EXCEPT ![c] = NoAnswer]
    /\ UNCHANGED <<calls, queue, workerVars, cache, cancelled, closed,
                   cleaner>>

(* The goroutine has no more checks to run.                                *)
Stop(c) ==
    /\ stage[c] = "idle"
    /\ stage' = [stage EXCEPT ![c] = "stopped"]
    /\ UNCHANGED <<srv, key, answer, calls, locked, queue, workerVars, cache,
                   cancelled, closed, cleaner>>
----------------------------------------------------------------------------
(* Workers: queryWorker and processJob.                                    *)

Take(w) ==
    /\ work[w] = "idle"
    /\ queue[Home[w]] # <<>>
    /\ job' = [job EXCEPT ![w] = Head(queue[Home[w]])]
    /\ queue' = [queue EXCEPT ![Home[w]] = Tail(@)]
    /\ work' = [work EXCEPT ![w] = "lookup"]
    /\ UNCHANGED <<callerVars, locked, got, cache, cancelled, closed, cleaner>>

Hit(w) ==
    LET entry == cache[CacheKey(Home[w], key[job[w]])] IN
    /\ work[w] = "lookup"
    /\ entry # NoAnswer
    /\ got' = [got EXCEPT ![w] = entry]
    /\ work' = [work EXCEPT ![w] = "reply"]
    /\ UNCHANGED <<callerVars, locked, queue, job, cache, cancelled, closed,
                   cleaner>>

Verdict(w, v) == [verdict |-> v, uri |-> Home[w], key |-> key[job[w]]]

(* A miss sends the request; http.Client.Do refuses a context that is      *)
(* already done.                                                           *)
Miss(w) ==
    /\ work[w] = "lookup"
    /\ cache[CacheKey(Home[w], key[job[w]])] = NoAnswer
    /\ IF cancelled
         THEN /\ got' = [got EXCEPT ![w] = Verdict(w, "canceled")]
              /\ work' = [work EXCEPT ![w] = "reply"]
         ELSE /\ work' = [work EXCEPT ![w] = "running"]
              /\ UNCHANGED got
    /\ UNCHANGED <<callerVars, locked, queue, job, cache, cancelled, closed,
                   cleaner>>

(* Run returns, at the latest when its own timeout expires.  A context     *)
(* cancelled in flight surfaces as "canceled", or as "rejected" when it    *)
(* cuts the response body (a JSON parse error).                            *)
Finish_CachesErrors(w, v) ==
    /\ work[w] = "running"
    /\ v = "canceled" => cancelled
    /\ got' = [got EXCEPT ![w] = Verdict(w, v)]
    /\ work' = [work EXCEPT ![w] = IF v = "canceled" THEN "reply" ELSE "store"]
    /\ UNCHANGED <<callerVars, locked, queue, job, cache, cancelled, closed,
                   cleaner>>

Finish(w, v) ==
    /\ work[w] = "running"
    /\ v = "canceled" => cancelled
    /\ got' = [got EXCEPT ![w] = Verdict(w, v)]
    /\ work' = [work EXCEPT ![w] = IF v = "ok" THEN "store" ELSE "reply"]
    /\ UNCHANGED <<callerVars, locked, queue, job, cache, cancelled, closed,
                   cleaner>>

Store(w) ==
    /\ work[w] = "store"
    /\ cache' = [cache EXCEPT ![CacheKey(Home[w], key[job[w]])] = got[w]]
    /\ work' = [work EXCEPT ![w] = "reply"]
    /\ UNCHANGED <<callerVars, locked, queue, job, got, cancelled, closed,
                   cleaner>>

(* job.result <- ...: a rendezvous with the caller that waits.             *)
Reply(w) ==
    /\ work[w] = "reply"
    /\ stage[job[w]] = "waiting"
    /\ answer' = [answer EXCEPT ![job[w]] = got[w]]
    /\ stage' = [stage EXCEPT ![job[w]] = "returning"]
    /\ work' = [work EXCEPT ![w] = "idle"]
    /\ job' = [job EXCEPT ![w] = NoJob]
    /\ got' = [got EXCEPT ![w] = NoAnswer]
    /\ UNCHANGED <<srv, key, calls, locked, queue, cache, cancelled, closed,
                   cleaner>>

(* The range loop over a closed and drained channel ends.                  *)
Exit(w) ==
    /\ work[w] = "idle"
    /\ Home[w] <= closed
    /\ queue[Home[w]] = <<>>
    /\ work' = [work EXCEPT ![w] = "exited"]
    /\ UNCHANGED <<callerVars, locked, queue, job, got, cache, cancelled,
                   closed, cleaner>>
----------------------------------------------------------------------------
(* The rest of the program.                                                *)

Cancel ==
    /\ ~cancelled
    /\ \E c \in Callers : stage[c] # "stopped"
    /\ cancelled' = TRUE
    /\ UNCHANGED <<callerVars, locked, queue, workerVars, cache, closed,
                   cleaner>>

(* A tick of cacheCleaner: gc keeps some of the entries.                   *)
CollectGarbage ==
    /\ cleaner = "running"
    /\ \E dropped \in SUBSET {e \in CacheKeys : cache[e] # NoAnswer} \ {{}} :
         cache' = [e \in CacheKeys |->
                     IF e \in dropped THEN NoAnswer ELSE cache[e]]
    /\ UNCHANGED <<callerVars, locked, queue, workerVars, cancelled, closed,
                   cleaner>>

AllExited(s) == \A w \in Workers : Home[w] = s => work[w] = "exited"

(* When Close is called.  This is assumed here and shown elsewhere: no     *)
(* goroutine of a check outlives its call (RangeQuery, NoSliceOutlivesCall)*)
(* nor the scan (ScanPipeline, NoSendAfterClose), and no scan runs when    *)
(* the servers are closed (Watch, ServersOpenWhileScanning).               *)
ScanOver == \A c \in Callers : stage[c] = "stopped"

(* FailoverGroup.Close: close each server's channel in turn and wait for   *)
(* its workers; called only once the scan that used the group is over.     *)
CloseServer ==
    /\ ScanOver
    /\ closed < NumServers
    /\ closed > 0 => AllExited(closed)
    /\ closed' = closed + 1
    /\ UNCHANGED <<callerVars, locked, queue, workerVars, cache, cancelled,
                   cleaner>>

(* quitChan <- true meets the cleaner in its select.                       *)
QuitCleaner ==
    /\ closed = NumServers
    /\ AllExited(NumServers)
    /\ cleaner = "running"
    /\ cleaner' = "done"
    /\ UNCHANGED <<callerVars, locked, queue, workerVars, cache, cancelled,
                   closed>>

(* Everything has ended: the program goes on without the group.            *)
Terminated ==
    /\ cleaner = "done"
    /\ UNCHANGED vars

CallerStep(c) ==
    \/ Acquire(c) \/ Park(c) \/ Send(c) \/ Return(c)

CheckStep(c) == (\E k \in Keys : Ask(c, k)) \/ Stop(c)

WorkerStep(w) ==
    \/ Take(w) \/ Hit(w) \/ Miss(w) \/ Store(w) \/ Reply(w) \/ Exit(w)
    \/ \E v \in Verdicts : Finish(w, v)

Next ==
    \/ \E c \in Callers : CheckStep(c) \/ CallerStep(c)
    \/ \E w \in Workers : WorkerStep(w)
    \/ Cancel
    \/ CollectGarbage
    \/ CloseServer
    \/ QuitCleaner
    \/ Terminated

Spec == Init /\ [][Next]_vars

(* The Go scheduler runs every goroutine that can run; a check ends; a     *)
(* request ends by its timeout.  Signals and ticks are owed to nobody.     *)
FairSpec ==
    /\ Spec
    /\ \A c \in Callers : WF_vars(CallerStep(c)) /\ WF_vars(CheckStep(c))
    /\ \A w \in Workers : WF_vars(WorkerStep(w))
    /\ WF_vars(CloseServer) /\ WF_vars(QuitCleaner)
----------------------------------------------------------------------------
(* One request per server and key at a time: two workers never have jobs   *)
(* of one server for the same key in hand (the partitionLocker taken by    *)
(* Prometheus.Query, Config, Metadata and Flags).                          *)
SingleFlight ==
    \A w, x \in Workers :
        /\ Busy(w) /\ Busy(x)
        /\ Home[w] = Home[x]
        /\ key[job[w]] = key[job[x]]
        => w = x

(* The lock table is exactly what its holders locked: no key is leaked by  *)
(* an early return, none is held by two callers (the deferred unlock).     *)
LockTableExact ==
    /\ \A c \in Callers : Holds(c) => key[c] \in locked[srv[c]]
    /\ \A c, d \in Callers :
         Holds(c) /\ Holds(d) /\ srv[c] = srv[d] /\ key[c] = key[d] => c = d
    /\ \A s \in Servers : \A k \in locked[s] :
         \E c \in Callers : Holds(c) /\ srv[c] = s /\ key[c] = k

Awaits(c, s) == c \in Callers /\ stage[c] = "waiting" /\ srv[c] = s

(* Jobs are conserved between the channel and the workers: each is the job *)
(* of a caller that waits for this very server, and is there only once, so *)
(* no caller is answered twice and no answer has nobody to receive it      *)
(* (a worker would block for ever on the unbuffered result channel).       *)
JobsAccounted ==
    /\ \A s \in Servers : \A i \in 1..Len(queue[s]) : Awaits(queue[s][i], s)
    /\ \A w \in Workers : Busy(w) => Awaits(job[w], Home[w])
    /\ \A s \in Servers : \A i, j \in 1..Len(queue[s]) :
         queue[s][i] = queue[s][j] => i = j
    /\ \A w \in Workers : Busy(w) =>
         \A i \in 1..Len(queue[Home[w]]) : queue[Home[w]][i] # job[w]
    /\ \A w, x \in Workers :
         Busy(w) /\ Busy(x) /\ job[w] = job[x] => w = x

(* And no waiting caller is forgotten: its job is queued or in hand.       *)
WaiterHasJob ==
    \A c \in Callers : stage[c] = "waiting" =>
        \/ \E i \in 1..Len(queue[srv[c]]) : queue[srv[c]][i] = c
        \/ \E w \in Workers : Busy(w) /\ job[w] = c

(* No lost wake-up: a caller sleeps in Cond.Wait only while its key is     *)
(* held, so somebody is still going to call Broadcast for it.              *)
NoLostWakeup ==
    \A c \in Callers : stage[c] = "parked" => key[c] \in locked[srv[c]]

(* A request goes out only for what the cache does not hold: what a worker *)
(* looked up is still true while its request is in flight and when it      *)
(* stores the answer, although processJob locks nothing in between and     *)
(* other workers of the group store in the same cache meanwhile.  It is    *)
(* the caller's partition lock that no second worker fetches that entry.   *)
RunOnlyOnMiss ==
    \A w \in Workers :
        work[w] \in {"running", "store"} =>
            cache[CacheKey(Home[w], key[job[w]])] = NoAnswer

(* What is cached, or on its way back to a caller, is the verdict of the   *)
(* server asked on the query asked, and only successes are ever cached     *)
(* (CacheKey, processJob's early returns on errors).                       *)
ResultsHonest ==
    /\ \A s \in Servers, k \in Keys :
         LET entry == cache[CacheKey(s, k)] IN
         entry # NoAnswer => entry = [verdict |-> "ok", uri |-> s, key |-> k]
    /\ \A w \in Workers : work[w] = "store" => got[w] = Verdict(w, "ok")
    /\ \A w \in Workers : work[w] = "reply" =>
         \E v \in Verdicts :
             got[w] = Verdict(w, v) /\ (v = "canceled" => cancelled)

(* The whole pipeline is, for a check, a failover list asked in order      *)
(* (docs/configuration.md, failover).                                      *)
PhaseOf(st) ==
    IF st \in {"idle", "stopped"} THEN "idle"
    ELSE IF st = "returning" THEN "judged" ELSE "asking"

Contract == INSTANCE FailoverContract WITH
    phase <- [c \in Callers |-> PhaseOf(stage[c])],
    at <- srv,
    question <- key

(* Every question a check asks gets its answer, whatever fails: the        *)
(* liveness half of the contract included.                                 *)
ImplementsContract == Contract!ContractSpec

(* Close ends every worker and the cache cleaner.                          *)
ShutsDown ==
    <>[](cleaner = "done" /\ \A w \in Workers : work[w] = "exited")
============================================================================
