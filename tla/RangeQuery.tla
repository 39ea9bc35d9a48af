----------------------------- MODULE RangeQuery -----------------------------
(***************************************************************************)
(* internal/promapi/range.go: a range query is cut into slices, one        *)
(* goroutine each, all sharing the worker pool of the server; the first    *)
(* slice that fails cancels the context of its siblings, and one loop      *)
(* merges what arrives.  FailoverGroup.RangeQuery tries the next server    *)
(* when the merged outcome says this one was unavailable.                  *)
(*                                                                         *)
(* The per-key lock of each server is a plain mutex here (QueryPipeline    *)
(* has its wait lists), and a stored slice may be gone from the cache at   *)
(* any time (QueryCache has the clock).                                    *)
(***************************************************************************)
EXTENDS Naturals, Sequences, FiniteSets

CONSTANTS Callers,     \* goroutines running checks
          Keys,        \* range queries they can ask: expression and range
          Slices,      \* the slices sliceRange cuts a range into
          NumServers,  \* length of the failover list
          Workers,     \* all the query workers of the group
          Home,        \* the server each worker was started for
          QueueCap,    \* capacity of Prometheus.queries
          MaxCalls     \* bound: range queries one caller makes

ASSUME RangeAssumption ==
    /\ IsFiniteSet(Slices) /\ Slices # {}
    /\ NumServers \in Nat \ {0}
    /\ Home \in [Workers -> 1..NumServers]
    /\ QueueCap \in Nat \ {0}
    /\ MaxCalls \in Nat

Servers == 1..NumServers
Jobs == Callers \X Slices
None == "none"

(* "unavailable" and "rejected" are what the server did; "canceled" and    *)
(* "truncated" (JSON parse error of a body cut short) are what a done      *)
(* context does to a request in flight.                                    *)
Verdicts == {"ok", "unavailable", "rejected", "canceled", "truncated"}

(* A parse error is an APIError of type bad_response: not unavailable.     *)
IsUnavailableError(v) == v \in {"unavailable", "canceled"}

VARIABLES
    stage,     \* where each caller is in FailoverGroup.RangeQuery
    srv,       \* index of the server it is trying
    key,       \* the range query it makes, None between calls
    calls,     \* range queries made so far
    answer,    \* what the finished call returned: "ok" or the error
    slice,     \* where the goroutine of each slice is
    verdict,   \* the result each slice's goroutine received
    results,   \* buffered channel of delivered results, named by slice
    pending,   \* the WaitGroup counter
    closed,    \* results is closed
    gathered,  \* slices whose ranges were appended to merged
    lastErr,   \* lastErr of the merging loop
    ctxDone,   \* the context shared by the slices was cancelled
    parentDone,\* the context of the run was cancelled
    locked,    \* keys locked at each server
    queue,     \* Prometheus.queries of each server
    work, job, got,  \* the workers, as in QueryPipeline
    cache      \* <<server, key, slice>> stored

callVars == <<stage, srv, key, calls, answer>>
sliceVars == <<slice, verdict, results, pending, closed, gathered, lastErr>>
poolVars == <<queue, work, job, got, cache>>
vars == <<callVars, sliceVars, ctxDone, parentDone, locked, poolVars>>

TypeOK ==
    /\ stage \in [Callers -> {"idle", "locking", "merging", "answered", "stopped"}]
    /\ srv \in [Callers -> Servers]
    /\ key \in [Callers -> Keys \cup {None}]
    /\ calls \in [Callers -> 0..MaxCalls]
    /\ answer \in [Callers -> Verdicts \cup {None}]
    /\ slice \in [Callers -> [Slices -> {"none", "sending", "queued",
                                         "delivering", "cancelling", "done"}]]
    /\ verdict \in [Callers -> [Slices -> Verdicts \cup {None}]]
    /\ results \in [Callers -> Seq(Slices)]
    /\ pending \in [Callers -> 0..Cardinality(Slices)]
    /\ closed \in [Callers -> BOOLEAN]
    /\ gathered \in [Callers -> SUBSET Slices]
    /\ lastErr \in [Callers -> Verdicts \cup {None}]
    /\ ctxDone \in [Callers -> BOOLEAN]
    /\ parentDone \in BOOLEAN
    /\ locked \in [Servers -> SUBSET Keys]
    /\ queue \in [Servers -> Seq(Jobs)]
    /\ \A s \in Servers : Len(queue[s]) <= QueueCap
    /\ work \in [Workers -> {"idle", "running", "reply"}]
    /\ job \in [Workers -> Jobs \cup {<<>>}]
    /\ got \in [Workers -> Verdicts \cup {None}]
    /\ cache \subseteq Servers \X Keys \X Slices

Init ==
    /\ stage = [c \in Callers |-> "idle"]
    /\ srv = [c \in Callers |-> 1]
    /\ key = [c \in Callers |-> None]
    /\ calls = [c \in Callers |-> 0]
    /\ answer = [c \in Callers |-> None]
    /\ slice = [c \in Callers |-> [i \in Slices |-> "none"]]
    /\ verdict = [c \in Callers |-> [i \in Slices |-> None]]
    /\ results = [c \in Callers |-> <<>>]
    /\ pending = [c \in Callers |-> 0]
    /\ closed = [c \in Callers |-> FALSE]
    /\ gathered = [c \in Callers |-> {}]
    /\ lastErr = [c \in Callers |-> None]
    /\ ctxDone = [c \in Callers |-> FALSE]
    /\ parentDone = FALSE
    /\ locked = [s \in Servers |-> {}]
    /\ queue = [s \in Servers |-> <<>>]
    /\ work = [w \in Workers |-> "idle"]
    /\ job = [w \in Workers |-> <<>>]
    /\ got = [w \in Workers |-> None]
    /\ cache = {}

(* The slices' context is done: cancelled itself, or through its parent.   *)
Done(c) == ctxDone[c] \/ parentDone
----------------------------------------------------------------------------
(* The caller: FailoverGroup.RangeQuery around Prometheus.RangeQuery.      *)

Ask(c, k) ==
    /\ stage[c] = "idle"
    /\ calls[c] < MaxCalls
    /\ stage' = [stage EXCEPT ![c] = "locking"]
    /\ key' = [key EXCEPT ![c] = k]
    /\ calls' = [calls EXCEPT ![c] = @ + 1]
    /\ UNCHANGED <<srv, answer, sliceVars, ctxDone, parentDone, locked, poolVars>>

(* Take the key's lock, make the shared context, spawn a goroutine per     *)
(* slice and the one that closes results.                                  *)
Begin(c) ==
    /\ stage[c] = "locking"
    /\ key[c] \notin locked[srv[c]]
    /\ locked' = [locked EXCEPT ![srv[c]] = @ \cup {key[c]}]
    /\ stage' = [stage EXCEPT ![c] = "merging"]
    /\ slice' = [slice EXCEPT ![c] = [i \in Slices |-> "sending"]]
    /\ pending' = [pending EXCEPT ![c] = Cardinality(Slices)]
    /\ UNCHANGED <<srv, key, calls, answer, verdict, results, closed, gathered,
                   lastErr, ctxDone, parentDone, poolVars>>

(* One turn of the merging loop.                                           *)
Merge_LastWins(c) ==
    LET v == verdict[c][Head(results[c])] IN
    /\ stage[c] = "merging"
    /\ results[c] # <<>>
    /\ results' = [results EXCEPT ![c] = Tail(@)]
    /\ lastErr' = [lastErr EXCEPT ![c] = IF v = "ok" THEN None ELSE v]
    /\ gathered' = [gathered EXCEPT ![c] =
                      IF v = "ok" THEN @ \cup {Head(results[c])} ELSE @]
    /\ pending' = [pending EXCEPT ![c] = @ - 1]
    /\ UNCHANGED <<callVars, slice, verdict, closed, ctxDone, parentDone, locked,
                   poolVars>>

Merge_SkipsDone(c) ==
    LET v == verdict[c][Head(results[c])] IN
    /\ stage[c] = "merging"
    /\ results[c] # <<>>
    /\ results' = [results EXCEPT ![c] = Tail(@)]
    /\ lastErr' = [lastErr EXCEPT ![c] = IF v \in {"ok", "canceled"} THEN @ ELSE v]
    /\ gathered' = [gathered EXCEPT ![c] =
                      IF v = "ok" THEN @ \cup {Head(results[c])} ELSE @]
    /\ pending' = [pending EXCEPT ![c] = IF v = "ok" THEN @ - 1 ELSE @]
    /\ UNCHANGED <<callVars, slice, verdict, closed, ctxDone, parentDone, locked,
                   poolVars>>

Merge(c) ==
    LET v == verdict[c][Head(results[c])] IN
    /\ stage[c] = "merging"
    /\ results[c] # <<>>
    /\ results' = [results EXCEPT ![c] = Tail(@)]
    /\ lastErr' = [lastErr EXCEPT ![c] = IF v \in {"ok", "canceled"} THEN @ ELSE v]
    /\ gathered' = [gathered EXCEPT ![c] =
                      IF v = "ok" THEN @ \cup {Head(results[c])} ELSE @]
    /\ pending' = [pending EXCEPT ![c] = @ - 1]
    /\ UNCHANGED <<callVars, slice, verdict, closed, ctxDone, parentDone, locked,
                   poolVars>>

(* The goroutine that waits for the WaitGroup.                             *)
CloseResults_NoWait(c) ==
    /\ stage[c] = "merging"
    /\ ~closed[c]
    /\ closed' = [closed EXCEPT ![c] = TRUE]
    /\ UNCHANGED <<callVars, slice, verdict, results, pending, gathered, lastErr,
                   ctxDone, parentDone, locked, poolVars>>

CloseResults(c) ==
    /\ stage[c] = "merging"
    /\ pending[c] = 0
    /\ ~closed[c]
    /\ closed' = [closed EXCEPT ![c] = TRUE]
    /\ UNCHANGED <<callVars, slice, verdict, results, pending, gathered, lastErr,
                   ctxDone, parentDone, locked, poolVars>>

(* The merging loop ends when results is closed and drained.               *)
Merged_OnFirstError(c) ==
    /\ stage[c] = "merging"
    /\ lastErr[c] # None \/ (closed[c] /\ results[c] = <<>>)
Merged(c) == stage[c] = "merging" /\ closed[c] /\ results[c] = <<>>

(* The locals of a finished attempt are gone.  Its deferred cancel ended   *)
(* the shared context, so a slice still about to cancel has nothing to do. *)
Forget(c) ==
    /\ slice' = [slice EXCEPT ![c] =
                   [i \in Slices |->
                      IF @[i] \in {"cancelling", "done"} THEN "none" ELSE @[i]]]
    /\ verdict' = [verdict EXCEPT ![c] = [i \in Slices |-> None]]
    /\ results' = [results EXCEPT ![c] = <<>>]
    /\ pending' = [pending EXCEPT ![c] = 0]
    /\ closed' = [closed EXCEPT ![c] = FALSE]
    /\ lastErr' = [lastErr EXCEPT ![c] = None]
    /\ ctxDone' = [ctxDone EXCEPT ![c] = FALSE]

Unlock(c) == locked' = [locked EXCEPT ![srv[c]] = @ \ {key[c]}]

(* The attempt failed in a way that lets the group try the next server.    *)
Moves(c) == IsUnavailableError(lastErr[c]) /\ srv[c] < NumServers

TryNext(c) ==
    /\ Merged(c)
    /\ Moves(c)
    /\ Unlock(c) /\ Forget(c)
    /\ stage' = [stage EXCEPT ![c] = "locking"]
    /\ srv' = [srv EXCEPT ![c] = @ + 1]
    /\ gathered' = [gathered EXCEPT ![c] = {}]
    /\ UNCHANGED <<key, calls, answer, parentDone, poolVars>>

(* nil error unless the merging loop saw one that is not a cancellation.   *)
Answer(c) ==
    /\ Merged(c)
    /\ ~Moves(c)
    /\ Unlock(c) /\ Forget(c)
    /\ stage' = [stage EXCEPT ![c] = "answered"]
    /\ answer' = [answer EXCEPT ![c] = IF lastErr[c] = None THEN "ok" ELSE lastErr[c]]
    /\ UNCHANGED <<srv, key, calls, gathered, parentDone, poolVars>>

(* The check is done with the answer.                                      *)
Consume(c) ==
    /\ stage[c] = "answered"
    /\ stage' = [stage EXCEPT ![c] = "idle"]
    /\ srv' = [srv EXCEPT ![c] = 1]
    /\ key' = [key EXCEPT ![c] = None]
    /\ answer' = [answer EXCEPT ![c] = None]
    /\ gathered' = [gathered EXCEPT ![c] = {}]
    /\ UNCHANGED <<calls, slice, verdict, results, pending, closed, lastErr, ctxDone,
                   parentDone, locked, poolVars>>

Stop(c) ==
    /\ stage[c] = "idle"
    /\ stage' = [stage EXCEPT ![c] = "stopped"]
    /\ UNCHANGED <<srv, key, calls, answer, sliceVars, ctxDone, parentDone, locked,
                   poolVars>>
----------------------------------------------------------------------------
(* The goroutine of one slice.                                             *)

SendSlice(c, i) ==
    /\ slice[c][i] = "sending"
    /\ Len(queue[srv[c]]) < QueueCap
    /\ queue' = [queue EXCEPT ![srv[c]] = Append(@, <<c, i>>)]
    /\ slice' = [slice EXCEPT ![c][i] = "queued"]
    /\ UNCHANGED <<callVars, verdict, results, pending, closed, gathered, lastErr,
                   ctxDone, parentDone, locked, work, job, got, cache>>

(* The result goes to the merging loop first, the cancellation comes after.*)
DeliverSlice(c, i) ==
    /\ slice[c][i] = "delivering"
    /\ results' = [results EXCEPT ![c] = Append(@, i)]
    /\ slice' = [slice EXCEPT ![c][i] =
                   IF verdict[c][i] = "ok" THEN "done" ELSE "cancelling"]
    /\ UNCHANGED <<callVars, verdict, pending, closed, gathered, lastErr, ctxDone,
                   parentDone, locked, poolVars>>

CancelSiblings(c, i) ==
    /\ slice[c][i] = "cancelling"
    /\ slice' = [slice EXCEPT ![c][i] = "done"]
    /\ ctxDone' = [ctxDone EXCEPT ![c] = TRUE]
    /\ UNCHANGED <<callVars, verdict, results, pending, closed, gathered, lastErr,
                   parentDone, locked, poolVars>>
----------------------------------------------------------------------------
(* The workers: take a job and look it up (processJob), then either reply  *)
(* from the cache, or refuse a context already done, or send the request.  *)

Start(w) ==
    LET s == Home[w]
        j == Head(queue[s])
        entry == <<s, key[j[1]], j[2]>>
    IN
    /\ work[w] = "idle"
    /\ queue[s] # <<>>
    /\ queue' = [queue EXCEPT ![s] = Tail(@)]
    /\ job' = [job EXCEPT ![w] = j]
    /\ \/ /\ entry \in cache
          /\ got' = [got EXCEPT ![w] = "ok"]
          /\ work' = [work EXCEPT ![w] = "reply"]
       \/ /\ Done(j[1])
          /\ got' = [got EXCEPT ![w] = "canceled"]
          /\ work' = [work EXCEPT ![w] = "reply"]
       \/ /\ ~Done(j[1])
          /\ work' = [work EXCEPT ![w] = "running"]
          /\ UNCHANGED got
    /\ UNCHANGED <<callVars, sliceVars, ctxDone, parentDone, locked, cache>>

(* Run returns: what the server did, or what the done context did to it.   *)
(* Only a success is stored.                                               *)
Finish(w, v) ==
    LET c == job[w][1] IN
    /\ work[w] = "running"
    /\ v \in {"canceled", "truncated"} => Done(c)
    /\ got' = [got EXCEPT ![w] = v]
    /\ work' = [work EXCEPT ![w] = "reply"]
    /\ cache' = IF v = "ok" THEN cache \cup {<<Home[w], key[c], job[w][2]>>} ELSE cache
    /\ UNCHANGED <<callVars, sliceVars, ctxDone, parentDone, locked, queue, job>>

Reply(w) ==
    LET c == job[w][1]  i == job[w][2] IN
    /\ work[w] = "reply"
    /\ slice[c][i] = "queued"
    /\ verdict' = [verdict EXCEPT ![c][i] = got[w]]
    /\ slice' = [slice EXCEPT ![c][i] = "delivering"]
    /\ work' = [work EXCEPT ![w] = "idle"]
    /\ job' = [job EXCEPT ![w] = <<>>]
    /\ got' = [got EXCEPT ![w] = None]
    /\ UNCHANGED <<callVars, results, pending, closed, gathered, lastErr, ctxDone,
                   parentDone, locked, queue, cache>>

CancelRun ==
    /\ ~parentDone
    /\ \E c \in Callers : stage[c] # "stopped"
    /\ parentDone' = TRUE
    /\ UNCHANGED <<callVars, sliceVars, ctxDone, locked, poolVars>>

Terminated ==
    /\ \A c \in Callers : stage[c] = "stopped"
    /\ UNCHANGED vars

CallStep(c) ==
    \/ Begin(c) \/ Merge(c) \/ TryNext(c) \/ Answer(c) \/ Consume(c)

CheckStep(c) == (\E k \in Keys : Ask(c, k)) \/ Stop(c)

SliceStep(c, i) ==
    \/ SendSlice(c, i) \/ DeliverSlice(c, i) \/ CancelSiblings(c, i)

WorkerStep(w) == Start(w) \/ Reply(w) \/ \E v \in Verdicts : Finish(w, v)

Next ==
    \/ \E c \in Callers :
         \/ CheckStep(c) \/ CallStep(c) \/ CloseResults(c)
         \/ \E i \in Slices : SliceStep(c, i)
    \/ \E w \in Workers : WorkerStep(w)
    \/ CancelRun
    \/ Terminated

Spec == Init /\ [][Next]_vars

(* Every goroutine that can run is run, and a request ends by its timeout. *)
(* Nothing is assumed of who gets a lock that several wait for.            *)
FairSpec ==
    /\ Spec
    /\ \A c \in Callers :
         /\ WF_vars(CallStep(c)) /\ WF_vars(CheckStep(c))
         /\ WF_vars(CloseResults(c))
         /\ \A i \in Slices : WF_vars(SliceStep(c, i))
    /\ \A w \in Workers : WF_vars(WorkerStep(w))
----------------------------------------------------------------------------
(* A range query that succeeds has the samples of every slice, unless the  *)
(* whole run was cancelled: no slice's failure is swallowed by the rule    *)
(* that ignores cancellations, in whatever order results arrive            *)
(* (RangeQuery's merging loop).                                            *)
SuccessIsComplete ==
    \A c \in Callers :
        stage[c] = "answered" /\ answer[c] = "ok" /\ ~parentDone
        => gathered[c] = Slices

(* Nobody is about to send on the results channel once it is closed.       *)
NoSendOnClosedResults ==
    \A c \in Callers, i \in Slices :
        closed[c] => slice[c][i] \in {"cancelling", "done"}

(* A call returns, and drops its lock, only when every one of its slices   *)
(* has been answered: nothing of it is left on a channel that Close may    *)
(* close next, and no second request for its key can overlap it.           *)
NoSliceOutlivesCall ==
    \A c \in Callers : stage[c] # "merging" =>
        /\ \A i \in Slices : slice[c][i] = "none"
        /\ \A w \in Workers : job[w] # <<>> => job[w][1] # c

----------------------------------------------------------------------------
(* The call as its check sees it: the failover contract, of which a server *)
(* has given its verdict when results is closed (it is drained by then).   *)
Judged(c) == stage[c] = "answered" \/ (stage[c] = "merging" /\ closed[c])

PhaseOf(c) ==
    IF stage[c] \in {"idle", "stopped"} THEN "idle"
    ELSE IF Judged(c) THEN "judged" ELSE "asking"

(* A body cut short is an error like any the server answers with.          *)
VerdictOf(c) ==
    LET v == IF stage[c] = "answered" THEN answer[c] ELSE lastErr[c] IN
    IF v = None THEN "ok" ELSE IF v = "truncated" THEN "rejected" ELSE v

(* What the caller has in hand.                                            *)
AnswerOf(c) ==
    IF Judged(c) THEN [verdict |-> VerdictOf(c), uri |-> srv[c], key |-> key[c]]
    ELSE [verdict |-> None, uri |-> 0, key |-> None]

Contract == INSTANCE FailoverContract WITH
    phase <- [c \in Callers |-> PhaseOf(c)],
    at <- srv,
    question <- key,
    answer <- [c \in Callers |-> AnswerOf(c)],
    cancelled <- parentDone

(* FailoverGroup.RangeQuery keeps the promise of a group although each     *)
(* attempt is several jobs: the next server is tried only when the merged  *)
(* verdict of all slices is unavailable, the check gets the last verdict,  *)
(* and every range query is answered, whatever fails and however small the *)
(* queue its slices compete for.                                           *)
ImplementsContract == Contract!ContractSpec

(* Two statements the code contradicts (README, section 5).                *)
(* docs/configuration.md, failover: the next URI is tried "if uri doesn't  *)
(* respond to requests or returns an error": an attempt in which the       *)
(* server was unavailable to some slice and never rejected the query ends  *)
(* as unavailable.                                                         *)
UnavailableFailsOver ==
    \A c \in Callers :
        LET seen == {verdict[c][i] : i \in Slices} IN
        Merged(c) /\ ~parentDone /\ "unavailable" \in seen /\ "rejected" \notin seen
        => IsUnavailableError(lastErr[c])

(* docs/configuration.md, failover: "Failover URIs are not used if         *)
(* Prometheus returns an error caused by the query".                       *)
QueryErrorStaysPut ==
    \A c \in Callers :
        Merged(c) /\ "rejected" \in {verdict[c][i] : i \in Slices}
        => ~IsUnavailableError(lastErr[c])
----------------------------------------------------------------------------
(* The inductive invariant of RangeQueryProofs.                            *)

(* Between calls, and while the lock is waited for, a call has no slices,  *)
(* no channel and no context; a call in progress knows its key.            *)
CallsAreClean ==
    \A c \in Callers :
        /\ stage[c] \in {"locking", "merging", "answered"} => key[c] \in Keys
        /\ stage[c] # "merging" =>
             /\ slice[c] = [i \in Slices |-> "none"]
             /\ verdict[c] = [i \in Slices |-> None]
             /\ results[c] = <<>> /\ ~closed[c] /\ ~ctxDone[c]
             /\ lastErr[c] = None
        /\ stage[c] = "merging" => \A i \in Slices : slice[c][i] # "none"
        /\ stage[c] \in {"idle", "locking"} => gathered[c] = {}

(* Who merges holds the lock of its key at its server, alone.              *)
OneCallPerKey ==
    /\ \A c \in Callers : stage[c] = "merging" => key[c] \in locked[srv[c]]
    /\ \A c, d \in Callers :
         stage[c] = "merging" /\ stage[d] = "merging" /\ srv[c] = srv[d] /\ key[c] = key[d]
         => c = d

(* The slice of job j waits for a worker of server s to reply.             *)
Awaits(j, s) == slice[j[1]][j[2]] = "queued" /\ srv[j[1]] = s

(* A queued slice has one job at most, in a queue or in the hands of a     *)
(* worker, and every job is of such a slice.                               *)
JobsAccounted ==
    /\ \A s \in Servers : \A n \in 1..Len(queue[s]) : Awaits(queue[s][n], s)
    /\ \A w \in Workers :
         /\ work[w] = "idle" <=> job[w] = <<>>
         /\ work[w] # "idle" => Awaits(job[w], Home[w])
         /\ work[w] = "reply" <=> got[w] # None
    /\ \A s \in Servers : \A m, n \in 1..Len(queue[s]) :
         queue[s][m] = queue[s][n] => m = n
    /\ \A w \in Workers : work[w] # "idle" =>
         \A n \in 1..Len(queue[Home[w]]) : queue[Home[w]][n] # job[w]
    /\ \A w, x \in Workers : work[w] # "idle" /\ job[w] = job[x] => w = x

Delivered(c) == {results[c][n] : n \in DOMAIN results[c]}
Underway(c) == {i \in Slices : slice[c][i] \in {"sending", "queued", "delivering"}}

(* The WaitGroup counts the slices whose result has still to be merged,    *)
(* and what is on the results channel was sent once, by slices that are    *)
(* past it.                                                                *)
Counted(c) ==
    /\ pending[c] = Cardinality(Underway(c) \cup Delivered(c))
    /\ Delivered(c) \cap Underway(c) = {}
    /\ \A m, n \in DOMAIN results[c] : results[c][m] = results[c][n] => m = n
    /\ closed[c] => pending[c] = 0
    /\ \A i \in Slices :
         /\ slice[c][i] \in {"delivering", "cancelling", "done"} => verdict[c][i] # None
         /\ slice[c][i] = "cancelling" => verdict[c][i] # "ok"

WaitGroupExact == \A c \in Callers : Counted(c)

(* A slice of the call got an error of its own, and is past delivering it. *)
Failed(c) ==
    \E i \in Slices :
        /\ slice[c][i] \in {"cancelling", "done"}
        /\ verdict[c][i] \in {"unavailable", "rejected", "truncated"}

(* A cancellation reached the call: its context, a worker or a slice.      *)
SeesCancel(c) ==
    \/ ctxDone[c]
    \/ \E i \in Slices : verdict[c][i] = "canceled"
    \/ \E w \in Workers : job[w] # <<>> /\ job[w][1] = c /\ got[w] = "canceled"

(* Unless the run is cancelled, nothing is cancelled before such an error. *)
CancelledByFailure ==
    ~parentDone => \A c \in Callers : SeesCancel(c) => Failed(c)

(* What was merged is in gathered or in lastErr, unless it was cancelled.  *)
MergedIsKept ==
    \A c \in Callers : \A i \in Slices :
        slice[c][i] \in {"cancelling", "done"} /\ i \notin Delivered(c) =>
            /\ verdict[c][i] = "ok" => i \in gathered[c]
            /\ verdict[c][i] \notin {"ok", "canceled"} => lastErr[c] # None

(* The error that reaches the check is one of the last server, if it is    *)
(* one that could have been tried elsewhere, and never a cancellation.     *)
LastServerAnswers ==
    \A c \in Callers :
        /\ lastErr[c] # "canceled" /\ answer[c] # "canceled" /\ lastErr[c] # "ok"
        /\ stage[c] = "answered" <=> answer[c] # None
        /\ answer[c] = "unavailable" => srv[c] = NumServers
        /\ stage[c] \in {"idle", "stopped"} => srv[c] = 1

RangeInv ==
    /\ TypeOK /\ CallsAreClean /\ OneCallPerKey /\ JobsAccounted /\ WaitGroupExact
    /\ CancelledByFailure /\ MergedIsKept /\ LastServerAnswers /\ SuccessIsComplete
============================================================================
