---------------------------- MODULE ScanPipeline ----------------------------
(***************************************************************************)
(* cmd/pint/scan.go, checkRules: one scan of a list of discovered entries. *)
(* A producer goroutine turns entries into jobs on a bounded channel,      *)
(* scanWorker goroutines run the checks and put reports on another, a      *)
(* closer goroutine closes that one when the workers are gone, and the     *)
(* caller collects reports into a Summary that drops duplicates.  The      *)
(* context of the scan may be cancelled at any time (pint watch, on a      *)
(* signal); only the workers look at it.                                   *)
(*                                                                         *)
(* A check is what it finds: Finds gives the problems of every entry and   *)
(* check, and two problems are one value exactly when Report.isEqual       *)
(* holds for their reports.                                                *)
(***************************************************************************)
EXTENDS Naturals, Sequences, FiniteSets

CONSTANTS Entries,     \* sequence of [removed, error, checks], see EntryType
          Checks,      \* names of the configured checks
          OnlineChecks,\* those that query Prometheus (Meta().IsOnline)
          Problems,    \* problems a check or the parser can report
          Finds,       \* what each check finds in each entry
          Broken,      \* what is reported of an entry that cannot be checked
          CutShort,    \* what an online check can report when its queries are cancelled
          Workers,     \* the scanWorker goroutines
          ChanCap      \* capacity of jobs and of results (workers * 5)

Errors == {"none", "ignored", "path", "rule"}
EntryType == [removed: BOOLEAN, error: Errors, checks: Seq(Checks)]

(* The check of a job that reports why an entry cannot be checked.         *)
NoCheck == "nil"

ASSUME ScanAssumption ==
    /\ Entries \in Seq(EntryType)
    /\ NoCheck \notin Checks
    /\ OnlineChecks \subseteq Checks
    /\ Finds \in [DOMAIN Entries -> [Checks -> Seq(Problems)]]
    /\ Broken \in [DOMAIN Entries -> Problems]
    /\ IsFiniteSet(Workers) /\ Workers # {}
    /\ ChanCap \in Nat \ {0}

ASSUME CutShortAssumption ==
    CutShort \in [DOMAIN Entries -> [OnlineChecks -> SUBSET Seq(Problems)]]

(* The jobs of one entry: its checks (GetChecksForRule), or the single job *)
(* without a check that reports why it has none.                           *)
JobsOf(n) ==
    IF Entries[n].error = "none"
    THEN [i \in DOMAIN Entries[n].checks |->
            [entry |-> n, check |-> Entries[n].checks[i]]]
    ELSE <<[entry |-> n, check |-> NoCheck]>>

JobsUpTo[n \in 0..Len(Entries)] ==
    IF n = 0 THEN <<>> ELSE JobsUpTo[n - 1] \o JobsOf(n)

(* Everything the producer is going to push, in order.                     *)
Jobs == JobsUpTo[Len(Entries)]

(* What scanWorker sends for a job: nothing for an entry that was removed, *)
(* one report for an entry in error, else what the check finds.            *)
ReportsOf(j) ==
    LET e == Entries[Jobs[j].entry] IN
    IF e.removed THEN <<>>
    ELSE IF e.error # "none" THEN <<Broken[Jobs[j].entry]>>
    ELSE Finds[Jobs[j].entry][Jobs[j].check]

(* A check whose queries were cancelled can report anything: that it could *)
(* not run, when an instant query fails; or what it concludes from missing *)
(* samples, since a range query passes over context.Canceled and answers   *)
(* with the slices it has (a false Bug of promql/series, say); or nothing. *)
InterruptedReportsOf(j) ==
    LET e == Entries[Jobs[j].entry] IN
    IF e.removed \/ Jobs[j].check \notin OnlineChecks THEN {}
    ELSE CutShort[Jobs[j].entry][Jobs[j].check]

VARIABLES
    next,        \* index of the next job of the producer
    counted,     \* the producer has counted that job and is to push it
    total,       \* checkIterationChecks
    done,        \* checkIterationChecksDone
    online, offline,  \* the counters of the summary
    jobs,        \* the jobs channel: indexes into Jobs
    jobsClosed,
    worker,      \* "idle", "checking", "sending" or "exited"
    task,        \* the job a worker has in hand, 0 for none
    toSend,      \* reports a sending worker has still to send
    results,     \* the results channel
    resultsClosed,
    summary,     \* the reports collected so far
    returned,    \* checkRules has returned
    ctxDone,     \* the context is cancelled
    underway     \* history: the jobs that were being checked at that moment

producerVars == <<next, counted, total, online, offline, jobsClosed>>
workerVars == <<done, worker, task, toSend>>
mainVars == <<summary, returned>>
ctxVars == <<ctxDone, underway>>
vars == <<producerVars, jobs, workerVars, results, resultsClosed, mainVars, ctxVars>>

TypeOK ==
    /\ next \in 1..(Len(Jobs) + 1)
    /\ counted \in BOOLEAN /\ jobsClosed \in BOOLEAN
    /\ total \in Nat /\ done \in Nat /\ online \in Nat /\ offline \in Nat
    /\ jobs \in Seq(1..Len(Jobs)) /\ Len(jobs) <= ChanCap
    /\ worker \in [Workers -> {"idle", "checking", "sending", "exited"}]
    /\ task \in [Workers -> 0..Len(Jobs)]
    /\ toSend \in [Workers -> Seq(Problems)]
    /\ results \in Seq(Problems) /\ Len(results) <= ChanCap
    /\ resultsClosed \in BOOLEAN
    /\ summary \in Seq(Problems)
    /\ returned \in BOOLEAN /\ ctxDone \in BOOLEAN
    /\ underway \subseteq 1..Len(Jobs)

Init ==
    /\ next = 1 /\ counted = FALSE /\ jobsClosed = FALSE
    /\ total = 0 /\ done = 0 /\ online = 0 /\ offline = 0
    /\ jobs = <<>>
    /\ worker = [w \in Workers |-> "idle"]
    /\ task = [w \in Workers |-> 0]
    /\ toSend = [w \in Workers |-> <<>>]
    /\ results = <<>> /\ resultsClosed = FALSE
    /\ summary = <<>> /\ returned = FALSE
    /\ ctxDone = FALSE /\ underway = {}
----------------------------------------------------------------------------
(* The producer goroutine: it counts a check before it blocks on the send. *)

CountJob ==
    LET check == Jobs[next].check IN
    /\ next <= Len(Jobs) /\ ~counted
    /\ counted' = TRUE
    /\ total' = IF check = NoCheck THEN total ELSE total + 1
    /\ online' = IF check \in OnlineChecks THEN online + 1 ELSE online
    /\ offline' = IF check \in Checks \ OnlineChecks THEN offline + 1 ELSE offline
    /\ UNCHANGED <<next, jobs, jobsClosed, workerVars, results, resultsClosed,
                   mainVars, ctxVars>>

PushJob_DropsWhenFull ==
    /\ next <= Len(Jobs) /\ counted
    /\ jobs' = IF Len(jobs) < ChanCap THEN Append(jobs, next) ELSE jobs
    /\ next' = next + 1
    /\ counted' = FALSE
    /\ UNCHANGED <<total, online, offline, jobsClosed, workerVars, results,
                   resultsClosed, mainVars, ctxVars>>

PushJob ==
    /\ next <= Len(Jobs) /\ counted
    /\ Len(jobs) < ChanCap
    /\ jobs' = Append(jobs, next)
    /\ next' = next + 1
    /\ counted' = FALSE
    /\ UNCHANGED <<total, online, offline, jobsClosed, workerVars, results,
                   resultsClosed, mainVars, ctxVars>>

CloseJobs_OnlyIfCancelled ==
    /\ next > Len(Jobs) /\ ~jobsClosed /\ ctxDone
    /\ jobsClosed' = TRUE
    /\ UNCHANGED <<next, counted, total, online, offline, jobs, workerVars, results,
                   resultsClosed, mainVars, ctxVars>>

CloseJobs ==
    /\ next > Len(Jobs) /\ ~jobsClosed
    /\ jobsClosed' = TRUE
    /\ UNCHANGED <<next, counted, total, online, offline, jobs, workerVars, results,
                   resultsClosed, mainVars, ctxVars>>
----------------------------------------------------------------------------
(* scanWorker *)

TakeJob_IgnoresCancel(w) ==
    /\ worker[w] = "idle"
    /\ jobs # <<>>
    /\ jobs' = Tail(jobs)
    /\ worker' = [worker EXCEPT ![w] = "checking"]
    /\ task' = [task EXCEPT ![w] = Head(jobs)]
    /\ UNCHANGED <<producerVars, done, toSend, results, resultsClosed, mainVars,
                   ctxVars>>

TakeJob(w) ==
    /\ worker[w] = "idle" /\ ~ctxDone
    /\ jobs # <<>>
    /\ jobs' = Tail(jobs)
    /\ worker' = [worker EXCEPT ![w] = "checking"]
    /\ task' = [task EXCEPT ![w] = Head(jobs)]
    /\ UNCHANGED <<producerVars, done, toSend, results, resultsClosed, mainVars,
                   ctxVars>>

(* Check returns; if its queries were cancelled, with whatever it makes of *)
(* that.                                                                   *)
RunCheck(w) ==
    /\ worker[w] = "checking"
    /\ worker' = [worker EXCEPT ![w] = "sending"]
    /\ \E reports \in {ReportsOf(task[w])} \cup
                       (IF ctxDone THEN InterruptedReportsOf(task[w]) ELSE {}) :
         toSend' = [toSend EXCEPT ![w] = reports]
    /\ UNCHANGED <<producerVars, jobs, done, task, results, resultsClosed, mainVars,
                   ctxVars>>

(* A job received after the cancellation is dropped, uncounted.            *)
DropJob(w) ==
    /\ worker[w] = "idle" /\ ctxDone
    /\ jobs # <<>>
    /\ jobs' = Tail(jobs)
    /\ worker' = [worker EXCEPT ![w] = "exited"]
    /\ UNCHANGED <<producerVars, done, task, toSend, results, resultsClosed, mainVars,
                   ctxVars>>

SendReport(w) ==
    /\ worker[w] = "sending" /\ toSend[w] # <<>>
    /\ Len(results) < ChanCap
    /\ results' = Append(results, Head(toSend[w]))
    /\ toSend' = [toSend EXCEPT ![w] = Tail(@)]
    /\ UNCHANGED <<producerVars, jobs, done, worker, task, resultsClosed, mainVars,
                   ctxVars>>

FinishJob(w) ==
    /\ worker[w] = "sending" /\ toSend[w] = <<>>
    /\ worker' = [worker EXCEPT ![w] = "idle"]
    /\ task' = [task EXCEPT ![w] = 0]
    /\ done' = done + 1
    /\ UNCHANGED <<producerVars, jobs, toSend, results, resultsClosed, mainVars,
                   ctxVars>>

ExitWorker(w) ==
    /\ worker[w] = "idle"
    /\ jobs = <<>> /\ jobsClosed
    /\ worker' = [worker EXCEPT ![w] = "exited"]
    /\ UNCHANGED <<producerVars, jobs, done, task, toSend, results, resultsClosed, mainVars,
                   ctxVars>>
----------------------------------------------------------------------------
(* The closer and the caller.                                              *)

WorkersGone == \A w \in Workers : worker[w] = "exited"

CloseResults ==
    /\ WorkersGone
    /\ ~resultsClosed
    /\ resultsClosed' = TRUE
    /\ UNCHANGED <<producerVars, jobs, workerVars, results, mainVars, ctxVars>>

(* Summary.Report: a report equal to one already there is dropped.         *)
Added_NoDedup(s, r) == Append(s, r)
Added(s, r) == IF \E i \in DOMAIN s : s[i] = r THEN s ELSE Append(s, r)

CollectReport ==
    /\ results # <<>>
    /\ results' = Tail(results)
    /\ summary' = Added(summary, Head(results))
    /\ UNCHANGED <<producerVars, jobs, workerVars, resultsClosed, returned, ctxVars>>

Return ==
    /\ results = <<>> /\ resultsClosed
    /\ ~returned
    /\ returned' = TRUE
    /\ UNCHANGED <<producerVars, jobs, workerVars, results, resultsClosed, summary,
                   ctxVars>>

Cancel ==
    /\ ~ctxDone /\ ~returned
    /\ ctxDone' = TRUE
    /\ underway' = {task[w] : w \in {w \in Workers : worker[w] = "checking"}}
    /\ UNCHANGED <<producerVars, jobs, workerVars, results, resultsClosed, mainVars>>

(* The scan is over for its caller.                                        *)
Terminated == returned /\ UNCHANGED vars

ProducerStep == CountJob \/ PushJob \/ CloseJobs
WorkerStep(w) ==
    \/ TakeJob(w) \/ DropJob(w) \/ RunCheck(w)
    \/ SendReport(w) \/ FinishJob(w) \/ ExitWorker(w)
MainStep == CollectReport \/ Return

Next ==
    \/ ProducerStep
    \/ \E w \in Workers : WorkerStep(w)
    \/ CloseResults \/ MainStep \/ Cancel \/ Terminated

Spec == Init /\ [][Next]_vars

(* Every goroutine that can run is run; a check ends (its queries do, see  *)
(* QueryPipeline and RangeQuery).                                          *)
FairSpec ==
    /\ Spec
    /\ WF_vars(ProducerStep) /\ WF_vars(CloseResults) /\ WF_vars(MainStep)
    /\ \A w \in Workers : WF_vars(WorkerStep(w))
----------------------------------------------------------------------------
Elements(s) == {s[i] : i \in DOMAIN s}

(* All that the checks of this scan find in entries not removed.           *)
Expected ==
    UNION {LET e == Entries[n] IN
           IF e.removed THEN {}
           ELSE IF e.error # "none" THEN {Broken[n]}
           ELSE UNION {Elements(Finds[n][k]) : k \in Elements(e.checks)} :
           n \in DOMAIN Entries}

(* A scan that was not cancelled is complete: every problem of every check *)
(* is in the summary, all checks were counted, every job was done.         *)
ScanComplete ==
    returned /\ ~ctxDone =>
        /\ Elements(summary) = Expected
        /\ done = Len(Jobs)
        /\ total = Cardinality({j \in DOMAIN Jobs : Jobs[j].check # NoCheck})
        /\ online + offline = total

(* All that the checks cut short by the cancellation could report.         *)
Mistakes ==
    UNION {UNION {Elements(reports) : reports \in InterruptedReportsOf(j)} : j \in underway}

(* The summary has each problem once, whatever the order in which workers  *)
(* report, and real problems only.  A scan that was cancelled can be wrong *)
(* about the online checks that workers had in hand at that moment, but    *)
(* about nothing else: no check starts with a context that is done, and    *)
(* what the others have reported stays true (scanWorker, Summary.Report).  *)
SummaryHonest ==
    /\ Elements(summary) \subseteq Expected \cup Mistakes
    /\ \A i, j \in DOMAIN summary : summary[i] = summary[j] => i = j

(* No worker can still send when results is closed, or when the caller has *)
(* gone away with its summary.                                             *)
NoSendAfterClose ==
    resultsClosed \/ returned => \A w \in Workers : worker[w] = "exited"

(* checkRules returns, cancelled or not.                                   *)
ScanReturns == <>returned

(* Contradicted by the code (README, section 5): watch.go says, when       *)
(* it stops the scan, "Waiting for all background tasks to finish"; once   *)
(* the scan has returned its producer is over, or can still get there.     *)
(* With the workers gone nobody takes a job from a full channel any more.  *)
NothingLeftRunning ==
    returned => jobsClosed \/ next > Len(Jobs) \/ Len(jobs) < ChanCap
----------------------------------------------------------------------------
(* The inductive invariant of ScanPipelineProofs.                          *)

Busy == {w \in Workers : worker[w] \in {"checking", "sending"}}

(* Who has a job in hand, and what the two closed channels tell.           *)
ChannelsOrdered ==
    /\ \A w \in Workers :
         /\ worker[w] = "checking" => task[w] \in 1..Len(Jobs)
         /\ worker[w] # "sending" => toSend[w] = <<>>
    /\ counted => next <= Len(Jobs)
    /\ jobsClosed => next > Len(Jobs)
    /\ resultsClosed => WorkersGone
    /\ returned => resultsClosed /\ results = <<>>

(* Without a cancellation no job is lost between the producer's counter    *)
(* and the workers' one, and workers leave when there is nothing to do.    *)
JobsConserved ==
    ~ctxDone =>
        /\ next - 1 = done + Len(jobs) + Cardinality(Busy)
        /\ \A w \in Workers : worker[w] = "exited" => jobs = <<>> /\ jobsClosed

(* Checks are counted before their jobs are pushed.                        *)
LastCounted == IF counted THEN next ELSE next - 1
CountsExact ==
    /\ total = Cardinality({j \in 1..LastCounted : Jobs[j].check # NoCheck})
    /\ online + offline = total

(* Every report that was made and is not lost, wherever it is.             *)
Held ==
    Elements(summary) \cup Elements(results)
        \cup UNION {Elements(toSend[w]) : w \in Workers}

ReportsHonest ==
    /\ Held \subseteq Expected \cup Mistakes
    /\ \A i, j \in DOMAIN summary : summary[i] = summary[j] => i = j

(* A check that is still running after the cancellation is a known one.    *)
UnderwayKnown ==
    IF ctxDone THEN \A w \in Workers : worker[w] = "checking" => task[w] \in underway
    ELSE underway = {}

(* A job that was pushed waits, is being checked, or all its reports were  *)
(* made.                                                                   *)
ReportsKept ==
    ~ctxDone => \A j \in 1..(next - 1) :
        \/ j \in Elements(jobs)
        \/ \E w \in Workers : worker[w] = "checking" /\ task[w] = j
        \/ Elements(ReportsOf(j)) \subseteq Held

ScanInv ==
    /\ TypeOK /\ ChannelsOrdered /\ JobsConserved /\ CountsExact
    /\ UnderwayKnown /\ ReportsHonest /\ ReportsKept
============================================================================
