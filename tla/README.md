# A TLA+ verification of pint

pint (this repository) validates Prometheus alerting and recording rules. It
reads rule files, selects checks for every rule, runs them on a pool of
goroutines, asks Prometheus servers about live metrics for the checks that need
it, and reports the problems found: on a console, as a code review, or as
metrics of a daemon. This directory models the parts of it whose correctness
depends on order, concurrency or failure. All paths below are of the
repository; `Module!Name` is a definition of a module here.

## 1. Inventory

| component | code | state it keeps | operations |
|---|---|---|---|
| query pipeline | `src/internal/promapi/{prometheus,keylock,failover,query,config,flags,metadata,errors}.go` | per server: locked keys, `queries` channel, workers; per group: cache, cleaner | `Query`/`Config`/`Flags`/`Metadata` of a group and of a server, `lock`/`unlock`, `queryWorker`, `processJob`, `StartWorkers`, `Close` |
| range queries | `promapi/range.go`, `range_normalize.go` | slices of one query, `results` channel, context, `lastErr`, merged ranges | `RangeQuery` of a group and of a server, `streamSampleStream`, `sliceRange`, `MergeRanges`, `FindGaps` |
| query cache | `promapi/cache.go` | entries with creation, expiry and last use | `get`, `set`, `gc`, `cacheCleaner` |
| scan | `src/cmd/pint/scan.go` (`checkRules`) | `jobs` and `results` channels, workers, counters, `Summary` | producer, `scanWorker`, closer, collector |
| watch daemon | `src/cmd/pint/{watch,metrics}.go` | timer, stop and ack channels, published summary and owners under a mutex | tick, `scan`, `Collect`, signal, shutdown |
| check selection | `src/internal/config/*.go` | none: configuration, rule -> checks | `GetChecksForRule`, `resolveChecks`, `isEnabled`, `IsMatch`, `SetDisabledChecks` |
| `promql/series` | `src/internal/checks/promql_series.go` | of one `Check`: answers so far, problems | up to eight steps per selector, one query each |
| other checks | `src/internal/checks/*.go` | none: rule -> problems | `Check` of each check |
| discovery | `src/internal/discovery/*.go` | list of entries | glob, git branch and git blame finders, symlinks |
| git | `src/internal/git/*.go` | none: reads git's output | `Changes`, `Blame`, `CommitRange` |
| rule parser | `src/internal/parser/*.go` | none | `ReadContent`, `Parse` |
| reporters | `src/internal/reporter/*.go` | reviews and comments on GitHub, report and annotations on BitBucket | `Submit` of each reporter, `Summary` |
| commands | `src/cmd/pint/{lint,ci,config,main,...}.go` | exit status | sequential drivers of the above |
| output helpers | `src/internal/output/*.go` | none | formatting |

**How they interact.** A command finds entries (discovery, git, parser), and
hands them to `checkRules`. Its workers call checks; an online check calls a
`FailoverGroup`, blocks there until a query worker of one of the group's
servers answers on the job's own unbuffered channel, and in the end pushes
reports on `results`. The summary goes to the reporters, or, in the daemon, is
published for `/metrics`, which HTTP handlers read concurrently. One context is
passed down all of it: in the daemon a signal cancels it while the command waits
for the timer goroutine before it closes the groups.

**What is hard, and what would make it correct.**

| component | hard because | correct when |
|---|---|---|
| query pipeline | callers, workers, cleaner and shutdown share channels, a lock table and a cache; every error path has to unlock and reply | a question is asked once at a time, answered exactly once by the right server, fails over only when it should; nothing hangs, and Close finds nobody who may still send |
| range queries | slices race, cancel one another, fail differently; the caller drops cancellations while merging | a success has every slice; the error kept decides failover the way the documentation says |
| query cache | expiry is only looked at by a timer | bounded age of what is served, bounded life of what is not used, no eviction of what is in use |
| scan | three kinds of goroutines around two bounded channels, cancelled at any time | complete unless cancelled, every problem once, a cancellation spoils only what was being checked, it returns, nothing is left behind |
| watch daemon | tick, stop, scrape and signal race | shutdown order, consistent pages, no starvation |
| check selection | layers of enabling, disabling, comments and matches | one predicate per rule and check, in whatever order the layers are written |
| `promql/series` | a protocol of queries, each of which can fail, with early ends | findings are facts about the series; a dead selector is not passed over |
| rule parser | flags remember the comments of earlier lines; YAML merges repeat keys | what is ignored and what is a rule is a function of the whole file |
| reporters | several requests with no transaction, rerun on every push | a later successful run repairs what a failed one left; all outputs agree |
| discovery, git | several commits fold into one change | each rule of the branch is checked once, in its final state |

The list of hazards, each at its line, is `hazards` in `PROJECT.json`; each one
names the properties below that cover it. One has none, and says why: a step so large
that `sliceRange` never ends.

## 2. Modules

### FailoverContract: what a check is promised
The abstract specification: a caller asks a question, servers of the list are
tried in order, the next one only when the verdict of the last one is
unavailable (or the run was cancelled), and the caller gets the verdict of the
last server tried, on the question it asked. `ContractSpec` adds that a question
asked is answered. Nothing of locks, queues, workers or cache is visible.

### QueryPipeline: `promapi` for a single request per question
One action per step that another goroutine can interleave with.

| code | definition |
|---|---|
| a check calls the group (`failover.go` `Query`, `Config`, `Flags`, `Metadata`) | `Ask`, and `NextServer` inside `Return` |
| `partitionLocker.lock`: take the key, or sleep in `Cond.Wait` | `Acquire`, `Park` |
| `prom.queries <- ...`, on a bounded channel | `Send` |
| deferred `unlock`: drop the key and `Broadcast` | `Released`, `Woken`, in `Return` |
| `queryWorker`: receive; `processJob`: cache, cancelled context, run, store; reply | `Take`, `Hit`, `Miss`, `Finish`, `Store`, `Reply`, `Exit` |
| `cacheCleaner` and `gc` | `CollectGarbage` (any subset of the entries; the module QueryCache says which) |
| cancelled context; `Close` of group, server, cleaner | `Cancel`, `CloseServer`, `QuitCleaner` |

`Finish` chooses any verdict a server can cause: success, an error that
`IsUnavailableError` accepts, one it does not, and cancellation if the run was
cancelled. `NotSupported` and such texts are not told apart.

### RangeQuery: `RangeQuery` of a group and of a server
A call cuts its range into `Slices`, each a goroutine that sends on the shared
queue, waits, delivers on `results`, and cancels its siblings on an error. The
merging loop (`Merge`, `Merged`) keeps the last error that is not a cancellation
and the ranges of the slices that succeeded. Seen from its caller, all of it is a question
asked of one server after the other: `RangeQuery!Contract` instantiates FailoverContract,
and judges a call when it returns. A worker's verdict can also be
`"truncated"`: a body cut short by a cancellation is a decoding error for
`streamSampleStream`, not `context.Canceled`. Slices are opaque: their
arithmetic is SeriesRanges.

### TimeRanges and SeriesRanges: what the samples of a range query become
TimeRanges holds the operators, without variables: `AddTime`, `RangesOf`
(`AppendSampleToRanges`, and the same loop in `FindGaps`), `Overlaps` with its nine cases
in order and `Hull`, what they all return; `Absorb`, `Pass`, `Settled`, `Insert`, `Sorted`,
`MergeRanges` (one pass, the calls to itself until nothing merges, the stable sort); `Covers`,
`FindGaps`. The loops are recursive functions (`RangesOf` over the seconds up to the last
sample, `Pass` and `Sorted` over the ranges, `Settled` over the depth of calls), the form
their theorems can be stated in.

SeriesRanges is the arithmetic of a range query for one label set, in seconds.
`SliceSize` and `Slices` are `queryStep` and `sliceRange`, `CacheKey` is the key of a
slice (start, rounded end, step), `Arrive` takes the slices in any order into the merging
loop, `LookForGaps` is the call of `FindGaps` in a check, for any uptime. `Init`
takes any window and any set of evaluations at which there is a sample. `Runs` is the
reference: the runs of samples that miss no more than one evaluation, defined on the set
of all samples, with no slices, no order and no merging. `AllPoints` and `Points` are
Prometheus, external.

### SeriesCheck: `promql/series`
The protocol of `Check` for each selector of a rule. Each query is an action that takes
any answer Prometheus can give, a set of evaluations, or a failure.

| code (`promql_series.go`) | definition |
|---|---|
| the loop over selectors, `ALERTS`, comments that disable a selector | `NextSelector`, `AlertProblems`, `isDisabled` |
| steps 1 and 2: instant query, uptime, the bare metric | `AskInstant`, `AskUptime`, `AskBare`, `MetricProblem` |
| step 3: each label | `AskLabel`, `LabelProblems`, `IsNeverLabelled` |
| step 4: the metric went away | `LabelsDone`, `Gone`, `IsRecent` |
| steps 5 to 7: each matcher with a value; step 8 | `AskValue`, `ValueProblems`; `ValuesDone` |
| `rule/set ... min-age`, `ignore/label-value`, `getMinAge` | `getMinAge`, `BadComments`, `isLabelValueIgnored` |
| `queryProblem`, `textAndSeverityFromError` | `queryProblem`, `Fails` |

The nil `promUptime` is `None`, and its dereference the control state `"panicked"`. `answers`
is a function of the queries made for the selector (`Bare`, `Label(i)`, `Value(i)`), and a
problem names the query it is about: the properties compare the two.

### QueryCache: `cache.go` in time
Discrete time; `TimePasses` cannot pass a due gc, or the timeout of a running query.
`Hit`, `Miss`, `Store` are `get` and `set` as the workers call them; entries are a
function of the keys present. `asked` is a history variable: when a key was last
asked for.

### ScanPipeline: `checkRules`
`CountJob`/`PushJob`/`CloseJobs` are the producer, `TakeJob` ... `ExitWorker` a
`scanWorker`, `CloseResults` the closer, `CollectReport`/`Return` the caller,
`Cancel` the context. What checks find is data (`Finds`), and so is
what an online check can report instead when the context is done while it runs
(`CutShort`, any set of reports): that it could not run, which is what
`textAndSeverityFromError` makes of a cancelled instant query; or something false,
because the loop of `RangeQuery` passes over `context.Canceled` and answers with the
slices it has, or with none, and no error (`range.go:174-196`), which `promql/series`
takes for a series that is not there (`promql_series.go:203-251`). `underway` is a history
variable: what workers were checking at the cancellation.
Problems are compared as `Report.isEqual` compares them.

### Watch: `watch.go`
The timer goroutine, `scan`, the publication of its result under the mutex,
`Collect` by any number of scrapers under the same mutex, and the main goroutine
from signal to exit. The scan is one step here (`CheckRules`); what it relies on
is what ScanPipeline shows.

### RuleFile and CheckSelection: from a file to the checks of its rules
RuleFile reads a file line by line (`ReadLine`, with the four flags of `ReadContent` in
`skip`), unpacks the keys of a mapping (`unpackNodes`: merged mappings and duplicates, and the
keys that are `Lost` after a list or inline merge), decides what it is (`parseRule`), finds the comments that govern it (`GetComments`,
`FileComments`, `disabledChecks`, `ParseSnooze`), and what `readRules` makes of a file
(`Verdict`, `PathError`, `Kept`; `StrictError` is what `rulefmt` has against a rule, less
what `isStrictIgnored` lets pass). CheckSelection adds the configuration: `IsMatch`,
`resolveChecks`, `isEnabled`, `SetDisabledChecks`, `DisableOnlineChecks`, and
`GetChecksForRule` with its removal of repeated checks. A line is a pint comment, a piece
of YAML, both or nothing, and a rule is one line: what matters is which lines and which
keys survive. A regexp is the set of what it matches. `LinesHaveParts`, `MappingsAreKeys` and
`ConfigsHaveLists` only say of what shape lines, mappings and blocks of a configuration are.

### BranchEntries: which rules `pint ci` checks
The state is what somebody committed to a branch (`Modify`, `Add`, `Rename`, `Delete`,
`Link`: git is external); in every state both finders are functions of it.

| code | definition |
|---|---|
| `git.CommitRange`, `git.Blame` | `HEAD`, `Blame`, `Written` |
| `git.Changes`: one change for all commits of a path, old and new types, modified lines | `ChangeAt`, `ChangeOf`, `Changes`, `ModifiedLines` |
| `GitBranchFinder.Find`, `matchEntries`, `findRulesByName` | `GitBranchFinder`, `matchEntries`, `Identical`, `Named`, `StateOf`, `Matched` |
| `GitBlameFinder.Find`, its map from paths to commits | `GitBlameFinder`, `Track`, `PathCommits` |
| `symlinks.go` | `addSymlinkedEntries`, `Links`, `Dangling` |

A finder that returns an error yields a record that says so. `Changes` folds the commits of a
path from the last one back to where the path or the name it was renamed from begins; each loop
of `matchEntries` that removes a rule it has used is a recursive function over the new rules,
`Matched`.

### Reviews: from a summary to the exit status
`submitReports` with the console, BitBucket and GitHub reporters and the exits of
`actionCI` and `actionLint`, one action per request (`PutReport`, `DeleteAnnotations`,
`CreateAnnotations`, `findExistingReview`, `WriteReview`, `getReviewComments`,
`createComment`). A request fails before it had its effect or after it (`Answered`,
`Abort`); nothing is remembered between runs, and `Push` and `PeopleReview` happen in
between. Problems keep what decides: source, path, lines, modified lines, reporter, text
and severity.

### How they compose
`QueryPipeline!Contract` and `RangeQuery!Contract` instantiate FailoverContract, each with a
refinement mapping.
QueryCache refines the `CollectGarbage` and the cache of QueryPipeline in time;
RangeQuery uses the same queues and locks with several jobs per call, and SeriesRanges
says what its results, arriving in any order, are merged to. That a check
ends in ScanPipeline is `ImplementsContract` of both; that a scan
ends in Watch is `ScanReturns`. That `Close` comes after the last check is an
assumption of QueryPipeline (`ScanOver`, a guard of `CloseServer`) and shown by others: no slice outlives
the call of its check (`NoSliceOutlivesCall`), no check the scan (`NoSendAfterClose`, proved
as `ClosedChannelsStayQuiet`), and no scan runs when servers are closed
(`ServersOpenWhileScanning`). CheckSelection EXTENDS RuleFile and runs its reader; SeriesCheck and
SeriesRanges EXTEND TimeRanges, and `RangesAreRuns` is why SeriesCheck may answer a query
with a set of evaluations. BranchEntries gives the entries a scan begins with, and Reviews
begins where `SummaryHonest` ends. Each module's assumption is another one's property.

## 3. Runs

| run | question | instance |
|---|---|---|
| `pipeline` | `SingleFlight`, `ResultsHonest`, `NoLostWakeup`, `RunOnlyOnMiss`, `ImplementsContract`, `ShutsDown` | 3 callers, 2 keys, 2 servers with 2 workers and 1, queue of 1, one call each |
| `range_slices` | `SuccessIsComplete`, `NoSendOnClosedResults`, `NoSliceOutlivesCall`, `ImplementsContract` | 1 caller, 3 slices, 2 servers with 1 worker each |
| `series_ranges` | `SlicesCoverWindow`, `RangesAreRuns`, `GapsAreReal`, `CacheHidesOnePoint` | windows of 2 to 11 seconds from 3 starts, steps of 2, 3 and 4, slices of 6 |
| `cache` | `BoundedStaleness`, `UnusedIsDropped`, `InUseIsKept` | 2 workers, an instant and a slice key, 14 ticks |
| `scan` | `ScanComplete`, `SummaryHonest`, `ScanReturns` | 4 entries, 3 workers, channels of 1 |
| `watch` | `ServersOpenWhileScanning`, `PagesConsistent`, `PagesComplete`, `StopsOnSignal`, `ScrapesAnswered`, `KeepsScanning` | 2 scrapers, 2 servers, 3 scan numbers |
| `series_check` | `FindingsAreFacts`, `DeadSelectorsAreReported` | 9 rules, 6 evaluations, 3 uptimes, every answer |
| `reviews` | `BitBucketRepaired`, `CommentsRepaired`, `NothingSaidTwice`, `VerdictsAgree` | 2 commits, 3 runs, 6 summaries, 1 comment by people, pages of 3 |
| `entries` | `BlameFinderExact`, `BranchFinderComplete`, `MovedIsNotRemoved`, `FindersSurvive` | 3 paths (one excluded), 3 commits, 2 rules in a file, 3 base trees |
| `check_selection` | `IgnoredAsAsked`, `KeysDecide`, `DisabledStaysOff`, `OthersRun` | files of up to 4 lines of 18 kinds, 4 configurations, all mappings of up to 4 of 9 keys and merges |
| `rename_unchecked`, `uptime_lost` | a statement of the documentation and one of the code, violated: section 5 | |

The type invariants (`TypeOK` of each module with concurrent processes) and the facts the
proofs rest on (`LockTableExact`, `JobsAccounted`, `WaiterHasJob`,
`NoSendAfterClose`) are defined beside the properties, the inductive invariants of the proofs at the end of each
module; all of them are proved (section 4). Any of them can be added to the `INVARIANTS` of the run of
its module.

**Bounds and why they are enough.** Three callers are needed for a lost wake-up
(one holds, two sleep for different keys) and two keys for a waiter woken for the
other one's key. Two workers race for the queue of the first server, and one alone has the second. Two servers make one failover and one end of the list. A queue
of one slot is both full and empty all the time; the code's `concurrency * 10` only
makes the cases rarer. `MaxCalls` bounds the calls each caller makes (name and guard in the
modules); that another caller asks the same question later is how a key is taken, released,
cached and asked again. Two
slices race, three let a third be neither the failing nor the last one, and are more than
queue and worker hold together. In SeriesRanges the unit of
time is free: what matters is how step, slice size, start and length divide one another,
and the steps are chosen so that two hours (`SliceBase`) is a multiple of the step, is
rounded to it, and is cut to the look-back, with two and three evaluations in a slice and
from one slice to three. Channels of capacity 1 with three workers let every goroutine of
a scan be blocked at once, and leave jobs behind when the workers have gone. In QueryCache
one tick is two minutes, `maxStale` 4 and the interval 2, the order between these and
both times to live is the code's; `MaxTime` lets an entry be born, expire, be
collected and be born again. `ScanIds` reuses scan numbers in Watch: a page shows
one scan, so numbers only have to differ between scans that can be seen together.
Six evaluations are what SeriesCheck needs for a metric to be there, away for more than a
step, back, and gone again before the end. In Reviews a third run meets what two failed
ones left, and a page of three is too short for what two commits can leave. Three commits
let BranchEntries add, rename and edit, or delete, bring back and edit, one path, and two
rules in a file are what a match by name can confuse. Four lines are a block of ignored
lines with a comment inside it, or any marker between two rules.
Deadlock is checked in every run but two: a system that may stop ends in a `Terminated` or
`Done` step. In `entries` and `check_selection` nothing runs concurrently, and the branch or
the file is complete when its bound is reached.

**Fairness and why the code justifies it.** `WF` of what a goroutine does next: the
Go scheduler is preemptive and runs whatever can run. `WF` of `Finish`: a request
has a timeout (`doRequest`). `WF` of the return of a check: checks have no loop but
over finite data. Signals, cancellation and gc are never owed. In Watch, `SF` for
two things, both of Go: `select` picks at random among the ready cases, so a stop
that is ready with every tick is taken in the end; `sync.Mutex` hands itself to a
waiter that starved for a millisecond. RangeQuery and QueryPipeline assume nothing
about who gets a contended key: callers make finitely many calls.

## 4. Proofs

All in modules named `...Proofs`, checked by TLAPS for every value of the constants that
satisfies the named assumptions (`PipelineAssumption`, `RangeAssumption`, `CacheAssumption`,
`ScanAssumption`, `CutShortAssumption`, `WatchAssumption`, `ReviewsAssumption`, `RangesAssumption`,
`SeriesAssumption`, `EntriesAssumption`, `LinesHaveParts`, `MappingsAreKeys`, `ConfigsHaveLists`). Sets of callers, keys, checks and problems may be infinite; slices and
the workers of a scan are finite, as a cardinality counts them.

- **QueryPipelineProofs.** `PipelineInvariant` is the inductive invariant:
  type correctness, that locked keys are exactly those of callers between
  `Acquire` and `Return` (one holder each), that jobs in queues and hands are those
  of waiting callers, each once, that a sleeper's key is held, that cache entries are
  honest, and that what a running worker missed in the cache is still missing. None of the
  properties is inductive alone: single flight needs the lock table *and*
  that a job in hand belongs to a caller still holding its key (`JobsAccounted`);
  `RunOnlyOnMiss` needs single flight; `ResultsHonest` needs that the caller of a
  job does not change its key while the job exists. `SingleFlightHolds`,
  `MissesStayMisses`, `AnswersAreHonest` and `PipelineSafety` (the type invariant and the other
  invariants) follow. `ImplementsContractSafely`: every step
  under the mapping is a step of the contract or a stutter; `Reply` is `Judge`.
- **RangeQueryProofs.** `RangeInv` counts. A slice is in one place: to be sent, in a queue, in
  the hands of a worker, on `results`, or merged (`JobsAccounted`); the WaitGroup is the
  number of the slices before `results` and on it (`WaitGroupExact`), so a closed channel has no
  sender left and a call that has read its last result has no slice anywhere: that is
  `ResultsChannelIsSafe` and `SlicesEndWithCall`. `SuccessHasEverySlice` needs two more facts,
  because the loop passes over cancellations: until the run itself is cancelled, whatever was
  cancelled was so because a slice had failed of its own (`CancelledByFailure`), and that
  error, once merged, is in `lastErr` (`MergedIsKept`). `OneCallPerRange` is single flight of
  whole calls. `RangeKeepsContract` shows that each step is one of the contract or a stutter: the
  last `Merge` of a call is its `Judge`, and `LastServerAnswers` that the verdict is the
  last server's.
- **DaemonProofs**, of QueryCache and of Watch. `CacheInv` says the clock is never past a due gc or a
  timeout, and that what the last gc left was neither expired nor unused then. With
  it `StalenessIsBounded`, `UnusedAreDropped` and the action property `InUseAreKept`.
  `WatchInv`: the ack means the timer ended; what is under the lock
  is one scan; until the signal only complete scans reach it. `ShutdownOrder`,
  `PagesHonest` and `NoPartialPages` follow.
- **ScanPipelineProofs.** `Jobs`, what the producer sends, is defined by recursion over the
  entries. `SetInduction` is an induction for one given set of numbers (its least element
  comes from the well-founded order of finite sets), which shows that the recursion has
  a value and what is in it (`JobsUpToDef`, `JobsOfPrefix`). `ScanInv` then says that a job counted but not done
  is in `jobs` or in the hands of a busy worker (`JobsConserved`), that a report found is with a worker, on
  `results` or in the summary (`ReportsKept`), that nothing else is (`ReportsHonest`), and who
  may still send when a channel is closed (`ChannelsOrdered`). `FinishedScanIsComplete` adds them up: when the
  caller returns both channels are empty and no worker is busy.
  `SummaryIsHonest` and `ClosedChannelsStayQuiet` follow. For the first, a check that runs after the
  cancellation has to be one that was under way then (`UnderwayKnown`), because `TakeJob` looks
  at the context before each check; whatever such checks report, nothing else is wrong.
- **SeriesProofs**, of SeriesRanges and of SeriesCheck. About any two ranges and any step, by arithmetic alone: `Overlaps`
  accepts no ranges further than a step apart (`OverlapsOnlyTouching`), denies ranges
  that touch in one case only, the first included in the second and aligned with it
  (`OverlapsMissesAligned`), so that two ranges touch if and only if it accepts them in
  one order or in the other (`OverlapsOneWay`); what is merged includes both and bridges
  a step at most (`MergedIsHonest`). Then the loops, for any samples. `SamplesBecomeRuns`: what
  `AppendSampleToRanges` makes of samples one by one is the list of their runs (`AddTimeExtends` is
  one sample). `MergeKeeps`: whatever `MergeRanges` is given, what it returns holds all of it, and no range
  follows another by a step or less; for a pass that merges nothing has asked `Overlaps` of
  every two ranges (`PassKeeps`), and what n calls deep make of n ranges or fewer has settled (`SettledKeeps`).
  `RangesInv` is the inductive invariant: ranges are *pieces* of the runs of all samples, which
  stays true when another slice brings more samples (`PiecesGrow`) and when two that touch are
  joined (`HullOfPieces`), and each sample that arrived is in one. When nothing follows anything,
  pieces that hold every sample cover the runs exactly (`PiecesCover`): that is `CoverageIsExact`,
  the first half of `RangesAreRuns`, and, because `FindGaps` asks only what is covered, `GapsAreTrue`.
  The second half needs a second invariant, `RunsInv`: until they are merged, the ranges are runs
  of single slices, each once. When slices have two evaluations, such ranges form a *chain*
  (`ArrivedAreChain`): none includes another, and of three the first and the last are more than
  a step apart. Between passes ranges can overlap more than the chain they came from, because `Absorb` extends
  each range that overlaps the next one; but each keeps one range of that chain
  to itself and takes in only its neighbours (`AbsorbGrows`), so that a pass makes a chain of
  a chain (`PassChains`), and in a chain that has settled no two touch (`ChainUntouched`): the
  ranges `Overlaps` overlooks are included in others. Sorted, these are all the runs, in order (`PiecesAreRuns`):
  that is `MergedAreRuns`, all of `RangesAreRuns`.
  Each loop is taken apart by `SetInduction`, as in ScanPipelineProofs.
  `SlicesCover` and `CacheLacksOnePoint` are the arithmetic of `sliceRange` and of the cache key
  for every window, step and alignment, without a bound on any: the provers know
  division only by its defining inequalities (`DivMod`), from which follow where slices begin
  and end (`SlicesFrom`, `SlicesInOrder`, `SliceOfTime`), that an evaluation is less than a step before
  any time of a slice (`PointBefore`), and that two slices with one key end less than a step
  apart (`SameKey`).
  `CheckInv` is the inductive invariant of `promql/series`. `DeadSelectorsAreReported` speaks of
  a selector the check has left, so something has to be said while it is at it: of the values
  asked for so far each has left a problem or has samples (`DeadSoFar`). That an answer is not
  replaced by a later one, which every finding relies on, needs that no query is made twice
  (`NothingAskedTwice`), and that the label of a matcher was asked for when it was the first to
  name it, for then what is answered for the value is among the samples of the label
  (`AnsweredIsAlive`). That a finding is a fact is a lemma for each kind of it, resting on
  `SamplesBecomeRuns`: the gaps of what comes and goes (`SometimesIsFact`), the end of the only
  range of what is gone and the min-age of the most specific comment (`GoneIsFact`,
  `MinAgeIsAskedFor`), and, the only hard one, that a label whose absence is one range with no
  gap is at no time there in two evaluations in a row (`UnlabelledIsFact`). `FindingsAreTrue`
  and `DeadIsReported` are the result: for any rule, look-back, comments, answers and failures.
- **ReviewsProofs.** `ReviewsInv` says, for each step of a run, what its requests have
  already repaired (`BitBucketSoFar`, `GitHubSoFar`), what was printed, and that the exit status
  comes last: the properties speak of finished runs only, so none is inductive.
  `BitBucketIsRepaired` and `AllVerdictsAgree` follow, with `MaxExists` (a finite set of lines
  has a last one, from the well-founded order of its subsets), which puts each annotation on
  a line, and `BugsAreCounted` (a count by severity is positive when there is a problem to report).
  `CommentsInv` is the invariant of the lists on GitHub: the review to update is pint's, and one
  is created only when the first page had none (`ReviewIsPints`); a comment on the first page
  was listed or is of this run (`ListedAreKnown`); each report is still to be commented on or
  has its comment, in whatever order reports come (`CommentsSoFar`). `NothingSaidTwice` is a part of it,
  because only with the two facts before it is it kept; `CommentsAreRepaired` follows.
- **CheckSelectionProofs.** `ReadInv` says what each of the four flags of `ReadContent` remembers:
  `IgnoredAsAsked` looks at all comments before a line and the code at four booleans only, so
  the invariant has to say which histories each value stands for. An
  `ignore/next-line` inside of a block also ends it, one line later: `begin` stays set, and only
  `next` and `autoReset` tell whether the block is still on.
  `LinesIgnoredAsAsked` follows for files of any length. `DisabledChecksStayOff` and
  `OtherChecksRun` are about a fold over the whole configuration: `FlattenSeqDef` and
  `FlattenIsSeq` (by `SetInduction`) say what a joined list holds, `AllAreChecks` that all that
  is in it are checks whose tags and instances `isEnabled` reads, and `FirstIsRun` that of several checks with one
  `String()` the first enabled one is kept. `KeysAreDecisive` is about mappings of any length with any
  merges of anchored mappings, keys lost to other merges included: `FlattenKeepsAll` says what a joined list holds and what it holds twice,
  `UnpackNodesDef` which keys a mapping ends up with, and the verdicts of `parseRule` are then cases.

- **BranchEntriesProofs.** The finders are functions of the history, so nothing in the
  properties is inductive over steps: `HistoryInv` only says that each commit left what its line
  of the log says, that a line of a file after it was there before or is the commit's own, and
  that other paths were not touched (`HistoryKept`). The work is induction over the commits of
  one state, by `SetInduction`. For `BlameExact`: who wrote a line (`LinesAreWritten`), what
  becomes of a path between two commits that name it (`StaysOrMoves`), and what `pathCommits`
  owes each path after each commit (`TrackKeepsRight`): all the commits that wrote lines of it,
  or a rename has taken it out of the included paths since. For `MovedIsSafe` and
  `BranchComplete`: what `matchEntries` has left of the old rules after each new one
  (`MatchingShrinks`, `NothingLikeItLeft`), where the change of a path begins (`EndsOf`), and
  that a rule nobody had before is not identical to an old one (`NewIsNotIdentical`).
  `FindersGoOnAlways` is `FindersSurvive`.

The exception of `BlameFinderExact` came out of its proof. Without it the statement holds for the
three commits of the run and for four; with five it does not: edit a rule of `a`, rename `a` to a
path that is not included, add another `a`, delete it, rename the first one back. The edited
rule is then attributed to the branch by git and not reported, because the finder dropped the
commits of `a` when it was deleted. The property says what is true for any number
of commits: a rule is only lost if a rename out of the included paths came after it.

**Only model-checked.** Everything temporal beyond safety (`ShutsDown`, the liveness half of
both `ImplementsContract`, `ScanReturns`, `StopsOnSignal`, `ScrapesAnswered`, `KeepsScanning`):
liveness under fairness and `ENABLED` are beyond this prover. Every invariant and every
action property of the passing runs is proved.

## 5. Where code and documentation disagree

Two are runs that TLC finds violated; `findings` in `PROJECT.json` has the lines.

1. `rename_unchecked` (`NewRulesChecked`): a file that a pull request adds and then renames has
   rules the default finder of `pint ci` does not report. The finder tracks the rename
   (`git_blame.go:96`), but `git.Blame` drops each line that git attributes to another path
   (`git.go:70`), against "scan all modified files included in those changes"
   (`docs/index.md:25`).
2. `uptime_lost` (`SurvivesLostUptime`): when the query for Prometheus uptime fails and the next
   one succeeds, `promql/series` dereferences a nil answer (`promql_series.go:208`), though
   line 190 only warns and line 192 allows for it.

The statements below are contradicted by the code as well. Each is defined at the end of its
module, and TLC shows a violation when it is the only `INVARIANT` of the named passing cfg.

3. `RangeQuery!UnavailableFailsOver` (`RangeQuery.cfg`): an unavailable server is not failed over
   when cancelling the sibling slices (`range.go:154`) cuts one of their bodies short: that
   decoding error replaces the connection error (`range.go:175`). Against
   `docs/configuration.md:203`: "list of URIs to try (in order they are specified) if `uri`
   doesn't respond to requests or returns an error".
4. `RangeQuery!QueryErrorStaysPut` (`RangeQuery.cfg`): a query Prometheus rejected goes to the
   failover server if another slice then cannot connect: the *last* error merged decides
   (`range.go:176`). Against `docs/configuration.md:206`: "Failover URIs are not used if
   Prometheus returns an error caused by the query".
5. `ScanPipeline!NothingLeftRunning` (`ScanPipeline.cfg`): after a cancelled scan its producer
   can be blocked for ever on `jobs` (`scan.go:120`), so a daemon that has logged "Waiting for
   all background tasks to finish" (`watch.go:161`) leaves one behind.
6. `SeriesCheck!UnlabelledIsReported` (`SeriesCheck.cfg`): a label no series ever had is not
   reported if the metric was there at the first or at the last evaluation of the look-back
   only. `Overlaps` has the cases of a second range included in the first with a shared end
   (`range_normalize.go:138,151`) and not their mirror. Against the comment "{bar OR baz} is
   NEVER there -> BUG" (`promql_series.go:253`).
7. `CheckSelection!RejectsAreRun` (`CheckSelection.cfg`): of two `reject` blocks of a rule whose
   regexp is the same, one on annotation keys and one on label keys, one is dropped as a
   repetition (`config.go:177`): the `String()` of the check names the regexp only. Against
   `docs/checks/rule/reject.md:34`: "if true annotation keys for alerting rules will be checked".
8. `Reviews!EveryIssueCommented` (`Reviews.cfg`): a problem seen at two places with the same text
   is commented on once, at the first, when a run repeats on a commit that has comments
   (`github.go:141` compares commit and body). Against `docs/index.md:31`: "each issue will
   appear as a comment on your pull request".

Smaller observations, which need no run to be seen:

- `RangesAreRuns` says less of slices with a single evaluation (a step of more than 80
  minutes): for the reason of 6, `MergeRanges` can then leave overlapping ranges of one
  series, depending on the order of slices. They cover the right times, but
  `len(Ranges)` is compared with 1 by `promql/series`.
- `cache.go:68` says results are cached when asked for twice; `set` caches the first one.
- Entries that cannot be checked are counted as done (`scan.go:225`) but not as to do
  (`scan.go:130`), so `pint_last_run_checks_done` can exceed `pint_last_run_checks`.
- `watch.go:194` counts failed and cancelled iterations as completed, against
  `metrics.go:16`.
- The test that a value "used to be there ALWAYS" (`promql_series.go:378`) compares its beginning
  with the end of the window plus the look-back minus a nanosecond, which every range passes;
  step 4 compares with the start (line 293).
- Problems found for earlier selectors suppress steps 4 to 8 of later ones (line 288). A
  label present at a single evaluation can be reported as never there.
- A file modified and then renamed makes the branch finder fail, and one renamed from a path
  `ci.include` matches to one it does not makes the blame finder fail (`FindersSurvive` says when).
- `matchEntries` pairs rules of one name greedily, so an unchanged rule can be taken for a new
  one with no modified lines; `github.go:274` indexes the last of these.
- `--base-branch` (`ci.go:66`) is not passed to the finders (`ci.go:81,84`).
- The blame finder honours `[skip ci]` only in commits that touch an included path.
- `ignore/next-line` between `ignore/begin` and `ignore/end` ends the block; `ignore/file`
  covers the lines above it as well.
- `<<: [*a, *b]` and inline merges make `unpackNodes` drop the keys after them until the next
  alias (`RuleFile!Lost`), so a mapping whose keys all follow one is silently not a rule; nor is
  one with only `for` or only `labels`.
- A file that is a bare list of rules passes strict parsing and is checked as if it were
  relaxed: `discovery.go:30` is among the errors that are ignored.
- A range query of a cancelled run succeeds with the slices it has (`range.go:174-196`), so a
  scan of the daemon that is cancelled can find that a series is not there which is, and
  it is published like any other (`watch.go:257-262`). `SummaryHonest` confines that to the checks under
  way; `PagesComplete` is about pages before the signal.
- A Prometheus server with only `exclude` is used for no path (`prometheus.go:66-83`).
- The `hiddenProblems` of lint counts severities, not problems.

## 6. Not modelled, and why

Text of reports, wording of errors, logging, metrics other than the ones named;
HTTP, JSON, YAML, PromQL and HCL decoding (third-party or pure); the rate limiter
and the request timeout as durations (a request just ends); running git and
the file system. `Config`, `Flags` and `Metadata` share the path of `Query`: only
their keys differ. The order and the cap of series on a `/metrics` page.

- The checks other than `promql/series` are functions of a parsed query or template tree and of
  at most one answer, with no state and no order: what they decide depends on trees that no
  small instance represents. In ScanPipeline a check is the set of problems it finds, and in
  CheckSelection a name, its arguments and the tags of its server.
- The glob finder of lint and watch walks directories and keeps nothing; what `readRules` does
  with each file is in RuleFile.
- `ci` reads the environment and `verifyOwners` compares a field of each rule with a list; the
  other commands print.
- Keys of a mapping whose values are aliases, and what a merged mapping merges itself.
- An empty success of a cancelled range query is not an answer of SeriesCheck, where a check
  runs to its end or its queries fail: what a check makes of it is `CutShort` in ScanPipeline.
- Range queries that compete with one another: RangeQuery has one caller in its run, whose slices
  are more than queue and worker hold; callers that compete are QueryPipeline's. The proofs
  about RangeQuery are for any number of callers.
- Positions of keys and values in a file: a rule of RuleFile is one line, and a rule of
  BranchEntries is one line whose modified lines are what blame says of it.
- Several label sets in one range query: their order is that of a sort, their ranges do not
  interact.
- Git here touches one path in each commit, without copies and directories.

Every component and its status is in `components` of `PROJECT.json`.

## 7. Plan

Done: FailoverContract; QueryPipeline and RangeQuery with their refinements; QueryCache and
Watch; ScanPipeline; Reviews; RuleFile and CheckSelection; TimeRanges, SeriesRanges and
SeriesCheck; BranchEntries; and proofs of all of them. What could come next:

**KeyMutex**, a mutex per key as the abstraction of `partitionLocker` and its condition
variable, refined by QueryPipeline; and two range queries at once in a run of RangeQuery, if an
abstraction of its slices makes that small enough.

Runs are kept few: a module has one run where one instance answers all of its questions.

## 8. Running it

`tlc -config <run>.cfg MC<Module>.tla` for a run, `tlapm <Name>Proofs.tla` for the
proofs (SeriesProofs is of SeriesRanges and SeriesCheck, DaemonProofs of QueryCache and Watch). Every property of a passing run has a mutant in `PROJECT.json`: a definition
of the model changed as a plausible bug would change it, which violates that
property. The mutants are the operators with an underscore in their name that
stand before the definition they vary.
