------------------------------- MODULE Watch -------------------------------
(***************************************************************************)
(* cmd/pint/watch.go: pint as a daemon.  A timer goroutine scans on every  *)
(* tick and publishes what it found, /metrics handlers serve the last scan *)
(* published, and the main goroutine waits for a signal and then winds the *)
(* daemon down: cancel the scan, stop the timer, wait for its ack, close   *)
(* the Prometheus servers, shut the HTTP server down.                      *)
(*                                                                         *)
(* One scan (checkRules) is one step here; ScanPipeline models its inside, *)
(* QueryPipeline what Close does to the workers of a server.               *)
(***************************************************************************)
EXTENDS Naturals

CONSTANTS NumServers,  \* the Prometheus servers of the configuration
          Scrapers,    \* HTTP handlers that can be serving /metrics
          ScanIds      \* scans are numbered modulo ScanIds


Outcomes == {"complete", "truncated"}
TimerHolds == "timer"
Nobody == "nobody"

ASSUME WatchAssumption ==
    /\ NumServers \in Nat \ {0}
    /\ ScanIds \in Nat /\ ScanIds > 2
    /\ TimerHolds \notin Scrapers /\ Nobody \notin Scrapers

Nothing == [scan |-> 0, outcome |-> "nil"]
NoPage == [owners |-> 0, scan |-> 0, outcome |-> "nil"]

VARIABLES
    main,       \* where the main goroutine is
    ctxDone,    \* mainCancel was called
    stop, ack,  \* there is a value in the channel (both have capacity 1)
    closed,     \* how many of the servers were closed
    accepting,  \* the HTTP server accepts requests
    timer,      \* where the timer goroutine is
    tick,       \* there is a value in ticker.C (capacity 1)
    outcome,    \* what came of the scan under way, or of the last one
    iterations, \* checkIterationsTotal modulo ScanIds: also numbers the scans
    lock,       \* who holds problemCollector.lock
    summary,    \* problemCollector.summary: which scan it is of
    owners,     \* problemCollector.fileOwners: which scan they are of
    scraper,    \* where each handler is
    page        \* the page each handler has written, or is writing

mainVars == <<main, ctxDone, closed, accepting>>
timerVars == <<timer, outcome, iterations>>
channels == <<stop, ack, tick>>
published == <<summary, owners>>
scrapeVars == <<scraper, page>>
vars == <<mainVars, timerVars, channels, lock, published, scrapeVars>>

Running == main # "exited"

Init ==
    /\ main = "serving" /\ ctxDone = FALSE /\ closed = 0 /\ accepting = TRUE
    /\ stop = FALSE /\ ack = FALSE /\ tick = FALSE
    /\ timer = "select" /\ outcome = "nil" /\ iterations = 0
    /\ lock = Nobody /\ summary = Nothing /\ owners = 0
    /\ scraper = [s \in Scrapers |-> "idle"]
    /\ page = [s \in Scrapers |-> NoPage]
----------------------------------------------------------------------------
(* The timer goroutine.                                                    *)

(* ticker.C: a tick nobody has received yet swallows the next one.         *)
Tick ==
    /\ Running /\ timer # "finished"
    /\ ~tick
    /\ tick' = TRUE
    /\ UNCHANGED <<mainVars, timerVars, stop, ack, lock, published, scrapeVars>>

StartScan ==
    /\ Running /\ timer = "select"
    /\ tick /\ tick' = FALSE
    /\ timer' = "finding"
    /\ UNCHANGED <<mainVars, outcome, iterations, stop, ack, lock, published, scrapeVars>>

FindEntries ==
    /\ Running /\ timer = "finding"
    /\ timer' = "checking"
    /\ UNCHANGED <<mainVars, outcome, iterations, channels, lock, published, scrapeVars>>

(* scan gives up: the error is logged and the iteration is over.           *)
FindFails_Publishes ==
    /\ Running /\ timer = "finding"
    /\ timer' = "locking" /\ outcome' = "failed"
    /\ UNCHANGED <<mainVars, iterations, channels, lock, published, scrapeVars>>

FindFails_EndsTimer ==
    /\ Running /\ timer = "finding"
    /\ timer' = "finished" /\ outcome' = "failed"
    /\ UNCHANGED <<mainVars, iterations, channels, lock, published, scrapeVars>>

FindFails ==
    /\ Running /\ timer = "finding"
    /\ timer' = "counting" /\ outcome' = "failed"
    /\ UNCHANGED <<mainVars, iterations, channels, lock, published, scrapeVars>>

(* checkRules returns; when it was cancelled its summary may lack reports, *)
(* and have some of checks that could not run.                             *)
CheckRules ==
    /\ Running /\ timer = "checking"
    /\ timer' = "locking"
    /\ outcome' \in IF ctxDone THEN Outcomes ELSE {"complete"}
    /\ UNCHANGED <<mainVars, iterations, channels, lock, published, scrapeVars>>

LockToPublish_Unlocked ==
    /\ Running /\ timer = "locking"
    /\ timer' = "summary"
    /\ UNCHANGED <<mainVars, outcome, iterations, channels, lock, published, scrapeVars>>

LockToPublish ==
    /\ Running /\ timer = "locking"
    /\ lock = Nobody /\ lock' = TimerHolds
    /\ timer' = "summary"
    /\ UNCHANGED <<mainVars, outcome, iterations, channels, published, scrapeVars>>

PublishSummary ==
    /\ Running /\ timer = "summary"
    /\ summary' = [scan |-> iterations, outcome |-> outcome]
    /\ timer' = "owners"
    /\ UNCHANGED <<mainVars, outcome, iterations, channels, lock, owners, scrapeVars>>

(* The owners of the same scan; scan returns and its defer unlocks.        *)
PublishOwners ==
    /\ Running /\ timer = "owners"
    /\ owners' = iterations
    /\ lock' = Nobody
    /\ timer' = "counting"
    /\ UNCHANGED <<mainVars, outcome, iterations, channels, summary, scrapeVars>>

CountIteration ==
    /\ Running /\ timer = "counting"
    /\ iterations' = (iterations + 1) % ScanIds
    /\ timer' = "select"
    /\ UNCHANGED <<mainVars, outcome, channels, lock, published, scrapeVars>>

StopTimer ==
    /\ Running /\ timer = "select"
    /\ stop /\ stop' = FALSE
    /\ timer' = "finished"
    /\ ack' = TRUE
    /\ UNCHANGED <<mainVars, outcome, iterations, tick, lock, published, scrapeVars>>
----------------------------------------------------------------------------
(* The main goroutine, after SIGINT or SIGTERM.                            *)

Signal ==
    /\ main = "serving"
    /\ main' = "stopping"
    /\ ctxDone' = TRUE
    /\ UNCHANGED <<closed, accepting, timerVars, channels, lock, published, scrapeVars>>

SendStop ==
    /\ main = "stopping"
    /\ ~stop /\ stop' = TRUE
    /\ main' = "waiting"
    /\ UNCHANGED <<ctxDone, closed, accepting, timerVars, ack, tick, lock, published,
                   scrapeVars>>

ReceiveAck_NoWait ==
    /\ main = "waiting"
    /\ main' = "closing"
    /\ UNCHANGED <<ctxDone, closed, accepting, timerVars, channels, lock, published,
                   scrapeVars>>

ReceiveAck_Stop ==
    /\ main = "waiting"
    /\ stop /\ stop' = FALSE
    /\ main' = "closing"
    /\ UNCHANGED <<ctxDone, closed, accepting, timerVars, ack, tick, lock, published,
                   scrapeVars>>

ReceiveAck ==
    /\ main = "waiting"
    /\ ack /\ ack' = FALSE
    /\ main' = "closing"
    /\ UNCHANGED <<ctxDone, closed, accepting, timerVars, stop, tick, lock, published,
                   scrapeVars>>

CloseServer ==
    /\ main = "closing" /\ closed < NumServers
    /\ closed' = closed + 1
    /\ UNCHANGED <<main, ctxDone, accepting, timerVars, channels, lock, published,
                   scrapeVars>>

Shutdown ==
    /\ main = "closing" /\ closed = NumServers
    /\ main' = "draining"
    /\ accepting' = FALSE
    /\ UNCHANGED <<ctxDone, closed, timerVars, channels, lock, published, scrapeVars>>

(* Shutdown returns: no handler is left, or its minute is over.            *)
Exit ==
    /\ main = "draining"
    /\ main' = "exited"
    /\ UNCHANGED <<ctxDone, closed, accepting, timerVars, channels, lock, published,
                   scrapeVars>>
----------------------------------------------------------------------------
(* A handler of /metrics: Collect.                                         *)

Scrape(s) ==
    /\ Running /\ accepting /\ scraper[s] = "idle"
    /\ scraper' = [scraper EXCEPT ![s] = "locking"]
    /\ page' = [page EXCEPT ![s] = NoPage]
    /\ UNCHANGED <<mainVars, timerVars, channels, lock, published>>

LockToCollect(s) ==
    /\ Running /\ scraper[s] = "locking"
    /\ lock = Nobody /\ lock' = s
    /\ scraper' = [scraper EXCEPT ![s] = "owners"]
    /\ UNCHANGED <<mainVars, timerVars, channels, published, page>>

(* Before the first scan there is no summary, and Collect returns early.   *)
CollectNothing_Retries(s) ==
    /\ Running /\ scraper[s] = "owners" /\ summary = Nothing
    /\ lock' = Nobody
    /\ scraper' = [scraper EXCEPT ![s] = "locking"]
    /\ UNCHANGED <<mainVars, timerVars, channels, published, page>>

CollectNothing(s) ==
    /\ Running /\ scraper[s] = "owners" /\ summary = Nothing
    /\ lock' = Nobody
    /\ scraper' = [scraper EXCEPT ![s] = "idle"]
    /\ UNCHANGED <<mainVars, timerVars, channels, published, page>>

CollectOwners(s) ==
    /\ Running /\ scraper[s] = "owners" /\ summary # Nothing
    /\ page' = [page EXCEPT ![s].owners = owners]
    /\ scraper' = [scraper EXCEPT ![s] = "reports"]
    /\ UNCHANGED <<mainVars, timerVars, channels, lock, published>>

CollectReports(s) ==
    /\ Running /\ scraper[s] = "reports"
    /\ page' = [page EXCEPT ![s] = [owners |-> page[s].owners, scan |-> summary.scan,
                                    outcome |-> summary.outcome]]
    /\ lock' = Nobody
    /\ scraper' = [scraper EXCEPT ![s] = "idle"]
    /\ UNCHANGED <<mainVars, timerVars, channels, published>>

(* The process has ended.                                                  *)
Terminated == main = "exited" /\ UNCHANGED vars

ScanStep == FindEntries \/ FindFails \/ CheckRules
PublishStep == PublishSummary \/ PublishOwners \/ CountIteration
ShutdownStep == SendStop \/ ReceiveAck \/ CloseServer \/ Shutdown \/ Exit
CollectStep(s) == CollectNothing(s) \/ CollectOwners(s) \/ CollectReports(s)

Next ==
    \/ Tick \/ StartScan \/ ScanStep \/ LockToPublish \/ PublishStep \/ StopTimer
    \/ Signal \/ ShutdownStep
    \/ \E s \in Scrapers : Scrape(s) \/ LockToCollect(s) \/ CollectStep(s)
    \/ Terminated

Spec == Init /\ [][Next]_vars

(* The ticker ticks, a scan ends (ScanPipeline: ScanReturns), goroutines   *)
(* that can run are run.  Strong fairness where Go gives it: select picks  *)
(* at random between a tick and a stop that are both there, and sync.Mutex *)
(* hands itself over to a waiter that has starved for a millisecond.       *)
FairSpec ==
    /\ Spec
    /\ WF_vars(Tick) /\ WF_vars(StartScan) /\ WF_vars(ScanStep)
    /\ SF_vars(LockToPublish) /\ WF_vars(PublishStep) /\ SF_vars(StopTimer)
    /\ WF_vars(ShutdownStep)
    /\ \A s \in Scrapers : SF_vars(LockToCollect(s)) /\ WF_vars(CollectStep(s))
----------------------------------------------------------------------------
(* The types, and the lock is held by whoever is inside Collect or in the  *)
(* last part of scan, and by nobody else.                                  *)
TypeOK ==
    /\ main \in {"serving", "stopping", "waiting", "closing", "draining", "exited"}
    /\ ctxDone \in BOOLEAN /\ closed \in 0..NumServers /\ accepting \in BOOLEAN
    /\ stop \in BOOLEAN /\ ack \in BOOLEAN /\ tick \in BOOLEAN
    /\ timer \in {"select", "finding", "checking", "locking", "summary", "owners",
                  "counting", "finished"}
    /\ outcome \in Outcomes \cup {"nil", "failed"}
    /\ iterations \in 0..(ScanIds - 1) /\ owners \in 0..(ScanIds - 1)
    /\ summary \in [scan: 0..(ScanIds - 1), outcome: Outcomes \cup {"nil"}]
    /\ scraper \in [Scrapers -> {"idle", "locking", "owners", "reports"}]
    /\ page \in [Scrapers -> [owners: 0..(ScanIds - 1), scan: 0..(ScanIds - 1),
                              outcome: Outcomes \cup {"nil"}]]
    /\ lock \in {Nobody, TimerHolds} \cup Scrapers
    /\ lock = TimerHolds <=> timer \in {"summary", "owners"}
    /\ \A s \in Scrapers : lock = s <=> scraper[s] \in {"owners", "reports"}

(* A check never queries a server that was closed: its queries channel is  *)
(* closed too and the send would panic.  The ack is what orders the two.   *)
ServersOpenWhileScanning ==
    closed > 0 => timer = "finished"

(* The owners and the problems on a page are those of one scan.            *)
PagesConsistent ==
    \A s \in Scrapers : page[s].outcome # "nil" => page[s].owners = page[s].scan

(* Until pint is told to stop, a page only shows scans that were complete: *)
(* one that failed leaves the last good one in place.                      *)
PagesComplete ==
    ~ctxDone => \A s \in Scrapers : page[s].outcome \in {"nil", "complete"}

(* What the three of them rest on: nothing is closed before the ack, and   *)
(* nothing but complete scans is published before the signal.              *)
AckEndsTimer ==
    /\ ack => timer = "finished"
    /\ main \in {"closing", "draining", "exited"} => timer = "finished"
    /\ closed > 0 => main \in {"closing", "draining", "exited"}

OneScanPublished ==
    /\ timer \in {"locking", "summary"} => outcome \in Outcomes
    /\ timer = "owners" => summary.scan = iterations
    /\ timer # "owners" /\ summary.outcome # "nil" => summary.scan = owners

ReadUnderLock ==
    \A s \in Scrapers :
        /\ scraper[s] # "idle" => page[s].outcome = "nil"
        /\ scraper[s] = "reports" => page[s].owners = owners

CompleteUntilSignal ==
    ~ctxDone =>
        /\ timer \in {"locking", "summary"} => outcome = "complete"
        /\ summary.outcome \in {"nil", "complete"}

WatchInv ==
    /\ TypeOK /\ AckEndsTimer /\ OneScanPublished /\ ReadUnderLock
    /\ CompleteUntilSignal /\ PagesConsistent /\ PagesComplete

(* A signal ends the daemon, whatever it is doing.                         *)
StopsOnSignal == main = "stopping" ~> main = "exited"

(* A scrape is answered, while the process lives.                          *)
ScrapesAnswered ==
    \A s \in Scrapers :
        scraper[s] = "locking" ~> scraper[s] = "idle" \/ main = "exited"

(* Without a signal pint scans again and again.                            *)
KeepsScanning == [](main = "serving") => []<>(timer = "counting")
============================================================================
