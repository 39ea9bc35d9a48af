---------------------------- MODULE DaemonProofs ----------------------------
(***************************************************************************)
(* Theorems about what only matters when pint keeps running, as pint watch *)
(* does: QueryCache, how old a served answer can be and what stays in the  *)
(* map, for every time to live, interval, timeout and number of workers;   *)
(* and Watch, the shutdown order and what a page of /metrics shows, for    *)
(* any number of servers and of concurrent scrapes.                        *)
(***************************************************************************)
EXTENDS QueryCache, Watch, TLAPS

(* The cache is empty when the workers are started.                        *)
LEMMA CacheStarts == CacheInit => CacheInv
  BY CacheAssumption
     DEF CacheInit, CacheInv, CacheTypeOK, CleanerOnTime, QueriesOnTime, ExpiryOfEntries,
         UseOfEntries, EntryType, RunType, Idle, NotYet

(* A hit renews lastGet of the entry it reads and nothing else.            *)
LEMMA CacheHit ==
  ASSUME CacheInv, NEW w \in Workers, NEW k \in Keys, Hit(w, k)
  PROVE  CacheInv'
<1> USE CacheAssumption
<1>1. /\ k \in DOMAIN entries
      /\ entries' = [entries EXCEPT ![k].lastGet = now]
      /\ DOMAIN entries' = DOMAIN entries
      /\ now' = now /\ gcAt' = gcAt /\ running' = running
  BY DEF Hit, Get
<1>2. /\ asked' \in [Keys -> 0..now]
      /\ \A x \in Keys : asked'[x] = IF x = k THEN now ELSE asked[x]
  BY DEF Hit, Asked, CacheInv, CacheTypeOK
<1>3. \A x \in DOMAIN entries :
        /\ entries'[x] \in EntryType
        /\ entries'[x].born = entries[x].born
        /\ entries'[x].expiresAt = entries[x].expiresAt
        /\ entries'[x].lastGet = IF x = k THEN now ELSE entries[x].lastGet
  BY <1>1 DEF CacheInv, CacheTypeOK, EntryType
<1>4. entries' = [x \in DOMAIN entries' |-> entries'[x]]
  BY <1>1
<1>5. CacheTypeOK'
  BY <1>1, <1>2, <1>3, <1>4 DEF CacheInv, CacheTypeOK, EntryType, RunType
<1>6. CleanerOnTime' /\ QueriesOnTime'
  BY <1>1 DEF CacheInv, CleanerOnTime, QueriesOnTime
<1>7. ExpiryOfEntries'
  BY <1>1, <1>3 DEF CacheInv, ExpiryOfEntries
<1>8. UseOfEntries'
  BY <1>1, <1>2, <1>3 DEF CacheInv, CacheTypeOK, EntryType, UseOfEntries
<1> QED BY <1>5, <1>6, <1>7, <1>8 DEF CacheInv

(* A miss starts a query and leaves the map alone.                         *)
LEMMA CacheMiss ==
  ASSUME CacheInv, NEW w \in Workers, NEW k \in Keys, Miss(w, k)
  PROVE  CacheInv'
<1> USE CacheAssumption
<1>1. /\ k \notin DOMAIN entries
      /\ running' = [running EXCEPT ![w] = [key |-> k, since |-> now]]
      /\ UNCHANGED <<now, gcAt, entries>>
  BY DEF Miss
<1>2. /\ asked' \in [Keys -> 0..now]
      /\ \A x \in Keys : x # k => asked'[x] = asked[x]
  BY DEF Miss, Asked, CacheInv, CacheTypeOK
<1>3. CacheTypeOK'
  BY <1>1, <1>2 DEF CacheInv, CacheTypeOK, EntryType, RunType
<1>4. CleanerOnTime' /\ ExpiryOfEntries'
  BY <1>1 DEF CacheInv, CleanerOnTime, ExpiryOfEntries
<1>5. QueriesOnTime'
  BY <1>1 DEF CacheInv, CacheTypeOK, QueriesOnTime, Idle
<1>6. UseOfEntries'
  BY <1>1, <1>2 DEF CacheInv, CacheTypeOK, UseOfEntries
<1> QED BY <1>3, <1>4, <1>5, <1>6 DEF CacheInv

(* A stored answer is no older than the timeout of its query.              *)
LEMMA CacheStore ==
  ASSUME CacheInv, NEW w \in Workers, Store(w)
  PROVE  CacheInv'
<1> USE CacheAssumption
<1> DEFINE k == running[w].key
           since == running[w].since
<1>1. /\ running[w] # Idle
      /\ entries' = Set(k, since)
      /\ running' = [running EXCEPT ![w] = Idle]
      /\ UNCHANGED <<now, gcAt, asked>>
  BY DEF Store
<1>2. k \in Keys /\ since \in 0..now /\ now <= since + QueryTimeout
  BY <1>1 DEF CacheInv, CacheTypeOK, RunType, QueriesOnTime
<1>3. /\ DOMAIN entries' = DOMAIN entries \cup {k}
      /\ \A x \in DOMAIN entries : x # k => entries'[x] = entries[x]
      /\ entries'[k] = [born |-> since,
                        expiresAt |-> IF Ttl[k] > 0 THEN now + Ttl[k] ELSE ZeroTime,
                        lastGet |-> now]
      /\ entries' = [x \in DOMAIN entries' |-> entries'[x]]
  BY <1>1 DEF Set
<1>4. now \in Nat /\ gcAt \in 0..now /\ Ttl[k] \in Nat
  BY <1>2 DEF CacheInv, CacheTypeOK
<1>5. entries'[k] \in EntryType
  BY <1>2, <1>3, <1>4 DEF EntryType, ZeroTime
<1>6. CacheTypeOK'
  <2>1. DOMAIN entries' \subseteq Keys
    BY <1>2, <1>3 DEF CacheInv, CacheTypeOK
  <2>2. \A x \in DOMAIN entries' : entries'[x] \in EntryType
    BY <1>3, <1>5 DEF CacheInv, CacheTypeOK
  <2>3. entries' \in [DOMAIN entries' -> EntryType]
    BY <1>3, <2>2
  <2>4. running' \in [Workers -> RunType \cup {Idle}]
    BY <1>1 DEF CacheInv, CacheTypeOK
  <2> QED BY <1>1, <2>1, <2>3, <2>4 DEF CacheInv, CacheTypeOK, EntryType, RunType
<1>7. CleanerOnTime' /\ QueriesOnTime'
  BY <1>1 DEF CacheInv, CacheTypeOK, CleanerOnTime, QueriesOnTime
<1>8. ExpiryOfEntries'
  BY <1>1, <1>2, <1>3, <1>4 DEF CacheInv, ExpiryOfEntries
<1>9. UseOfEntries'
  <2>1. asked[k] \in 0..now
    BY <1>2 DEF CacheInv, CacheTypeOK
  <2>2. entries'[k].lastGet = now
    BY <1>3
  <2>3. gcAt < now + MaxStale
    BY <1>4
  <2>4. \A x \in DOMAIN entries : x # k =>
          /\ gcAt < entries'[x].lastGet + MaxStale
          /\ asked[x] <= entries'[x].lastGet
    BY <1>3 DEF CacheInv, UseOfEntries
  <2>5. \A x \in DOMAIN entries' :
          /\ gcAt < entries'[x].lastGet + MaxStale
          /\ asked[x] <= entries'[x].lastGet
    BY <1>3, <2>1, <2>2, <2>3, <2>4
  <2> QED BY <1>1, <2>5 DEF UseOfEntries
<1> QED BY <1>6, <1>7, <1>8, <1>9 DEF CacheInv

(* A query that fails changes no entry.                                    *)
LEMMA CacheFail ==
  ASSUME CacheInv, NEW w \in Workers, Fail(w)
  PROVE  CacheInv'
  BY DEF Fail, CacheInv, CacheTypeOK, EntryType, RunType, CleanerOnTime, QueriesOnTime,
         ExpiryOfEntries, UseOfEntries

(* What gc leaves in the map was neither expired nor unused.               *)
LEMMA CacheCollect ==
  ASSUME CacheInv, CollectGarbage
  PROVE  CacheInv'
<1> USE CacheAssumption
<1>1. /\ DOMAIN entries' = {x \in DOMAIN entries : ~Evicted(entries[x])}
      /\ \A x \in DOMAIN entries' : entries'[x] = entries[x]
      /\ entries' = [x \in DOMAIN entries' |-> entries'[x]]
      /\ gcAt' = now
      /\ UNCHANGED <<now, running, asked>>
  BY DEF CollectGarbage
<1>2. CacheTypeOK'
  <2>1. DOMAIN entries' \subseteq Keys
    BY <1>1 DEF CacheInv, CacheTypeOK
  <2>2. \A x \in DOMAIN entries' : entries'[x] \in EntryType
    BY <1>1 DEF CacheInv, CacheTypeOK
  <2>3. entries' \in [DOMAIN entries' -> EntryType]
    BY <1>1, <2>2
  <2>4. EntryType' = EntryType /\ RunType' = RunType
    BY <1>1 DEF EntryType, RunType
  <2> QED BY <1>1, <2>1, <2>3, <2>4 DEF CacheInv, CacheTypeOK
<1>3. CleanerOnTime' /\ QueriesOnTime'
  BY <1>1 DEF CacheInv, CacheTypeOK, CleanerOnTime, QueriesOnTime
<1>4. \A x \in DOMAIN entries' :
        ~Expired(entries[x]) /\ ~Unused(entries[x])
  BY <1>1 DEF Evicted
<1>5. ExpiryOfEntries'
  BY <1>1, <1>4 DEF CacheInv, CacheTypeOK, EntryType, ExpiryOfEntries, Expired, ZeroTime
<1>6. UseOfEntries'
  BY <1>1, <1>4 DEF CacheInv, CacheTypeOK, EntryType, UseOfEntries, Unused
<1> QED BY <1>2, <1>3, <1>5, <1>6 DEF CacheInv

(* The clock waits for a gc that is due and a query at its timeout.        *)
LEMMA CacheTick ==
  ASSUME CacheInv, TimePasses
  PROVE  CacheInv'
<1> USE CacheAssumption
<1>1. now \in Nat /\ gcAt \in 0..now /\ now' = now + 1 /\ now < gcAt + GcInterval
      /\ UNCHANGED <<gcAt, entries, running, asked>>
  BY DEF TimePasses, CacheInv, CacheTypeOK
<1>2. 0..now \subseteq 0..now'
  BY <1>1
<1>3. /\ EntryType \subseteq EntryType'
      /\ RunType \subseteq RunType'
  BY <1>2 DEF EntryType, RunType
<1>4. CacheTypeOK'
  BY <1>1, <1>2, <1>3 DEF CacheInv, CacheTypeOK
<1>5. CleanerOnTime' /\ ExpiryOfEntries' /\ UseOfEntries'
  BY <1>1 DEF CacheInv, CleanerOnTime, ExpiryOfEntries, UseOfEntries
<1>6. QueriesOnTime'
  <2> SUFFICES ASSUME NEW w \in Workers, running[w] # Idle
               PROVE  now' <= running[w].since + QueryTimeout
    BY <1>1 DEF QueriesOnTime
  <2>1. running[w].since \in Nat
    BY DEF CacheInv, CacheTypeOK, RunType
  <2>2. now < running[w].since + QueryTimeout
    BY DEF TimePasses
  <2> QED BY <1>1, <2>1, <2>2
<1> QED BY <1>4, <1>5, <1>6 DEF CacheInv

(* The invariant of the cache holds in every reachable state.              *)
THEOREM CacheInvariant == CacheSpec => []CacheInv
<1>1. CacheInit => CacheInv
  BY CacheStarts
<1>2. CacheInv /\ [CacheNext]_cacheVars => CacheInv'
  <2> SUFFICES ASSUME CacheInv, [CacheNext]_cacheVars PROVE CacheInv'
    OBVIOUS
  <2>1. ASSUME NEW w \in Workers, WorkerStep(w) PROVE CacheInv'
    BY <2>1, CacheHit, CacheMiss, CacheStore, CacheFail DEF WorkerStep
  <2>2. CASE CollectGarbage
    BY <2>2, CacheCollect
  <2>3. CASE TimePasses
    BY <2>3, CacheTick
  <2>4. CASE UNCHANGED cacheVars
    BY <2>4 DEF cacheVars, CacheInv, CacheTypeOK, EntryType, RunType, CleanerOnTime,
               QueriesOnTime, ExpiryOfEntries, UseOfEntries
  <2> QED BY <2>1, <2>2, <2>3, <2>4 DEF CacheNext
<1> QED BY <1>1, <1>2, PTL DEF CacheSpec

(* No answer is served later than the timeout of its query, its time to    *)
(* live and one interval of the cleaner after it was asked for.            *)
THEOREM StalenessIsBounded == CacheSpec => []BoundedStaleness
<1>1. CacheInv => BoundedStaleness
  <2> SUFFICES ASSUME CacheInv, NEW k \in DOMAIN entries, Ttl[k] > 0
               PROVE  now <= entries[k].born + QueryTimeout + Ttl[k] + GcInterval
    BY DEF BoundedStaleness
  <2>1. /\ now \in Nat /\ gcAt \in Nat /\ Ttl[k] \in Nat
        /\ entries[k].born \in Nat /\ entries[k].expiresAt \in Nat
    BY CacheAssumption DEF CacheInv, CacheTypeOK, EntryType
  <2>2. now <= gcAt + GcInterval
    BY DEF CacheInv, CleanerOnTime
  <2>3. /\ gcAt <= entries[k].expiresAt
        /\ entries[k].expiresAt <= entries[k].born + QueryTimeout + Ttl[k]
    BY DEF CacheInv, ExpiryOfEntries
  <2> QED BY <2>1, <2>2, <2>3, CacheAssumption
<1> QED BY <1>1, CacheInvariant, PTL

(* An entry nobody asks for is dropped one interval after maxStale.        *)
THEOREM UnusedAreDropped == CacheSpec => []UnusedIsDropped
<1>1. CacheInv => UnusedIsDropped
  <2> SUFFICES ASSUME CacheInv, NEW k \in DOMAIN entries
               PROVE  now <= entries[k].lastGet + MaxStale + GcInterval
    BY DEF UnusedIsDropped
  <2>1. now \in Nat /\ gcAt \in Nat /\ entries[k].lastGet \in Nat
    BY DEF CacheInv, CacheTypeOK, EntryType
  <2>2. now <= gcAt + GcInterval /\ gcAt < entries[k].lastGet + MaxStale
    BY DEF CacheInv, CleanerOnTime, UseOfEntries
  <2> QED BY <2>1, <2>2, CacheAssumption
<1> QED BY <1>1, CacheInvariant, PTL

(* gc never evicts an answer that is fresh and was asked for recently.     *)
THEOREM InUseAreKept == CacheSpec => InUseIsKept
<1> DEFINE Kept(k) == Expired(entries[k]) \/ now >= asked[k] + MaxStale
<1>1. ASSUME CacheInv, [CacheNext]_cacheVars,
             NEW k \in DOMAIN entries \ DOMAIN entries'
      PROVE  Kept(k)
  <2>1. CASE CollectGarbage
    <3>1. Evicted(entries[k])
      BY <1>1, <2>1 DEF CollectGarbage
    <3>2. CASE Unused(entries[k])
      <4>1. /\ now \in Nat /\ entries[k].lastGet \in 0..now
            /\ asked[k] \in Nat
        BY <1>1 DEF CacheInv, CacheTypeOK, EntryType
      <4>2. asked[k] <= entries[k].lastGet
        BY <1>1 DEF CacheInv, UseOfEntries
      <4> QED BY <3>2, <4>1, <4>2, CacheAssumption DEF Unused
    <3> QED BY <3>1, <3>2 DEF Evicted
  <2>2. ASSUME NEW w \in Workers, WorkerStep(w) PROVE Kept(k)
    <3>1. DOMAIN entries \subseteq DOMAIN entries'
      BY <2>2 DEF WorkerStep, Hit, Miss, Store, Fail, Get, Set
    <3> QED BY <1>1, <3>1
  <2>3. CASE TimePasses \/ UNCHANGED cacheVars
    BY <1>1, <2>3 DEF TimePasses, cacheVars
  <2> QED BY <1>1, <2>1, <2>2, <2>3 DEF CacheNext
<1>2. CacheInv /\ [CacheNext]_cacheVars =>
        [\A k \in DOMAIN entries \ DOMAIN entries' : Kept(k)]_cacheVars
  BY <1>1
<1> QED BY <1>2, CacheInvariant, PTL DEF CacheSpec, InUseIsKept
----------------------------------------------------------------------------
(* The daemon starts with nothing published and every server open.         *)
LEMMA WatchInit == Init => WatchInv
<1> SUFFICES ASSUME Init PROVE WatchInv
  OBVIOUS
<1> USE WatchAssumption DEF Init, Nothing, NoPage, Nobody, TimerHolds
<1>1. \A s \in Scrapers : scraper[s] = "idle" /\ page[s] = NoPage /\ lock # s
  OBVIOUS
<1>2. 0 \in 0..(ScanIds - 1) /\ 0 \in 0..NumServers
  OBVIOUS
<1>3. summary \in [scan: 0..(ScanIds - 1), outcome: Outcomes \cup {"nil"}]
  BY <1>2
<1>4. page \in [Scrapers -> [owners: 0..(ScanIds - 1), scan: 0..(ScanIds - 1),
                             outcome: Outcomes \cup {"nil"}]]
  BY <1>2
<1>5. TypeOK
  BY <1>1, <1>2, <1>3, <1>4 DEF TypeOK
<1>6. AckEndsTimer /\ OneScanPublished /\ CompleteUntilSignal
  BY DEF AckEndsTimer, OneScanPublished, CompleteUntilSignal
<1>7. ReadUnderLock /\ PagesConsistent /\ PagesComplete
  BY <1>1 DEF ReadUnderLock, PagesConsistent, PagesComplete
<1> QED BY <1>5, <1>6, <1>7 DEF WatchInv

(* The timer goroutine: only it moves timer, outcome and iterations, and   *)
(* it publishes under the lock, while no handler is between its two reads. *)
LEMMA TimerKeepsInv ==
  ASSUME WatchInv,
         Tick \/ StartScan \/ ScanStep \/ LockToPublish \/ PublishStep \/ StopTimer
  PROVE  WatchInv'
<1> USE WatchAssumption
        DEF WatchInv, TypeOK, AckEndsTimer, OneScanPublished, ReadUnderLock,
            CompleteUntilSignal, PagesConsistent, PagesComplete, Outcomes,
            mainVars, channels, scrapeVars, published, Nobody, TimerHolds
<1>1. CASE Tick
  BY <1>1 DEF Tick, timerVars
<1>2. CASE StartScan
  BY <1>2 DEF StartScan
<1>3. CASE ScanStep
  BY <1>3 DEF ScanStep, FindEntries, FindFails, CheckRules
<1>4. CASE LockToPublish
  BY <1>4 DEF LockToPublish
<1>5. CASE PublishSummary
  <2>1. /\ timer = "summary" /\ timer' = "owners" /\ lock = TimerHolds
        /\ summary' = [scan |-> iterations, outcome |-> outcome]
        /\ UNCHANGED <<mainVars, outcome, iterations, channels, lock, owners, scrapeVars>>
    BY <1>5 DEF PublishSummary
  <2>2. outcome \in Outcomes
    BY <2>1
  <2>3. TypeOK'
    BY <2>1, <2>2
  <2>4. AckEndsTimer' /\ OneScanPublished' /\ CompleteUntilSignal'
    BY <2>1
  <2>5. ReadUnderLock' /\ PagesConsistent' /\ PagesComplete'
    BY <2>1
  <2> QED BY <2>3, <2>4, <2>5
<1>6. CASE PublishOwners
  BY <1>6 DEF PublishOwners
<1>7. CASE CountIteration
  <2>1. (iterations + 1) % ScanIds \in 0..(ScanIds - 1)
    OBVIOUS
  <2> QED BY <1>7, <2>1 DEF CountIteration
<1>8. CASE StopTimer
  BY <1>8 DEF StopTimer
<1> QED BY <1>1, <1>2, <1>3, <1>4, <1>5, <1>6, <1>7, <1>8 DEF PublishStep

(* The main goroutine: past the ack the timer goroutine is over.           *)
LEMMA MainKeepsInv ==
  ASSUME WatchInv, Signal \/ ShutdownStep
  PROVE  WatchInv'
<1> USE WatchAssumption
        DEF WatchInv, TypeOK, AckEndsTimer, OneScanPublished, ReadUnderLock,
            CompleteUntilSignal, PagesConsistent, PagesComplete, Outcomes,
            timerVars, channels, scrapeVars, published, Nobody, TimerHolds
<1>1. CASE Signal
  BY <1>1 DEF Signal
<1>2. CASE SendStop
  BY <1>2 DEF SendStop
<1>3. CASE ReceiveAck
  BY <1>3 DEF ReceiveAck
<1>4. CASE CloseServer
  BY <1>4 DEF CloseServer
<1>5. CASE Shutdown
  BY <1>5 DEF Shutdown
<1>6. CASE Exit
  BY <1>6 DEF Exit
<1> QED BY <1>1, <1>2, <1>3, <1>4, <1>5, <1>6 DEF ShutdownStep

(* A handler reads owners and summary under the lock, so the timer is not  *)
(* between its two writes.                                                 *)
LEMMA ScraperKeepsInv ==
  ASSUME WatchInv, NEW s \in Scrapers,
         Scrape(s) \/ LockToCollect(s) \/ CollectStep(s)
  PROVE  WatchInv'
<1> USE WatchAssumption
        DEF WatchInv, TypeOK, AckEndsTimer, OneScanPublished, ReadUnderLock,
            CompleteUntilSignal, PagesConsistent, PagesComplete, Outcomes,
            mainVars, timerVars, channels, published, Nobody, TimerHolds,
            Nothing, NoPage
<1>1. CASE Scrape(s)
  BY <1>1 DEF Scrape
<1>2. CASE LockToCollect(s)
  BY <1>2 DEF LockToCollect
<1>3. CASE CollectNothing(s)
  BY <1>3 DEF CollectNothing
<1>4. CASE CollectOwners(s)
  BY <1>4 DEF CollectOwners
<1>5. CASE CollectReports(s)
  <2>1. /\ scraper[s] = "reports" /\ lock = s /\ lock' = Nobody
        /\ scraper' = [scraper EXCEPT ![s] = "idle"]
        /\ UNCHANGED <<mainVars, timerVars, channels, published>>
    BY <1>5 DEF CollectReports
  <2>2. /\ page'[s] = [owners |-> page[s].owners, scan |-> summary.scan,
                       outcome |-> summary.outcome]
        /\ \A x \in Scrapers : x # s => page'[x] = page[x]
        /\ page' = [x \in Scrapers |-> page'[x]]
    BY <1>5 DEF CollectReports
  <2>3. page' \in [Scrapers -> [owners: 0..(ScanIds - 1), scan: 0..(ScanIds - 1),
                                outcome: Outcomes \cup {"nil"}]]
    BY <2>2
  <2>4. TypeOK'
    <3>1. timer \notin {"summary", "owners"}
      BY <2>1
    <3>2. \A x \in Scrapers : x # s => scraper[x] \notin {"owners", "reports"}
      BY <2>1
    <3>3. /\ scraper' \in [Scrapers -> {"idle", "locking", "owners", "reports"}]
          /\ \A x \in Scrapers : scraper'[x] \notin {"owners", "reports"}
      BY <2>1, <3>2
    <3>4. \A x \in Scrapers : lock' # x
      BY <2>1
    <3> QED BY <2>1, <2>3, <3>1, <3>3, <3>4
  <2>5. AckEndsTimer' /\ OneScanPublished' /\ CompleteUntilSignal'
    BY <2>1
  <2>6. ReadUnderLock'
    BY <2>1, <2>2
  <2>7. PagesConsistent' /\ PagesComplete'
    BY <2>1, <2>2
  <2> QED BY <2>4, <2>5, <2>6, <2>7
<1> QED BY <1>1, <1>2, <1>3, <1>4, <1>5 DEF CollectStep

(* The invariant of the daemon holds in every reachable state.             *)
THEOREM WatchInvariant == Spec => []WatchInv
<1>1. Init => WatchInv
  BY WatchInit
<1>2. WatchInv /\ [Next]_vars => WatchInv'
  <2> SUFFICES ASSUME WatchInv, [Next]_vars PROVE WatchInv'
    OBVIOUS
  <2>1. CASE UNCHANGED vars
    BY <2>1 DEF vars, WatchInv, TypeOK, AckEndsTimer, OneScanPublished,
               ReadUnderLock, CompleteUntilSignal, PagesConsistent, PagesComplete,
               mainVars, timerVars, channels, published, scrapeVars
  <2> QED
    BY <2>1, TimerKeepsInv, MainKeepsInv, ScraperKeepsInv DEF Next, Terminated
<1> QED BY <1>1, <1>2, PTL DEF Spec

(* No server is closed while a scan can still query it.                    *)
THEOREM ShutdownOrder == Spec => []ServersOpenWhileScanning
<1>1. WatchInv => ServersOpenWhileScanning
  BY DEF WatchInv, AckEndsTimer, ServersOpenWhileScanning
<1> QED BY <1>1, WatchInvariant, PTL

(* A page shows the owners and the problems of one scan, never of two.     *)
THEOREM PagesHonest == Spec => []PagesConsistent
<1>1. WatchInv => PagesConsistent
  BY DEF WatchInv
<1> QED BY <1>1, WatchInvariant, PTL

(* Before the signal, a page shows nothing or a scan that was complete.    *)
THEOREM NoPartialPages == Spec => []PagesComplete
<1>1. WatchInv => PagesComplete
  BY DEF WatchInv
<1> QED BY <1>1, WatchInvariant, PTL
=============================================================================
