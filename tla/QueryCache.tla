----------------------------- MODULE QueryCache -----------------------------
(***************************************************************************)
(* internal/promapi/cache.go: the results of queries, one cache for all    *)
(* the servers of a failover group, in time.  Entries expire a time to     *)
(* live after they were stored, but only gc, which cacheCleaner runs every *)
(* GcInterval, looks at that: get serves whatever is in the map.           *)
(*                                                                         *)
(* Time is counted in ticks and nothing takes less than none.  A query     *)
(* takes at most its timeout; the goroutine of cacheCleaner runs within    *)
(* the tick its ticker fires in (gc cannot be delayed by pint itself: the  *)
(* lock it takes is only ever held for a map operation).                   *)
(***************************************************************************)
EXTENDS Naturals

CONSTANTS Workers,      \* the queryWorker goroutines of the group
          Keys,         \* CacheKey of the queries asked
          Ttl,          \* CacheTTL of the query of a key, 0 for none
          MaxStale,     \* newQueryCache(time.Hour)
          GcInterval,   \* cacheCleaner(.., time.Minute*2, ..)
          QueryTimeout, \* timeout of a query
          MaxTime       \* bound: the ticks a behaviour lasts

NoKey == "none"

ASSUME CacheAssumption ==
    /\ NoKey \notin Keys
    /\ Ttl \in [Keys -> Nat]
    /\ MaxStale \in Nat \ {0} /\ GcInterval \in Nat \ {0}
    /\ QueryTimeout \in Nat /\ MaxTime \in Nat

Idle == [key |-> NoKey, since |-> 0]
ZeroTime == 0   \* time.Time{}: no entry expires at it, those with a Ttl expire later
NotYet == 0

VARIABLES
    now,
    gcAt,     \* when the cleaner last ran, or was started
    entries,  \* [SOME Keys -> EntryType]: the map
    running,  \* [Workers -> Idle or a RunType]: the query a worker runs
    asked     \* [Keys -> Nat]: when a key was last looked up (history)

cacheVars == <<now, gcAt, entries, running, asked>>

(* born: when the answer in the entry was asked for at the server.         *)
EntryType == [born: 0..now, expiresAt: Nat, lastGet: 0..now]
RunType == [key: Keys, since: 0..now]

CacheInit ==
    /\ now = 0 /\ gcAt = 0
    /\ entries = [k \in {} |-> NotYet]
    /\ running = [w \in Workers |-> Idle]
    /\ asked = [k \in Keys |-> NotYet]

Asked(k) == [asked EXCEPT ![k] = now]

(* get *)
Get_KeepsLastGet(k) == entries
Get(k) == [entries EXCEPT ![k].lastGet = now]

(* set *)
Set_NoExpiry(k, since) ==
    [x \in DOMAIN entries \cup {k} |->
        IF x = k THEN [born |-> since, expiresAt |-> ZeroTime, lastGet |-> now]
        ELSE entries[x]]

Set(k, since) ==
    [x \in DOMAIN entries \cup {k} |->
        IF x # k THEN entries[x]
        ELSE [born |-> since,
              expiresAt |-> IF Ttl[k] > 0 THEN now + Ttl[k] ELSE ZeroTime,
              lastGet |-> now]]

Expired(e) == e.expiresAt # ZeroTime /\ e.expiresAt < now
Unused(e) == now - e.lastGet >= MaxStale

Evicted_Expired(e) == Expired(e)
Evicted(e) == Expired(e) \/ Unused(e)
----------------------------------------------------------------------------
(* processJob: the key is looked up; on a hit that is all.                 *)
Hit(w, k) ==
    /\ running[w] = Idle
    /\ k \in DOMAIN entries
    /\ entries' = Get(k)
    /\ asked' = Asked(k)
    /\ UNCHANGED <<now, gcAt, running>>

(* On a miss the query is run, without any lock on the cache or its key.   *)
Miss(w, k) ==
    /\ running[w] = Idle
    /\ k \notin DOMAIN entries
    /\ running' = [running EXCEPT ![w] = [key |-> k, since |-> now]]
    /\ asked' = Asked(k)
    /\ UNCHANGED <<now, gcAt, entries>>

Store(w) ==
    /\ running[w] # Idle
    /\ entries' = Set(running[w].key, running[w].since)
    /\ running' = [running EXCEPT ![w] = Idle]
    /\ UNCHANGED <<now, gcAt, asked>>

(* A query that fails, times out or is cancelled leaves nothing behind.    *)
Fail(w) ==
    /\ running[w] # Idle
    /\ running' = [running EXCEPT ![w] = Idle]
    /\ UNCHANGED <<now, gcAt, entries, asked>>

(* cacheCleaner on a tick of its ticker: gc.                               *)
CollectGarbage ==
    /\ now = gcAt + GcInterval
    /\ entries' = [k \in {x \in DOMAIN entries : ~Evicted(entries[x])} |-> entries[k]]
    /\ gcAt' = now
    /\ UNCHANGED <<now, running, asked>>

(* Time passes unless a gc is due or a query is at its timeout.            *)
TimePasses ==
    /\ now < MaxTime
    /\ now < gcAt + GcInterval
    /\ \A w \in Workers :
          running[w] # Idle => now < running[w].since + QueryTimeout
    /\ now' = now + 1
    /\ UNCHANGED <<gcAt, entries, running, asked>>

WorkerStep(w) ==
    \/ \E k \in Keys : Hit(w, k) \/ Miss(w, k)
    \/ Store(w) \/ Fail(w)

CacheNext == (\E w \in Workers : WorkerStep(w)) \/ CollectGarbage \/ TimePasses

CacheSpec == CacheInit /\ [][CacheNext]_cacheVars
----------------------------------------------------------------------------
CacheTypeOK ==
    /\ now \in Nat /\ gcAt \in 0..now
    /\ DOMAIN entries \subseteq Keys
    /\ entries \in [DOMAIN entries -> EntryType]
    /\ running \in [Workers -> RunType \cup {Idle}]
    /\ asked \in [Keys -> 0..now]

(* How old an answer can be when it is served: get does not look at        *)
(* expiresAt, so the time to live is exceeded, but never by more than one  *)
(* interval of the cleaner; the answer itself may be older than its entry  *)
(* by the time its query took.                                             *)
BoundedStaleness ==
    \A k \in DOMAIN entries :
        Ttl[k] > 0 => now <= entries[k].born + QueryTimeout + Ttl[k] + GcInterval

(* An entry nobody asks for is gone one interval after maxStale at most,   *)
(* with or without a time to live: the map cannot grow for ever.           *)
UnusedIsDropped ==
    \A k \in DOMAIN entries : now <= entries[k].lastGet + MaxStale + GcInterval

(* What was asked for within maxStale stays until its time to live is up:  *)
(* gc never evicts an answer that is in use.                               *)
InUseIsKept ==
    [][\A k \in DOMAIN entries \ DOMAIN entries' :
          Expired(entries[k]) \/ now >= asked[k] + MaxStale]_cacheVars

(* The inductive invariant: the clock does not run ahead of the cleaner or  *)
(* of a query, and what the last gc left in the map was neither expired    *)
(* nor unused then.                                                        *)
CleanerOnTime == now <= gcAt + GcInterval

QueriesOnTime ==
    \A w \in Workers : running[w] # Idle => now <= running[w].since + QueryTimeout

ExpiryOfEntries ==
    \A k \in DOMAIN entries : Ttl[k] > 0 =>
        /\ gcAt <= entries[k].expiresAt
        /\ Ttl[k] <= entries[k].expiresAt
        /\ entries[k].expiresAt <= entries[k].born + QueryTimeout + Ttl[k]

UseOfEntries ==
    \A k \in DOMAIN entries :
        /\ gcAt < entries[k].lastGet + MaxStale
        /\ asked[k] <= entries[k].lastGet

CacheInv ==
    CacheTypeOK /\ CleanerOnTime /\ QueriesOnTime /\ ExpiryOfEntries /\ UseOfEntries
============================================================================
