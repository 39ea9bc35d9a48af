---------------------------- MODULE SeriesRanges ----------------------------
(***************************************************************************)
(* What promapi makes of the samples of a range query (range.go and        *)
(* range_normalize.go): the window is cut into slices, each slice brings   *)
(* the samples Prometheus has at its evaluation points, samples become     *)
(* ranges, ranges arrive in any order and are merged, and FindGaps looks   *)
(* for the times at which the server was up and the series was not there.  *)
(*                                                                         *)
(* Time is in seconds.  Ranges of different label sets never touch one     *)
(* another (case 0 of Overlaps, the map of MergeRanges), so one series     *)
(* stands for each.  How slices are queried, fail and are cancelled is     *)
(* RangeQuery; here all of them succeed.                                   *)
(***************************************************************************)
EXTENDS TimeRanges

CONSTANTS Starts,     \* when a window can begin
          Lookbacks,  \* how long it can be (lookbackRange)
          Steps,      \* lookbackStep
          SliceBase   \* two hours

(* The program of a window whose slice size is rounded to zero (a step of  *)
(* more than twice SliceBase) never gets past sliceRange.                  *)
ASSUME RangesAssumption ==
    /\ Starts \subseteq Nat /\ Lookbacks \subseteq Nat \ {0}
    /\ Steps \subseteq Nat \ {0}
    /\ SliceBase \in Nat
    /\ \A step \in Steps : step <= 2 * SliceBase

(* time.Round and Duration.Round: to the nearest multiple, half way up.    *)
RoundTo(t, d) ==
    LET r == t % d IN IF r + r < d THEN t - r ELSE t - r + d

SliceSize(lookback, step) ==
    LET size == RoundTo(SliceBase, step) IN
    IF size > lookback THEN lookback ELSE size

(* sliceRange: slices begin at multiples of the size, from the last one    *)
(* before the window; all but the last end a second before the next.       *)
Slices_NoPrefix(w) ==
    LET size == SliceSize(w.end - w.start, w.step)
        base == RoundTo(w.start, size)
        n == (w.end - base + size - 1) \div size
        From(i) == base + (i - 1) * size
    IN
    IF w.end - w.start <= w.step THEN <<[start |-> w.start, end |-> w.end]>>
    ELSE [i \in 1..n |-> [start |-> From(i),
                          end |-> IF i = n THEN w.end ELSE From(i + 1) - 1]]

Slices(w) ==
    LET size == SliceSize(w.end - w.start, w.step)
        rounded == RoundTo(w.start, size)
        base == IF rounded > w.start THEN rounded - size ELSE rounded
        n == (w.end - base + size - 1) \div size
        From(i) == base + (i - 1) * size
    IN
    IF w.end - w.start <= w.step THEN <<[start |-> w.start, end |-> w.end]>>
    ELSE [i \in 1..n |-> [start |-> From(i),
                          end |-> IF i = n THEN w.end ELSE From(i + 1) - 1]]

AllPoints(w) == UNION {Points(Slices(w)[i], w.step) : i \in DOMAIN Slices(w)}

(* rangeQuery.CacheKey                                                     *)
CacheKey_BySlice(s, step) == <<s.start, RoundTo(s.end, SliceBase), step>>
CacheKey(s, step) == <<s.start, RoundTo(s.end, step), step>>
----------------------------------------------------------------------------
VARIABLES window,   \* [start, end, step] of the query
          present,  \* the evaluation points at which the series has a sample
          left,     \* slices whose result has not arrived
          ranges,   \* merged.Series.Ranges
          up,       \* the evaluation points at which the server was up
          gaps,     \* Series.Gaps
          pc

vars == <<window, present, left, ranges, up, gaps, pc>>

Windows ==
    {[start |-> s, end |-> s + l, step |-> step] :
        s \in Starts, l \in Lookbacks, step \in Steps}

Init ==
    /\ window \in Windows
    /\ present \in SUBSET AllPoints(window)
    /\ left = DOMAIN Slices(window)
    /\ ranges = <<>> /\ up = {} /\ gaps = <<>>
    /\ pc = "querying"

(* A slice arrives, whichever comes next.                                  *)
Arrive(i) ==
    /\ pc = "querying"
    /\ i \in left
    /\ left' = left \ {i}
    /\ ranges' = ranges \o RangesOf(present \cap Points(Slices(window)[i], window.step),
                                    window.step)
    /\ UNCHANGED <<window, present, up, gaps, pc>>

Merge ==
    /\ pc = "querying"
    /\ left = {}
    /\ ranges' = Sorted(IF Len(ranges) > 1 THEN MergeRanges(ranges, window.step)
                        ELSE ranges)
    /\ pc' = "merged"
    /\ UNCHANGED <<window, present, left, up, gaps>>

(* The check asks for the uptime of the server, and looks for gaps.        *)
LookForGaps ==
    /\ pc = "merged"
    /\ \E points \in SUBSET AllPoints(window) :
         /\ up' = points
         /\ gaps' = FindGaps(ranges, RangesOf(points, window.step), window)
    /\ pc' = "done"
    /\ UNCHANGED <<window, present, left, ranges>>

Terminated == pc = "done" /\ UNCHANGED vars

Next ==
    \/ \E i \in left : Arrive(i)
    \/ Merge \/ LookForGaps \/ Terminated

Spec == Init /\ [][Next]_vars
----------------------------------------------------------------------------
(* The slices evaluate the whole window: at any time of it the last        *)
(* evaluation is less than a step ago, and none is made twice.             *)
SlicesCoverWindow ==
    LET s == Slices(window) IN
    /\ \A t \in window.start..window.end :
         \E p \in AllPoints(window) : p <= t /\ t < p + window.step
    /\ \A i, j \in DOMAIN s :
         i # j => Points(s[i], window.step) \cap Points(s[j], window.step) = {}

(* The answer does not depend on how the window was cut, nor on the order  *)
(* in which slices arrived: its ranges cover the runs of all the samples   *)
(* and nothing else.  They are those runs, each once and in order, if a    *)
(* slice has two evaluations at least; with one in each, MergeRanges can   *)
(* leave ranges that overlap, because Overlaps does not see that one range *)
(* is included in another it shares an end with.                           *)
RangesCoverRuns ==
    pc # "querying" =>
        UNION {r.start..r.end : r \in ToSet(ranges)} =
            UNION {r.start..r.end : r \in Runs(present, window.step)}
RangesAreRuns ==
    /\ RangesCoverRuns
    /\ pc # "querying" /\ SliceSize(window.end - window.start, window.step) >= 2 * window.step =>
          /\ ToSet(ranges) = Runs(present, window.step)
          /\ \A i, j \in DOMAIN ranges : i < j => ranges[i].end < ranges[j].start

(* A gap is a run of times at which the server was up and the series was   *)
(* not there; there is no other, and none is overlooked.                   *)
GapsAreReal ==
    pc = "done" =>
        ToSet(gaps) = Runs({t \in Points(window, window.step) :
                              /\ ~Within(t, present, window.step)
                              /\ Within(t, up, window.step)}, window.step)

(* A slice served from the cache of an earlier query, made any time        *)
(* before, lacks one evaluation at most: the rounding of the end in the    *)
(* cache key can hide the newest sample and no other.                      *)
CacheHidesOnePoint ==
    left = DOMAIN Slices(window) =>
        \A d \in 0..(2 * SliceBase) :
            LET earlier == [window EXCEPT !.start = @ - d, !.end = @ - d] IN
            d <= window.start => \A i \in DOMAIN Slices(earlier), j \in DOMAIN Slices(window) :
                LET old == Slices(earlier)[i]  new == Slices(window)[j] IN
                CacheKey(old, window.step) = CacheKey(new, window.step) =>
                    Cardinality(Points(new, window.step) \ Points(old, window.step)) <= 1
----------------------------------------------------------------------------
(* The inductive invariant of SeriesProofs.                                *)

(* A piece of a run: it begins with a sample, ends a step after one, and   *)
(* never misses more than one evaluation.                                  *)
IsPiece(r, S, step) ==
    /\ r.start \in S /\ r.end - step \in S /\ r.start + step <= r.end
    /\ \A x \in S : r.start <= x /\ x < r.end - step =>
          \E y \in S : x < y /\ y <= x + 2 * step /\ y <= r.end - step
ArePieces(s, S, step) == \A r \in ToSet(s) : IsPiece(r, S, step)

InPiece(t, s, step) == \E r \in ToSet(s) : r.start <= t /\ t <= r.end - step

(* No range follows another by a step or less.                             *)
NoneFollows(s, step) ==
    \A r, q \in ToSet(s) : ~(r.end < q.start /\ q.start <= r.end + step)

RangesInv ==
    /\ window \in Windows /\ present \subseteq AllPoints(window)
    /\ left \subseteq DOMAIN Slices(window)
    /\ ranges \in Seq([start : Nat, end : Nat])
    /\ ArePieces(ranges, present, window.step)
    /\ \A i \in DOMAIN Slices(window) \ left :
          \A t \in present \cap Points(Slices(window)[i], window.step) :
             InPiece(t, ranges, window.step)
    /\ pc # "querying" => left = {} /\ NoneFollows(ranges, window.step)
    /\ GapsAreReal

(* What RangesAreRuns needs besides: until they are merged, the ranges are *)
(* the runs of single slices, each once; after that, if slices have two    *)
(* evaluations, they are in order and more than a step apart.              *)
IsRunOfSlice(r) ==
    \E i \in DOMAIN Slices(window) \ left :
       r \in Runs(present \cap Points(Slices(window)[i], window.step), window.step)
RunsInv ==
    /\ pc = "querying" => /\ IsInjective(ranges)
                          /\ \A r \in ToSet(ranges) : IsRunOfSlice(r)
    /\ pc # "querying" /\ SliceSize(window.end - window.start, window.step) >= 2 * window.step =>
          \A i, j \in DOMAIN ranges : i < j => ranges[i].end + window.step < ranges[j].start
============================================================================
