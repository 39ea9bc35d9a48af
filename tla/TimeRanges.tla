----------------------------- MODULE TimeRanges -----------------------------
(***************************************************************************)
(* The arithmetic of range_normalize.go: samples become time ranges,       *)
(* ranges that touch are merged, and gaps are looked for.  A window is a   *)
(* record [start, end, step], a range a record [start, end], in seconds.   *)
(***************************************************************************)
EXTENDS Integers, SequencesExt

(* Prometheus evaluates a query from its start, every step.                *)
Points(r, step) == {r.start + k * step : k \in 0..((r.end - r.start) \div step)}

(* Samples to ranges.  A time joins the first range it is in, or follows   *)
(* by no more than a step; AppendSampleToRanges and FindGaps both do this. *)
Joins(r, t, step) == r.start <= t /\ t <= r.end + step

AddTime(ranges, t, step) ==
    LET near == {i \in DOMAIN ranges : Joins(ranges[i], t, step)} IN
    IF near = {} THEN Append(ranges, [start |-> t, end |-> t + step])
    ELSE LET i == Min(near) IN
         [ranges EXCEPT ![i].end = IF t + step > @ THEN t + step ELSE @]

(* The samples come in the order of their times.                           *)
RangesOf(times, step) ==
    LET end == IF times = {} THEN 0 ELSE Max(times) + 1
        before[n \in 0..end] ==
            IF n = 0 THEN <<>>
            ELSE IF n - 1 \in times THEN AddTime(before[n - 1], n - 1, step)
            ELSE before[n - 1]
    IN before[end]

Near(x, y, step) == x - y <= step /\ y - x <= step

(* Overlaps, case by case in its order; all of them return the Hull.       *)
Overlaps(a, b, step) ==
    \/ Near(a.start, b.start, step) /\ Near(a.end, b.end, step)
    \/ a.start < b.start /\ a.end > b.start /\ a.end < b.end
    \/ a.start > b.start /\ a.start < b.end /\ a.end > b.end
    \/ a.start < b.start /\ a.end < b.end /\ Near(a.end, b.start, step)
    \/ a.start > b.start /\ a.end > b.end /\ Near(a.start, b.end, step)
    \/ a.start < b.start /\ a.end > b.end
    \/ Near(a.start, b.start, step) /\ a.end > b.end
    \/ a.start < b.start /\ Near(a.end, b.end, step)
    \/ a.start > b.start /\ a.end < b.end

Hull(a, b) == [start |-> IF a.start < b.start THEN a.start ELSE b.start,
               end |-> IF a.end > b.end THEN a.end ELSE b.end]

(* One pass of MergeRanges: every range so far that overlaps the next one  *)
(* is extended by it, and if there is none it is kept on its own.          *)
Absorb(ranges, r, step) ==
    LET hit == {i \in DOMAIN ranges : Overlaps(ranges[i], r, step)} IN
    IF hit = {} THEN Append(ranges, r)
    ELSE [i \in DOMAIN ranges |-> IF i \in hit THEN Hull(ranges[i], r) ELSE ranges[i]]

Pass(ranges, step) ==
    LET merged[i \in 0..Len(ranges)] ==
            IF i = 0 THEN <<>> ELSE Absorb(merged[i - 1], ranges[i], step)
    IN merged[Len(ranges)]

(* sort.Stable: of ranges that start together the first one stays first.   *)
Insert(ranges, r) ==
    LET places == 1..(Len(ranges) + 1)
        at == Min({i \in places : i > Len(ranges) \/ ranges[i].start > r.start})
    IN [i \in places |-> IF i < at THEN ranges[i] ELSE IF i = at THEN r ELSE ranges[i - 1]]
Sorted(ranges) ==
    LET upTo[i \in 0..Len(ranges)] == IF i = 0 THEN <<>> ELSE Insert(upTo[i - 1], ranges[i])
    IN upTo[Len(ranges)]

(* The passes of the calls MergeRanges makes to itself, each of which      *)
(* returns its ranges sorted, until nothing merges any more.  A call with  *)
(* n ranges is never more than n deep.                                     *)
Settled(n, step) ==
    LET settle[d \in 0..n] ==
            [x \in Seq([start : Nat, end : Nat]) |->
                LET y == Pass(x, step) IN
                IF d = 0 \/ Len(y) = Len(x) THEN x
                ELSE settle[d - 1][Sorted(settle[d - 1][y])]]
    IN settle[n]

MergeRanges_OnePass(ranges, step) == Pass(ranges, step)
MergeRanges(ranges, step) ==
    LET merged == Pass(ranges, step) IN
    IF Len(merged) = Len(ranges) THEN ranges ELSE Sorted(Settled(Len(merged), step)[merged])

Covers(ranges, t) == \E i \in DOMAIN ranges : ranges[i].start <= t /\ t <= ranges[i].end

(* FindGaps looks at the window from its own start, every step.            *)
FindGaps_Anytime(ranges, baseline, w) ==
    RangesOf({t \in Points(w, w.step) : ~Covers(ranges, t)}, w.step)
FindGaps(ranges, baseline, w) ==
    RangesOf({t \in Points(w, w.step) : ~Covers(ranges, t) /\ Covers(baseline, t)}, w.step)
----------------------------------------------------------------------------
(* What the ranges should be, said of the samples alone: the maximal runs  *)
(* of samples that miss at most one evaluation, from the first of them to  *)
(* a step after the last.                                                  *)
Runs(S, step) ==
    LET Linked(x, y) == x < y /\ y <= x + 2 * step
        IsRun(a, b) ==
            /\ a <= b
            /\ ~\E x \in S : Linked(x, a)
            /\ ~\E y \in S : Linked(b, y)
            /\ \A x \in S : a <= x /\ x < b => \E y \in S : y <= b /\ Linked(x, y)
    IN {[start |-> p[1], end |-> p[2] + step] : p \in {q \in S \X S : IsRun(q[1], q[2])}}

Within(t, S, step) == \E r \in Runs(S, step) : r.start <= t /\ t <= r.end
============================================================================
