---------------------------- MODULE SeriesCheck ----------------------------
(***************************************************************************)
(* The promql/series check of one rule (checks/promql_series.go): for each *)
(* selector of the query it asks Prometheus whether there are series now,  *)
(* and if there are none a protocol of range queries finds out why.        *)
(*                                                                         *)
(* What Prometheus has is found out as it is asked: a query is answered    *)
(* with the evaluations of the look-back at which it has samples, or       *)
(* fails.  That samples become ranges whatever the slices is SeriesRanges; *)
(* that a failed query was tried on every server is RangeQuery.  The       *)
(* present is not one of the evaluations, so the instant query may find    *)
(* nothing whatever they have.  Matchers have values that are not empty.   *)
(***************************************************************************)
EXTENDS TimeRanges

CONSTANTS Rules,      \* selectors and comments of the rules to check
          Others,     \* the other entries: [alerts, recorded] names they define
          Uptimes,    \* evaluations at which the server can have been up
          Window,     \* the look-back, [start, end, step]
          DefaultMinAge,   \* two hours
          IgnoreMetrics,   \* metrics that match ignoreMetrics of the settings
          None             \* no answer, no duration

AnySelector == [metric |-> "", matchers |-> <<>>]
Evaluations == Points(Window, Window.step)

SelectorType ==
    [metric : STRING,
     matchers : Seq([label : STRING, value : STRING, positive : BOOLEAN])]
RuleType ==
    [selectors : Seq(SelectorType), disabled : SUBSET SelectorType,
     ignored : SUBSET [scope : SelectorType, label : STRING],
     minAges : SUBSET [scope : SelectorType, value : Nat \cup {None}]]

ASSUME SeriesAssumption ==
    /\ Window \in [start : Nat, end : Nat, step : Nat \ {0}]
    /\ Window.start < Window.end
    /\ DefaultMinAge \in Nat
    /\ None \notin Nat /\ \A times \in SUBSET Evaluations : times # None
    /\ Rules \subseteq RuleType
    /\ Uptimes \subseteq SUBSET Evaluations

VARIABLES rule, others,
          at,        \* the selector being checked
          todo,      \* positions of the matchers of it still to ask for
          uptime,    \* promUptime, None when the query failed
          answers,   \* what the queries of this selector returned
          problems,
          stage      \* where Check is in its loop over the selectors

checkVars == <<rule, others, at, todo, uptime, answers, problems, stage>>

Selector == rule.selectors[at]
stripLabels(s) == [metric |-> s.metric, matchers |-> <<>>]

(* The three forms in which a comment can name a selector.                 *)
Scopes(s) == <<AnySelector, stripLabels(s), s>>

(* isDisabled: by name, in full, or by some of the matchers.               *)
isDisabled(s) ==
    \E c \in rule.disabled :
        /\ c.metric \in {"", s.metric}
        /\ ToSet(c.matchers) \subseteq ToSet(s.matchers)

isLabelValueIgnored_AnyLabel(s, label) ==
    \E c \in rule.ignored : c.scope \in ToSet(Scopes(s))
isLabelValueIgnored(s, label) ==
    \E c \in rule.ignored : c.scope \in ToSet(Scopes(s)) /\ c.label = label

(* getMinAge: the last comment that can be parsed, in the order of Scopes; *)
(* None is the value of one that cannot.                                   *)
HasMinAge(scope) == \E c \in rule.minAges : c.scope = scope
ValueOf(scope) == (CHOOSE c \in rule.minAges : c.scope = scope).value
Override(age, scope) ==
    IF HasMinAge(scope) /\ ValueOf(scope) # None THEN ValueOf(scope) ELSE age

getMinAge_General(s) ==
    Override(Override(Override(DefaultMinAge, s), stripLabels(s)), AnySelector)
getMinAge(s) ==
    Override(Override(Override(DefaultMinAge, AnySelector), stripLabels(s)), s)

(* The matchers of type = or =~; of a label, the first is asked for.       *)
Positive(s) == {i \in DOMAIN s.matchers : s.matchers[i].positive}
labelNames(s) ==
    {i \in Positive(s) :
        \A j \in Positive(s) : s.matchers[j].label = s.matchers[i].label => i <= j}
NameOf(s, i) ==
    CHOOSE j \in labelNames(s) : s.matchers[j].label = s.matchers[i].label
ValuesToAsk(s) ==
    {i \in Positive(s) : ~isLabelValueIgnored(s, s.matchers[i].label)}
----------------------------------------------------------------------------
(* What is asked: for the selector, its metric, the label or the value of  *)
(* one of its matchers.  A problem is of one of them.                      *)
Query(on, of) == [on |-> on, of |-> of]
Instant == Query("selector", 0)
Bare == Query("metric", 0)
Label(i) == Query("label", i)
Value(i) == Query("value", i)

ProblemIn(selector, kind, of, severity) ==
    [selector |-> selector, kind |-> kind, of |-> of, severity |-> severity]
Problem(kind, of, severity) == ProblemIn(at, kind, of, severity)

textAndSeverity(metric) == IF metric \in IgnoreMetrics THEN "Warning" ELSE "Bug"

BadComments ==
    {Problem("comment", Bare, "Warning") :
        scope \in {x \in ToSet(Scopes(Selector)) : HasMinAge(x) /\ ValueOf(x) = None}}

(* queryProblem: an outage is a Bug only if the server is required, an     *)
(* answer that says the query failed always.                               *)
queryProblem(of) == {Problem("failed", of, s) : s \in {"Bug", "Warning"}}

Answer(q, a) ==
    [x \in DOMAIN answers \cup {q} |-> IF x = q THEN a ELSE answers[x]]
NoAnswers == [q \in {} |-> None]
Answered(q) == q \in DOMAIN answers /\ answers[q] # None

Fails(q) ==
    /\ \E p \in queryProblem(q) : problems' = problems \cup {p}
    /\ answers' = Answer(q, None)

(* An answer that does not contradict those to the wider queries.          *)
Possible(wider) ==
    IF Answered(wider) THEN SUBSET answers[wider] ELSE SUBSET answers[Bare]

Ranges(times) == RangesOf(times, Window.step)
GapsOf(times) == FindGaps(Ranges(times), Ranges(uptime), Window)

newest(times) == Max({r.end : r \in ToSet(Ranges(times))})
oldest(times) == Min({r.start : r \in ToSet(Ranges(times))})

(* One range that ended more than a step ago.  Of a metric it must also    *)
(* have begun with the window; of a value the code compares its beginning  *)
(* with a time after the end of the window, which asks for nothing.        *)
EndedEarly(times) ==
    Len(Ranges(times)) = 1 /\ newest(times) < Window.end - Window.step
WasAlwaysThere(times) == oldest(times) <= Window.start + Window.step
IsRecent(times) == newest(times) >= Window.end - getMinAge(Selector)

Gone(of, times) ==
    BadComments \cup
        (IF IsRecent(times) THEN {}
         ELSE {Problem("gone", of, textAndSeverity(Selector.metric))})

IsSometimesThere(times) == Len(Ranges(times)) > 1 /\ GapsOf(times) # <<>>

(* The label is missing, and not only when the metric was missing too.     *)
IsNeverLabelled(times) ==
    LET absent == Ranges(Evaluations \ times)  metric == Ranges(answers[Bare]) IN
    /\ Len(absent) = 1
    /\ FindGaps(absent, Ranges(uptime), Window) = <<>>
    /\ \A i \in DOMAIN metric : Overlaps(metric[i], absent[1], Window.step)
----------------------------------------------------------------------------
CheckInit ==
    /\ rule \in Rules /\ others \in Others
    /\ at = 0 /\ todo = {} /\ uptime = {} /\ answers = NoAnswers
    /\ problems = {}
    /\ stage = "next"

IsAlerts(s) == s.metric \in {"ALERTS", "ALERTS_FOR_STATE"}

(* ALERTS is not asked for: if a matcher (not a regexp, one at most) gives *)
(* an alertname, an alerting rule of that name must exist.                 *)
AlertProblems(n) ==
    LET s == rule.selectors[n] IN
    {ProblemIn(n, "alert", Value(i), "Bug") :
        i \in {j \in DOMAIN s.matchers : /\ s.matchers[j].label = "alertname"
                                        /\ s.matchers[j].value \notin others.alerts}}

NextSelector ==
    /\ stage = "next" /\ at < Len(rule.selectors)
    /\ at' = at + 1
    /\ LET s == rule.selectors[at']
           isDone == \E i \in 1..at : rule.selectors[i] = s
       IN IF isDone \/ isDisabled(s) THEN stage' = "next" /\ UNCHANGED problems
          ELSE IF IsAlerts(s)
          THEN stage' = "next" /\ problems' = problems \cup AlertProblems(at')
          ELSE stage' = "instant" /\ UNCHANGED problems
    /\ todo' = {} /\ uptime' = {} /\ answers' = NoAnswers
    /\ UNCHANGED <<rule, others>>

(* Step 1: series are there, or the query fails, and that is all.          *)
AskInstant ==
    /\ stage = "instant"
    /\ \/ stage' = "next" /\ UNCHANGED <<problems, answers>>
       \/ stage' = "next" /\ Fails(Instant)
       \/ stage' = "uptime" /\ UNCHANGED <<problems, answers>>
    /\ UNCHANGED <<rule, others, at, todo, uptime>>

(* An error is logged, and nothing more.                                   *)
AskUptime ==
    /\ stage = "uptime"
    /\ uptime' \in Uptimes \cup {None}
    /\ stage' = "bare"
    /\ UNCHANGED <<rule, others, at, todo, answers, problems>>

(* Step 2, a metric that was never there.  The gaps are looked for first,  *)
(* with whatever the uptime query returned.                                *)
MetricProblem ==
    IF Selector.metric \in others.recorded
    THEN Problem("recorded", Bare, "Information")
    ELSE Problem("never", Bare, textAndSeverity(Selector.metric))

AskBare ==
    /\ stage = "bare"
    /\ \/ Fails(Bare) /\ stage' = "next" /\ UNCHANGED todo
       \/ \E times \in SUBSET Evaluations :
            /\ answers' = Answer(Bare, times)
            /\ IF uptime = None THEN stage' = "panicked" /\ UNCHANGED <<problems, todo>>
               ELSE IF times = {}
               THEN /\ problems' = problems \cup {MetricProblem}
                    /\ stage' = "next" /\ UNCHANGED todo
               ELSE /\ stage' = "labels" /\ todo' = labelNames(Selector)
                    /\ UNCHANGED problems
    /\ UNCHANGED <<rule, others, at, uptime>>

(* Step 3, for every label a positive matcher names.                       *)
LabelProblems(i, times) ==
    IF IsNeverLabelled(times) THEN {Problem("unlabelled", Label(i), "Bug")} ELSE {}

AskLabel ==
    /\ stage = "labels" /\ todo # {}
    /\ LET i == Min(todo) IN
       /\ \/ Fails(Label(i))
          \/ \E times \in Possible(Bare) :
               /\ answers' = Answer(Label(i), times)
               /\ problems' = problems \cup LabelProblems(i, times)
       /\ todo' = todo \ {i}
    /\ UNCHANGED <<rule, others, at, uptime, stage>>

(* Problems, those of earlier selectors too, end the selector here.        *)
(* Step 4, a metric that is no longer there, does too.                     *)
LabelsDone ==
    /\ stage = "labels" /\ todo = {}
    /\ LET metric == answers[Bare] IN
       IF problems # {} THEN stage' = "next" /\ UNCHANGED <<problems, todo>>
       ELSE IF EndedEarly(metric) /\ WasAlwaysThere(metric)
       THEN /\ problems' = problems \cup Gone(Bare, metric)
            /\ stage' = "next" /\ UNCHANGED todo
       ELSE /\ stage' = "values" /\ todo' = ValuesToAsk(Selector)
            /\ UNCHANGED problems
    /\ UNCHANGED <<rule, others, at, uptime, answers>>

(* Steps 5 to 7, for every positive matcher: its value was never there, is *)
(* no longer there, or was there now and then.                             *)
ValueProblems(i, times) ==
    CASE times = {} -> {Problem("never", Value(i), textAndSeverity(Selector.metric))}
      [] times # {} /\ EndedEarly(times) -> Gone(Value(i), times)
      [] times # {} /\ IsSometimesThere(times) -> {Problem("sometimes", Value(i), "Warning")}
      [] OTHER -> {}

AskValue ==
    /\ stage = "values" /\ todo # {}
    /\ LET i == Min(todo) IN
       /\ \/ Fails(Value(i))
          \/ \E times \in Possible(Label(NameOf(Selector, i))) :
               /\ answers' = Answer(Value(i), times)
               /\ problems' = problems \cup ValueProblems(i, times)
       /\ todo' = todo \ {i}
    /\ UNCHANGED <<rule, others, at, uptime, stage>>

(* Step 8, a metric that was there now and then.                           *)
ValuesDone ==
    /\ stage = "values" /\ todo = {}
    /\ problems' = problems \cup
         (IF problems = {} /\ IsSometimesThere(answers[Bare])
          THEN {Problem("sometimes", Bare, "Warning")} ELSE {})
    /\ stage' = "next"
    /\ UNCHANGED <<rule, others, at, todo, uptime, answers>>

CheckOver ==
    /\ stage = "panicked" \/ (stage = "next" /\ at = Len(rule.selectors))
    /\ UNCHANGED checkVars

CheckNext ==
    \/ NextSelector \/ AskInstant \/ AskUptime \/ AskBare \/ AskLabel
    \/ LabelsDone \/ AskValue \/ ValuesDone \/ CheckOver

CheckSpec == CheckInit /\ [][CheckNext]_checkVars
----------------------------------------------------------------------------
(* The min-age that the rule asks for: of its most specific comment.       *)
MinAgeAskedFor(s) ==
    LET asked == {i \in 1..3 : HasMinAge(Scopes(s)[i]) /\ ValueOf(Scopes(s)[i]) # None}
    IN IF asked = {} THEN DefaultMinAge ELSE ValueOf(Scopes(s)[Max(asked)])

(* A finding is a fact about the samples, never the echo of a failed       *)
(* query, of a comment that was not made, or of a server that was down.    *)
(* Never there: no sample at all; of a label, none in two evaluations      *)
(* running while the server was up.  No longer there: none since min-age.  *)
(* Now and then there: missing at some time while the server was up.       *)
IsFact(kind, times) ==
    /\ kind = "never" => times = {}
    /\ kind = "unlabelled" =>
         ~\E t \in Evaluations : {t, t + Window.step} \subseteq times \cap uptime
    /\ kind = "gone" =>
         \A t \in times : t + Window.step < Window.end - MinAgeAskedFor(Selector)
    /\ kind = "sometimes" =>
         \E t \in Evaluations \ times : Within(t, uptime, Window.step)

FindingsAreFacts ==
    \A p \in problems :
        p.selector = at /\ p.kind \in {"never", "unlabelled", "gone", "sometimes"} =>
            Answered(p.of) /\ IsFact(p.kind, answers[p.of])

(* A rule does not pass while a selector of it found nothing, and the      *)
(* metric, a label it asks for or the value of a matcher was never there,  *)
(* and no comment says that this is fine.  Every early end of a selector   *)
(* has left a problem, but the one for a metric that went away just now.   *)
NeverThere(q) == Answered(q) /\ answers[q] = {}
IsIgnored(s, label) ==
    \E c \in rule.ignored : c.scope \in ToSet(Scopes(s)) /\ c.label = label
IsDead(s) ==
    \/ NeverThere(Bare)
    \/ \E i \in DOMAIN s.matchers :
         /\ s.matchers[i].positive /\ ~IsIgnored(s, s.matchers[i].label)
         /\ NeverThere(Label(i)) \/ NeverThere(Value(i))

WentAwayJustNow(times) ==
    EndedEarly(times) /\ WasAlwaysThere(times) /\ IsRecent(times)
DeadSelectorsAreReported ==
    at > 0 /\ stage = "next" /\ IsDead(Selector) =>
        problems # {} \/ WentAwayJustNow(answers[Bare])

(* Contradicted by the code (README, section 5).  promql_series.go:253:    *)
(* "If foo is ALWAYS/SOMETIMES there BUT {bar OR baz} is NEVER there ->    *)
(* BUG".  Overlaps denies that a metric that was there at the first or at  *)
(* the last evaluation only is included in the time its label was absent.  *)
UnlabelledIsReported ==
    stage = "labels" /\ uptime = Evaluations =>
        \A q \in DOMAIN answers :
            q.on = "label" /\ answers[q] = {} => \E p \in problems : p.of = q

(* Contradicted by the code (run uptime_lost).  The error of the uptime    *)
(* query is a warning in the log, and the line after it allows for a       *)
(* promUptime that is nil.                                                 *)
SurvivesLostUptime == stage # "panicked"
----------------------------------------------------------------------------
(* The inductive invariant of the proofs: nothing is asked twice, what was *)
(* asked before the values is there when they are asked, and each value    *)
(* asked so far has left a problem or has samples.                         *)
CheckTypeOK ==
    /\ rule \in Rules
    /\ at \in 0..Len(rule.selectors) /\ (stage # "next" => at > 0)
    /\ uptime \in (SUBSET Evaluations) \cup {None}
    /\ \A q \in DOMAIN answers : answers[q] \in (SUBSET Evaluations) \cup {None}
    /\ \A p \in problems : p.selector \in 0..at

NothingAskedTwice ==
    /\ stage \in {"instant", "uptime", "bare"} => DOMAIN answers = {}
    /\ stage \in {"labels", "values"} =>
         Answered(Bare) /\ answers[Bare] # {} /\ uptime # None
    /\ \A q \in DOMAIN answers : q.on = "label" => q.of \in labelNames(Selector)
    /\ stage = "labels" =>
         /\ todo \subseteq labelNames(Selector)
         /\ \A q \in DOMAIN answers :
              q.on # "value" /\ (q.on = "label" => q.of \notin todo)
    /\ stage = "values" =>
         /\ todo \subseteq ValuesToAsk(Selector)
         /\ \A q \in DOMAIN answers : q.on = "value" => q.of \notin todo

IsAlive(i) ==
    Answered(Value(i)) /\ ~NeverThere(Value(i)) /\ ~NeverThere(Label(i))
DeadSoFar ==
    stage = "values" => \/ problems # {}
                     \/ \A i \in ValuesToAsk(Selector) \ todo : IsAlive(i)

CheckInv ==
    /\ CheckTypeOK /\ NothingAskedTwice /\ FindingsAreFacts
    /\ DeadSoFar /\ DeadSelectorsAreReported
=============================================================================
