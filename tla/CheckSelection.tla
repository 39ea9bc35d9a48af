--------------------------- MODULE CheckSelection ---------------------------
(***************************************************************************)
(* Which checks are run for a rule (internal/config: GetChecksForRule and  *)
(* what it calls), given the configuration, the flags --disabled and       *)
(* --offline, and the comments of the rule and of its file.                *)
(*                                                                         *)
(* What names a check in a comment or a list is a tuple: <<name>>, its     *)
(* instance (String() of the check) or <<name, "+", tag>>.  A regexp is    *)
(* the set of what it matches.                                             *)
(***************************************************************************)
EXTENDS RuleFile

CONSTANTS Configs  \* what pint can be started with

(* Lists in a configuration are sequences.                                 *)
BlockOK(b) ==
    /\ \A k \in DOMAIN b \ {"match", "ignore"} : IsSeq(b[k])
    /\ "aggregate" \in DOMAIN b =>
          \A s \in Range(b["aggregate"]) : IsSeq(s.keep) /\ IsSeq(s.strip)
    /\ "reject" \in DOMAIN b => \A s \in Range(b["reject"]) : IsSeq(s.what)
ASSUME ConfigsHaveLists ==
    \A c \in Configs : /\ IsSeq(c.proms) /\ IsSeq(c.rules)
                       /\ \A b \in Range(c.rules) : BlockOK(b)

VARIABLES config   \* the configuration and the flags

vars == <<lines, content, skip, config>>

(* internal/checks/base.go                                                 *)
Builtin == <<"promql/syntax", "alerts/for", "alerts/comparison", "alerts/template",
             "promql/fragile", "promql/regexp">>
PerServer == <<"promql/rate", "promql/series", "promql/vector_matching",
               "promql/range_query", "rule/duplicate", "labels/conflict">>
Configured == {"promql/aggregate", "query/cost", "alerts/annotation", "rule/label",
               "alerts/count", "rule/reject", "rule/link"}
CheckNames == Range(Builtin) \cup Range(PerServer) \cup Configured
OnlineChecks_NoCost == Range(PerServer) \cup {"alerts/count", "rule/link"}
OnlineChecks == Range(PerServer) \cup {"alerts/count", "query/cost", "rule/link"}

(* A check: what String() says of it, the tags of its server, whether it   *)
(* sends queries (Meta().IsOnline), and what it was configured to do.      *)
Check(name, args, tags, online, does) ==
    [name |-> name, instance |-> <<name>> \o args, tags |-> tags, online |-> online,
     does |-> does]
Offline(name, args, does) == Check(name, args, {}, FALSE, does)
Online(name, prom, args, does) ==
    Check(name, <<prom.name>> \o args, prom.tags, TRUE, does)

Designators(c) == {<<c.name>>, c.instance} \cup {<<c.name, "+", t>> : t \in c.tags}
----------------------------------------------------------------------------
(* Config.SetDisabledChecks and DisableOnlineChecks                        *)

SetDisabledChecks(disabled, flags) ==
    disabled \cup UNION {{f.raw} \cup {<<n>> : n \in f.matches} : f \in flags}
DisableOnlineChecks(disabled) == disabled \cup {<<n>> : n \in OnlineChecks}

Disabled ==
    LET set == SetDisabledChecks(config.disabled, config.flags)
    IN IF config.offline THEN DisableOnlineChecks(set) ELSE set

(* PrometheusConfig.isEnabledForPath                                       *)
isEnabledForPath(prom, path) ==
    \/ prom.include = {} /\ prom.exclude = {}
    \/ path \notin prom.exclude /\ path \in prom.include

Each(settings, Op(_)) == FlattenSeq([i \in DOMAIN settings |-> Op(settings[i])])
IfEnabled(p) == IF isEnabledForPath(p, config.path) THEN <<p>> ELSE <<>>
proms == Each(config.proms, IfEnabled)

(* Match.IsMatch: a block is the set of its conditions.                    *)
Durations(op, d, S) ==
    {x \in S : CASE op = "<" -> x < d [] op = "<=" -> x <= d [] op = "=" -> x = d
                 [] op = "!=" -> x # d [] op = ">=" -> x >= d [] op = ">" -> x > d}
Unparseable == -1
Holds(c, type, rule) ==
    CASE c.on = "kind" -> type \in c.in
      [] c.on = "path" -> config.path \in c.in
      [] c.on = "name" -> rule.name \in c.in
      [] c.on = "label" -> rule.labels \cap c.in # {}
      [] c.on = "annotation" -> type = "alerting" /\ rule.annotations \cap c.in # {}
      [] c.on = "command" -> config.command \in c.in
      [] c.on = "for" -> /\ type = "alerting"
                         /\ rule.for # {}
                         /\ rule.for = {Unparseable} \/ rule.for \subseteq c.in
IsMatch(block, type, rule) == \A c \in block : Holds(c, type, rule)

(* Rule.resolveChecks: what the settings of one rule block configure.      *)
Setting(block, k) == IF k \in DOMAIN block THEN block[k] ELSE <<>>

aggregateChecks(s) ==
    LET of(label, keep) == Offline("promql/aggregate", <<label, keep>>, [name |-> s.name])
    IN [i \in DOMAIN s.keep |-> of(s.keep[i], TRUE)]
       \o [i \in DOMAIN s.strip |-> of(s.strip[i], FALSE)]
costChecks(s) ==
    [i \in DOMAIN proms |->
        Online("query/cost", proms[i], IF s.max > 0 THEN <<s.max>> ELSE <<>>, {})]
annotationChecks(s) == <<Offline("alerts/annotation", <<s.key, s.value, s.required>>, {})>>
labelChecks(s) == <<Offline("rule/label", <<s.key, s.required>>, [value |-> s.value])>>
alertsChecks(s) == [i \in DOMAIN proms |-> Online("alerts/count", proms[i], <<>>, s)]
rejectChecks(s) ==
    [i \in DOMAIN s.what |->
        Offline("rule/reject", <<s.what[i][2], s.regex>>, [on |-> s.what[i][1]])]
linkChecks(s) == <<Check("rule/link", <<s.regex>>, {}, TRUE, {})>>

settingsChecks(block) ==
    Each(Setting(block, "aggregate"), aggregateChecks)
    \o Each(Setting(block, "cost"), costChecks)
    \o Each(Setting(block, "annotation"), annotationChecks)
    \o Each(Setting(block, "label"), labelChecks)
    \o Each(Setting(block, "alerts"), alertsChecks)
    \o Each(Setting(block, "reject"), rejectChecks)
    \o Each(Setting(block, "link"), linkChecks)

resolveChecks(block, type, rule) ==
    IF \/ \E m \in block.ignore : IsMatch(m, type, rule)
       \/ block.match # {} /\ ~\E m \in block.match : IsMatch(m, type, rule)
    THEN <<>>
    ELSE settingsChecks(block)

(* isEnabled: comments is what those of the rule disable or snooze.        *)
RuleComments(i) ==
    GetComments(i, "disable") \cup UNION {ParseSnooze(s) : s \in GetComments(i, "snooze")}
isEnabled(comments, disabled, c) ==
    /\ Designators(c) \cap comments = {}
    /\ Designators(c) \cap disabled = {}
    /\ config.enabled = {} \/ c.name \in config.enabled

Rule(i) == content.body[i].text
builtinChecks == [n \in DOMAIN Builtin |-> Offline(Builtin[n], <<>>, {})]
serverChecks(p) == [n \in DOMAIN PerServer |-> Online(PerServer[n], p, <<>>, {})]
allChecks(i) ==
    LET ofBlock(b) == resolveChecks(b, Verdict(i), Rule(i))
    IN builtinChecks \o Each(proms, serverChecks) \o Each(config.rules, ofBlock)

(* GetChecksForRule: of checks with the same String() the first that is    *)
(* enabled is run.                                                         *)
GetChecksForRule(i) ==
    LET all == allChecks(i)
        comments == RuleComments(i)
        inFile == disabledChecks
        inConfig == Disabled
        enabled == {n \in DOMAIN all : /\ isEnabled(comments, inFile, all[n])
                                      /\ isEnabled(comments, inConfig, all[n])}
    IN {all[n] : n \in {n \in enabled :
                    \A m \in enabled : m < n => all[m].instance # all[n].instance}}
----------------------------------------------------------------------------
Init ==
    /\ ReadInit
    /\ config \in Configs

Read == \E l \in LineKinds : ReadLine(l) /\ UNCHANGED config

Next == Read
Spec == Init /\ [][Next]_vars
----------------------------------------------------------------------------
(* Properties, said of the file as it is written.                          *)

Rules == readRules(config.strict)
Above(i) ==
    {lines[j].pint : j \in {j \in 1..(i - 1) :
        \A k \in j..(i - 1) : lines[k].text = NoText /\ lines[k].pint # NoComment}}
Everywhere == {l.pint : l \in Range(lines)}
Named(comments, off, snooze, c) ==
    \E p \in comments :
        \/ p.key = off /\ p.value \in Designators(c)
        \/ /\ p.key = snooze /\ Dated(p.value)
           /\ p.value.until > Now /\ p.value.text \in Designators(c)
NamedByConfig(c) ==
    \/ Designators(c) \cap config.disabled # {}
    \/ \E f \in config.flags : f.raw \in Designators(c) \/ c.name \in f.matches
    \/ config.offline /\ c.online

(* A check that is disabled or snoozed stays off, whichever of the many    *)
(* ways is used: for the rule a comment stands above, for a whole file     *)
(* from anywhere in it (an ignored part too), for all by the configuration *)
(* or a flag; and with --offline nothing that sends a query is run.        *)
DisabledStaysOff ==
    \A i \in Rules : \A c \in GetChecksForRule(i) :
        /\ ~Named(Above(i), "disable", "snooze", c)
        /\ ~Named(Everywhere, "file/disable", "file/snooze", c)
        /\ ~NamedByConfig(c)

(* And nothing else is lost: a check that no comment of the file names (or *)
(* only a snooze that is over), nor the configuration, is run, or one with *)
(* the same String() in its place.                                         *)
OthersRun ==
    \A i \in Rules :
      LET run == {c.instance : c \in GetChecksForRule(i)} IN
      \A c \in Range(allChecks(i)) :
        \/ Named(Everywhere, "disable", "snooze", c)
        \/ Named(Everywhere, "file/disable", "file/snooze", c)
        \/ NamedByConfig(c)
        \/ config.enabled # {} /\ c.name \notin config.enabled
        \/ c.instance \in run

(* Contradicted by the code (README, section 5): what a reject block asks  *)
(* for is run.  docs/checks/rule/reject.md:34 says of annotation_keys: "if *)
(* true annotation keys for alerting rules will be checked"; with          *)
(* label_keys set too, both checks have the same String(), and the second  *)
(* is dropped as a repetition of the first.                                *)
RejectsAreRun ==
    \A i \in Rules : \A c \in Range(allChecks(i)) :
        c.name = "rule/reject" /\ isEnabled(RuleComments(i), disabledChecks \cup Disabled, c)
            => c \in GetChecksForRule(i)
============================================================================
