------------------------- MODULE MCCheckSelection -------------------------
(* Files of a few lines, and configurations that use each way to choose    *)
(* checks: two servers, one of them tagged and one for some paths only.    *)
EXTENDS CheckSelection

Text(keys, name) ==
    [is |-> "rule", keys |-> keys, name |-> name, for |-> {5}, labels |-> {<<"team", "a">>},
     annotations |-> {<<"link", "x">>}]
AlertRule == Text(<<Key("alert"), Key("expr"), Key("for")>>, "Down")
RecordRule == Text(<<Key("expr"), Key("record")>>, "job:up")
NoExprRule == Text(<<Key("record"), Key("labels")>>, "job:up")
BrokenRule == Text(<<Key("record"), Key("expr"), Key("on")>>, "job:up")

Just(text) == [pint |-> NoComment, text |-> text]
Comment(comment) == [pint |-> comment, text |-> NoText]
Marker(key) == [key |-> key]
OwnLine(text) == [pint |-> Marker("ignore/line"), text |-> text]
Until(t, d) == [until |-> t, text |-> d]
NoDate(d) == [text |-> d]

SomeLines ==
    {Just(NoText), Just(Garbage), Just(AlertRule), Just(RecordRule), Just(BrokenRule),
     Just(NoExprRule),
     OwnLine(Garbage), OwnLine(AlertRule), [OwnLine(RecordRule) EXCEPT !.pint = Marker("ignore/begin")]}
    \cup {Comment(Marker(k)) : k \in Markers \cup {"ignore/file"}}
    \cup {Comment(Pint("disable", <<"promql/series", "prod">>)),
          Comment(Pint("file/disable", <<"promql/series", "+", "slow">>)),
          Comment(Pint("snooze", Until(Now, <<"promql/series">>))),
          Comment(Pint("snooze", NoDate(<<"promql/rate", "prod">>))),
          Comment(Pint("file/snooze", Until(Now + 1, <<"query/cost", "dev">>)))}

Elements ==
    {Key(k) : k \in {"record", "alert", "expr", "for", "on", "<<"}} \cup
    {Merge(<<"expr", "for">>), Merge(<<"alert", "on">>), Merge(<<"<<", "alert">>)}
FewKeys == UNION {[1..n -> Elements] : n \in 0..4}

Prod == [name |-> "prod", tags |-> {}, include |-> {}, exclude |-> {}]
Dev == [name |-> "dev", tags |-> {"slow"}, include |-> {"a.yml", "b.yml"}, exclude |-> {"b.yml"}]

On(c, S) == [on |-> c, in |-> S]
Costs == [match |-> {{On("kind", {"alerting"}), On("for", Durations(">=", 5, 1..9))}},
          ignore |-> {{On("path", {"c.yml"})}, {On("label", {<<"team", "b">>})}},
          cost |-> <<[max |-> 0]>>, alerts |-> <<{}>>]
Styles == [match |-> {}, ignore |-> {{On("command", {"watch"})}, {On("annotation", {<<"link", "y">>})}},
           aggregate |-> <<[name |-> {"job:up"}, keep |-> <<"job">>, strip |-> <<"instance">>],
                           [name |-> {"job:up", "x"}, keep |-> <<>>, strip |-> <<"pod">>]>>,
           label |-> <<[key |-> "team", required |-> TRUE, value |-> {}]>>,
           annotation |-> <<[key |-> "link", required |-> FALSE, value |-> {}]>>]
Rejects == [match |-> {{On("name", {"Down"})}}, ignore |-> {},
            reject |-> <<[regex |-> "https?",
                          what |-> <<<<"label", "key">>, <<"annotation", "key">>>>]>>,
            link |-> <<[regex |-> "https?"]>>]

Plain == [enabled |-> CheckNames, disabled |-> {}, flags |-> {}, offline |-> FALSE,
          strict |-> FALSE, path |-> "a.yml", command |-> "lint",
          proms |-> <<Prod, Dev>>, rules |-> <<Costs, Styles, Rejects>>]
SomeConfigs ==
    {Plain,
     [Plain EXCEPT !.offline = TRUE, !.strict = TRUE],
     [Plain EXCEPT !.enabled = {}, !.disabled = {<<"alerts/for">>}, !.path = "b.yml",
         !.flags = {[raw |-> <<"promql/.*">>, matches |-> {"promql/series", "promql/rate"}],
                    [raw |-> <<"query/cost", "+", "slow">>, matches |-> {}]}],
     [Plain EXCEPT !.enabled = {"promql/series", "rule/reject"}, !.command = "watch"]}
===========================================================================
