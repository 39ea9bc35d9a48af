--------------------------- MODULE MCSeriesCheck ---------------------------
(* Small instances of SeriesCheck: rules with one and two selectors, with  *)
(* negative matchers, two matchers of one label, ALERTS, and comments of   *)
(* every scope; a look-back of six evaluations.                            *)
EXTENDS SeriesCheck

TheWindow == [start |-> 10, end |-> 20, step |-> 2]

M(label, value, positive) == [label |-> label, value |-> value, positive |-> positive]
S(metric, matchers) == [metric |-> metric, matchers |-> matchers]

Foo == S("foo", <<>>)
FooJob == S("foo", <<M("job", "x", TRUE)>>)
FooTwo == S("foo", <<M("job", "x", TRUE), M("job", "y.*", TRUE), M("env", "z", FALSE)>>)
Bar == S("bar", <<M("job", "x", TRUE)>>)
Alert(name) == S("ALERTS", <<M("alertname", name, TRUE)>>)

R(selectors, disabled, ignored, minAges) ==
    [selectors |-> selectors, disabled |-> disabled, ignored |-> ignored, minAges |-> minAges]

SmallRules ==
    {R(<<FooJob>>, {}, {}, {}),
     R(<<FooJob>>, {}, {[scope |-> Foo, label |-> "env"]}, {}),
     R(<<FooJob>>, {}, {[scope |-> AnySelector, label |-> "job"]}, {}),
     R(<<FooTwo>>, {}, {}, {}),
     R(<<Foo>>, {}, {}, {[scope |-> AnySelector, value |-> 2], [scope |-> Foo, value |-> 6]}),
     R(<<FooJob>>, {}, {},
       {[scope |-> AnySelector, value |-> 2], [scope |-> FooJob, value |-> None]}),
     R(<<Foo, Foo, Alert("a"), Bar>>, {}, {}, {}),
     R(<<FooJob, Bar>>, {S("", <<M("job", "x", TRUE)>>)}, {}, {}),
     R(<<Bar, FooJob>>, {S("bar", <<>>)}, {}, {})}

SmallOthers ==
    {[alerts |-> {}, recorded |-> {}], [alerts |-> {"a"}, recorded |-> {"foo"}]}

SmallUptimes == {{10, 12, 14, 16, 18, 20}, {10, 12, 18, 20}, {14, 16, 18, 20}}
=============================================================================
