------------------------------ MODULE RuleFile ------------------------------
(***************************************************************************)
(* From the lines of a rule file to rules (internal/parser and readRules   *)
(* of internal/discovery): which lines the "# pint ignore/..." comments    *)
(* take away, which keys make a rule, and which comments a rule has.       *)
(*                                                                         *)
(* A line is a pint comment, a piece of YAML, both, or nothing.  A rule is *)
(* written on one line; a piece of a template that is not YAML is Garbage. *)
(* The YAML decoder is external: a comment belongs to the rule it stands   *)
(* right above, and one kept line of garbage fails the whole file.         *)
(***************************************************************************)
EXTENDS Integers, Sequences, SequencesExt, FiniteSets, FiniteSetsExt

CONSTANTS LineKinds,  \* lines a file can have: [pint, text]
          MaxLines,   \* bound: lines in a file
          Mappings,   \* mappings KeysDecide is about
          Now         \* the day on which pint runs

(* Keys come in sequences.  A merge of one anchored mapping has its keys.  *)
IsMerge(m) == m.key = "<<" /\ "keys" \in DOMAIN m
IsSeq(s) == s \in Seq(Range(s))
ASSUME MappingsAreKeys ==
    \A mapping \in Mappings :
        /\ IsSeq(mapping)
        /\ \A m \in Range(mapping) : IsMerge(m) => IsSeq(m.keys)

(* A line is what it says; every line has its two parts.                   *)
ASSUME LinesHaveParts ==
    /\ \A l \in LineKinds : l = [pint |-> l.pint, text |-> l.text]
    /\ MaxLines \in Nat

VARIABLES lines,   \* the file, as far as it has been read
          content, \* what ReadContent has made of them: Content and Ignored
          skip     \* its skipNext, autoReset, skipAll and inBegin

fileVars == <<lines, content, skip>>

NoComment == [key |-> "none"]
Pint(key, value) == [key |-> key, value |-> value]
NoText == [is |-> "nothing"]
Garbage == [is |-> "garbage"]
----------------------------------------------------------------------------
(* ReadContent: one iteration of its loop.  emptyLine leaves the comment.  *)

ReadInit ==
    /\ lines = <<>>
    /\ content = [body |-> <<>>, ignored |-> FALSE]
    /\ skip = [next |-> FALSE, autoReset |-> FALSE, all |-> FALSE, begin |-> FALSE]

emptyLine(l) == [l EXCEPT !.text = NoText]

AfterLine_KeepsSkipping(s, key) ==
    CASE key = "ignore/file" -> [s EXCEPT !.next = TRUE, !.autoReset = FALSE, !.all = TRUE]
      [] key = "ignore/line" /\ ~s.begin -> [s EXCEPT !.next = FALSE, !.autoReset = TRUE]
      [] key = "ignore/next-line" -> [s EXCEPT !.next = TRUE, !.autoReset = TRUE]
      [] key = "ignore/begin" -> [s EXCEPT !.next = TRUE, !.autoReset = FALSE, !.begin = TRUE]
      [] key = "ignore/end" -> [s EXCEPT !.autoReset = TRUE, !.begin = FALSE]
      [] OTHER -> [s EXCEPT !.next = @ /\ ~s.autoReset]

(* What a line with this comment leaves the loop in, until ignore/file.    *)
AfterLine(s, key) ==
    CASE key = "ignore/file" -> [s EXCEPT !.next = TRUE, !.autoReset = FALSE, !.all = TRUE]
      [] key = "ignore/line" /\ ~s.begin -> [s EXCEPT !.next = FALSE, !.autoReset = TRUE]
      [] key = "ignore/line" /\ s.begin -> s
      [] key = "ignore/next-line" -> [s EXCEPT !.next = TRUE, !.autoReset = TRUE]
      [] key = "ignore/begin" -> [s EXCEPT !.next = TRUE, !.autoReset = FALSE, !.begin = TRUE]
      [] key = "ignore/end" -> [s EXCEPT !.next = FALSE, !.autoReset = TRUE, !.begin = FALSE]
      [] OTHER -> [s EXCEPT !.next = @ /\ ~s.autoReset]

Markers == {"ignore/next-line", "ignore/begin", "ignore/end"}
Emptied(s, key) ==
    s.all \/ key \in {"ignore/file", "ignore/line"} \/ (s.next /\ key \notin Markers)

ReadLine(l) ==
    /\ Len(lines) < MaxLines
    /\ lines' = Append(lines, l)
    /\ content' = [body |-> Append(content.body, IF Emptied(skip, l.pint.key)
                                                 THEN emptyLine(l) ELSE l),
                   ignored |-> content.ignored \/ (~skip.all /\ l.pint.key = "ignore/file")]
    /\ skip' = IF skip.all THEN skip ELSE AfterLine(skip, l.pint.key)
----------------------------------------------------------------------------
(* parseRule, of a mapping written as a sequence of keys; a merge names    *)
(* one anchored mapping and brings its keys, or it is a list or inline,    *)
(* Key("<<"), and brings none.  Values that are aliases are not modelled.  *)

Known == {"record", "alert", "expr", "for", "labels", "annotations"}
Key(k) == [key |-> k]
Merge(keys) == [key |-> "<<", keys |-> keys]
Explicit(mapping) == {m.key : m \in Range(mapping)}

(* isMerge stays set after a merge that is not an alias, and what follows  *)
(* is lost until the next one that is.                                     *)
Lost(mapping, i) ==
    \E j \in 1..i : mapping[j].key = "<<" /\ \A m \in j..i : ~IsMerge(mapping[m])

(* unpackNodes and resolveMapAlias: merged keys that the mapping has are   *)
(* left out.                                                               *)
missingKeys(keys, mapping) ==
    FlattenSeq([j \in DOMAIN keys |->
        IF keys[j] \in Explicit(mapping) THEN <<>> ELSE <<keys[j]>>])
unpackNodes_KeepsAll(mapping) ==
    FlattenSeq([i \in DOMAIN mapping |->
        IF IsMerge(mapping[i]) THEN mapping[i].keys
        ELSE IF Lost(mapping, i) THEN <<>> ELSE <<mapping[i].key>>])
unpackNodes(mapping) ==
    FlattenSeq([i \in DOMAIN mapping |->
        IF IsMerge(mapping[i]) THEN missingKeys(mapping[i].keys, mapping)
        ELSE IF Lost(mapping, i) THEN <<>> ELSE <<mapping[i].key>>])

(* The first verdict that applies; "empty" is no rule and no error.        *)
parseRule(mapping) ==
    LET keys == unpackNodes(mapping)
        has(k) == k \in Range(keys)
        named == has("record") \/ has("alert")
        repeated == \E i, j \in DOMAIN keys : i < j /\ keys[i] = keys[j] /\ keys[i] \in Known
    IN IF repeated                                     THEN "duplicated key"
       ELSE IF has("record") /\ has("alert")           THEN "both record and alert"
       ELSE IF named /\ ~has("expr")                   THEN "missing expr"
       ELSE IF has("expr") /\ ~named                   THEN "incomplete rule"
       ELSE IF named /\ ~(Range(keys) \subseteq Known) THEN "invalid keys"
       ELSE IF has("record")                           THEN "recording"
       ELSE IF has("alert")                            THEN "alerting"
       ELSE "empty"

RuleTypes == {"recording", "alerting"}
----------------------------------------------------------------------------
(* Comments.  ParseSnooze: a snooze that is over, or has no date that can  *)
(* be read, is none.                                                       *)

Dated(s) == "until" \in DOMAIN s
ParseSnooze_Inclusive(s) == IF Dated(s) /\ s.until >= Now THEN {s.text} ELSE {}
ParseSnooze(s) == IF Dated(s) /\ s.until > Now THEN {s.text} ELSE {}

Commented(i) == content.body[i].text = NoText /\ content.body[i].pint # NoComment
Comments(i) ==
    {content.body[j].pint : j \in {j \in 1..(i - 1) : \A k \in j..(i - 1) : Commented(k)}}
HasComment(i, comment) == comment \in Comments(i)
GetComments(i, key) == {c.value : c \in {c \in Comments(i) : c.key = key}}

FileComments(key) ==
    {l.pint.value : l \in {l \in Range(content.body) : l.pint.key = key}}
disabledChecks ==
    FileComments("file/disable") \cup
    UNION {ParseSnooze(s) : s \in FileComments("file/snooze")}

(* What rulefmt.Parse (external) has against a rule of a group, but for    *)
(* what isStrictIgnored leaves to parseRule: that it has no record, alert  *)
(* or expr.                                                                *)
AlertOnly == {"for", "keep_firing_for", "annotations"}
StrictError(mapping) ==
    LET merges == {m \in Range(mapping) : IsMerge(m)}
        keys == (Explicit(mapping) \cup UNION {Range(m.keys) : m \in merges}) \ {"<<"}
    IN \/ ~(keys \subseteq Known \cup AlertOnly)
       \/ "record" \in keys /\ keys \cap (AlertOnly \cup {"alert"}) # {}
       \/ \E i, j \in DOMAIN mapping :
             i < j /\ mapping[i].key = mapping[j].key /\ mapping[i].key # "<<"

(* readRules: the lines that become rules.  A file that is ignored or      *)
(* cannot be parsed has none, nor has one with such an error if it is not  *)
(* in the relaxed paths.                                                   *)
Kept == {i \in DOMAIN content.body : content.body[i].text # NoText}
Verdict(i) == parseRule(content.body[i].text.keys)
PathError(strict) ==
    \/ content.ignored
    \/ \E i \in Kept : content.body[i].text = Garbage
    \/ strict /\ \E i \in Kept : StrictError(content.body[i].text.keys)
readRules(strict) ==
    IF PathError(strict) THEN {} ELSE {i \in Kept : Verdict(i) \in RuleTypes}
----------------------------------------------------------------------------
(* Properties.                                                             *)

(* What docs/ignoring.md lets a file ask for: its own line, the next one,  *)
(* all from the first ignore/file on, or a block.                          *)
Says(i, key) == lines[i].pint.key = key
Open(i) ==
    \E b \in 1..(i - 1) :
        Says(b, "ignore/begin") /\ \A k \in b..(i - 1) : ~Says(k, "ignore/end")
AskedToIgnore(i) ==
    \/ \E j \in 1..i : Says(j, "ignore/file")
    \/ Says(i, "ignore/line")
    \/ i > 1 /\ Says(i - 1, "ignore/next-line")
    \/ Open(i)

(* An ignore/next-line inside of a block also ends it: what follows the    *)
(* next line is kept, until the next ignore/begin.                         *)
Ends(j, i) ==
    /\ Says(j, "ignore/next-line") /\ Open(j)
    /\ \A k \in j..i : ~Says(k, "ignore/begin")
Ended(i) == \E j \in 1..(i - 2) : Ends(j, i - 1)

(* A line is taken away if and only if a comment asks for it, but for a    *)
(* block that was ended, and for what is written on the line of a marker,  *)
(* which only an ignore/file takes away.                                   *)
IgnoredAsAsked ==
    \A i \in DOMAIN lines : lines[i].text # NoText =>
        /\ i \notin Kept => AskedToIgnore(i)
        /\ AskedToIgnore(i) => i \notin Kept \/ Ended(i) \/ lines[i].pint.key \in Markers

(* Whatever the order of its keys and whichever anchored mappings it       *)
(* merges, a mapping is accepted as a rule exactly when it has one of      *)
(* record and alert, an expr and no unknown key, writes none of them twice *)
(* and, of those it does not write, gets none twice from what it merges;   *)
(* and one that names a rule or has an expr never goes unnoticed.  Keys    *)
(* after a list or inline merge are Lost and do not count, nor does what a *)
(* merged mapping merges itself.                                           *)
Written(mapping) == {i \in DOMAIN mapping : ~IsMerge(mapping[i]) /\ ~Lost(mapping, i)}
WrittenOnce(mapping, k) ==
    \A i, j \in Written(mapping) : mapping[i].key = k /\ mapping[j].key = k => i = j
MergedOnce(mapping, merges, k) ==
    \A i, n \in merges :
        \A j \in DOMAIN mapping[i].keys, m \in DOMAIN mapping[n].keys :
            mapping[i].keys[j] = k /\ mapping[n].keys[m] = k => i = n /\ j = m
DecidedByKeys(mapping) ==
    LET merges == {i \in DOMAIN mapping : IsMerge(mapping[i])}
        all == {mapping[i].key : i \in Written(mapping)} \cup
               ((UNION {Range(mapping[i].keys) : i \in merges}) \ Explicit(mapping))
        once == \A k \in Known : IF k \in Explicit(mapping) THEN WrittenOnce(mapping, k)
                                ELSE MergedOnce(mapping, merges, k)
        verdict == parseRule(mapping)
    IN /\ verdict \in RuleTypes <=>
            /\ once /\ all \subseteq Known /\ "expr" \in all
            /\ "record" \in all <=> "alert" \notin all
       /\ all \cap {"record", "alert", "expr"} # {} => verdict # "empty"
KeysDecide == lines = <<>> => \A mapping \in Mappings : DecidedByKeys(mapping)
----------------------------------------------------------------------------
(* The inductive invariant of CheckSelectionProofs.                        *)

(* A line is kept as it is or emptied, and only ignore/file is for good.   *)
BodyFollows ==
    /\ Len(content.body) = Len(lines)
    /\ \A i \in DOMAIN lines : content.body[i] \in {lines[i], emptyLine(lines[i])}
    /\ skip.all <=> \E j \in DOMAIN lines : Says(j, "ignore/file")

(* What the four variables of the loop remember of the n lines before.     *)
SkipRemembers(n) ==
    ~skip.all =>
        /\ skip.begin <=> Open(n + 1)
        /\ skip.next => skip.begin \/ (n > 0 /\ Says(n, "ignore/next-line"))
        /\ skip.next /\ ~skip.autoReset => skip.begin
        /\ skip.begin /\ skip.autoReset => \E j \in 1..n : Ends(j, n)
        /\ skip.begin /\ ~skip.next => Ended(n + 1)
        /\ n > 0 /\ Says(n, "ignore/next-line") => skip.next

ReadInv ==
    /\ lines \in Seq(LineKinds)
    /\ content \in [body : Seq([pint : {l.pint : l \in LineKinds},
                                text : {l.text : l \in LineKinds} \cup {NoText}]),
                    ignored : BOOLEAN]
    /\ skip \in [next : BOOLEAN, autoReset : BOOLEAN, all : BOOLEAN, begin : BOOLEAN]
    /\ BodyFollows /\ SkipRemembers(Len(lines)) /\ IgnoredAsAsked
============================================================================
