--------------------------- MODULE BranchEntries ---------------------------
(***************************************************************************)
(* Which rules a pull request is checked for: the two finders of pint ci   *)
(* (internal/discovery: GitBlameFinder, the default, and GitBranchFinder), *)
(* and the commands of internal/git they stand on.                         *)
(*                                                                         *)
(* Somebody commits to a branch; in every state both finders can be run on *)
(* what has been committed so far.  A rule is a line of its file.  Git is  *)
(* external: it remembers of each line in which commit, and under which    *)
(* path, it was last written, lists the path each commit touches (one per  *)
(* commit here, no copies, no directories), and blames a path at HEAD.     *)
(***************************************************************************)
EXTENDS Integers, Sequences, SequencesExt, FiniteSets, FiniteSetsExt

CONSTANTS Paths,      \* paths of the repository
          Allowed,    \* those that match ci.include
          Names,      \* names of rules
          Exprs,      \* expressions of rules
          Bases,      \* trees the branch can start from
          MaxLog,     \* bound: commits on the branch
          MaxLines,   \* bound: rules in a file
          MaxCommits  \* ci.maxCommits

VARIABLES
    trees,  \* trees[c + 1]: the tree after commit c; 0 is the base
    log     \* what each commit did: [op, src, dst, skip]

vars == <<trees, log>>

HEAD == Len(log)
Missing == [type |-> "missing"]
Line(n, e, c, p) == [name |-> n, expr |-> e, by |-> c, at |-> p]
File(lines) == [type |-> "file", lines |-> lines]
Symlink(p, c, at) == [type |-> "symlink", to |-> p, by |-> c, at |-> at]

LineType == [name : Names, expr : Exprs, by : Nat, at : Paths]
NodeType ==
    {Missing}
    \cup [type : {"file"}, lines : Seq(LineType)]
    \cup [type : {"symlink"}, to : Paths, by : Nat, at : Paths]

(* Nothing in a base was written by the branch.                            *)
ASSUME EntriesAssumption ==
    /\ Allowed \subseteq Paths
    /\ MaxLog \in Nat /\ MaxLines \in Nat /\ MaxCommits \in Nat
    /\ Bases \subseteq [Paths -> NodeType]
    /\ \A tree \in Bases, p \in Paths :
          tree[p].type = "file" =>
              \A i \in DOMAIN tree[p].lines : tree[p].lines[i].by = 0

Node(c, p) == trees[c + 1][p]
IsFile(c, p) == Node(c, p).type = "file"
IsLink(c, p) == Node(c, p).type = "symlink"
----------------------------------------------------------------------------
(* The branch.                                                             *)

Init ==
    /\ trees \in {<<t>> : t \in Bases}
    /\ log = <<>>

Commit(op, src, dst, tree) ==
    /\ Len(log) < MaxLog
    /\ trees' = Append(trees, tree)
    /\ \E skip \in BOOLEAN :
         log' = Append(log, [op |-> op, src |-> src, dst |-> dst, skip |-> skip])

Tree == trees[Len(trees)]
NextCommit == Len(log) + 1

(* The versions of a file after one edit at path p.                        *)
Rewritten(lines, p) ==
    UNION {{[lines EXCEPT ![i] = Line(@.name, e, NextCommit, p)] :
               e \in Exprs \ {lines[i].expr}} : i \in DOMAIN lines}
Edited(lines, p) ==
    Rewritten(lines, p)
    \cup {RemoveAt(lines, i) : i \in DOMAIN lines}
    \cup IF Len(lines) >= MaxLines THEN {}
         ELSE {InsertAt(lines, i, Line(n, e, NextCommit, p)) :
                  i \in 1..(Len(lines) + 1), n \in Names, e \in Exprs}

Modify(p) ==
    /\ IsFile(HEAD, p)
    /\ \E lines \in Edited(Tree[p].lines, p) :
         Commit("M", p, p, [Tree EXCEPT ![p] = File(lines)])

Add(p) ==
    /\ Tree[p] = Missing
    /\ \E n \in Names, e \in Exprs :
         Commit("A", p, p, [Tree EXCEPT ![p] = File(<<Line(n, e, NextCommit, p)>>)])

(* git mv, with or without an edit small enough to still count as one.     *)
Rename(p, q) ==
    /\ IsFile(HEAD, p) /\ Tree[q] = Missing
    /\ \E lines \in {Tree[p].lines} \cup
                    IF Len(Tree[p].lines) = 1 THEN {} ELSE Rewritten(Tree[p].lines, q) :
         Commit("R", p, q, [Tree EXCEPT ![p] = Missing, ![q] = File(lines)])

Delete(p) ==
    /\ Tree[p] # Missing
    /\ Commit("D", p, p, [Tree EXCEPT ![p] = Missing])

(* A file is added as, or turned into, a symlink to another one (never to  *)
(* another symlink).                                                       *)
Link(p, q) ==
    /\ p # q /\ IsFile(HEAD, q) /\ ~IsLink(HEAD, p)
    /\ \A r \in Paths : IsLink(HEAD, r) => Tree[r].to # p
    /\ Commit(IF Tree[p] = Missing THEN "A" ELSE "T", p, p,
              [Tree EXCEPT ![p] = Symlink(q, NextCommit, p)])

Next ==
    \E p \in Paths :
        \/ Modify(p) \/ Add(p) \/ Delete(p)
        \/ \E q \in Paths : Rename(p, q) \/ Link(p, q)

Spec == Init /\ [][Next]_vars
----------------------------------------------------------------------------
(* internal/git.                                                           *)

(* resolveSymlinkTarget, and the content found there (none: no lines).     *)
Target(c, p) == IF IsLink(c, p) THEN Node(c, p).to ELSE p
Lines(c, p) == IF IsFile(c, p) THEN Node(c, p).lines ELSE <<>>

(* git blame of a path at HEAD, as parsed: lines that were last written    *)
(* under another path are dropped.  A symlink is one line.                 *)
Written(p) ==
    IF IsLink(HEAD, p) THEN <<Node(HEAD, p)>> ELSE Lines(HEAD, p)
Blame(p, commits) ==
    {i \in DOMAIN Written(p) : Written(p)[i].by \in commits /\ Written(p)[i].at = p}

(* Changes: what the log says, one change per final path.  Its old side is  *)
(* that of the first commit with this path, its commits are all of them.   *)
Touching(p) == {c \in DOMAIN log : log[c].dst = p}

ChangeAt(c, p) ==
    LET l == log[c] IN
    [before |-> l.src, after |-> p, commits |-> Touching(p),
     was |-> Node(c - 1, l.src).type,
     old |-> IF l.op = "A" THEN <<>> ELSE Lines(c - 1, Target(c - 1, l.src))]

ChangeOf_KeepsLast(p) == ChangeAt(Max(Touching(p)), p)
ChangeOf(p) == ChangeAt(Min(Touching(p)), p)

Changes == {ChangeOf(p) : p \in {q \in Paths : Touching(q) # {}}}

Is(ch) == Node(Max(ch.commits), ch.after).type
New(ch) ==
    LET c == Max(ch.commits) IN Lines(c, Target(c, ch.after))

(* The lines git blame is asked about, and fails for if the path is gone.  *)
NeedsBlame(ch) == ch.was # "missing" /\ Is(ch) = "file"

ModifiedLines(ch) ==
    CASE NeedsBlame(ch) -> Blame(ch.after, ch.commits)
      [] Is(ch) # "missing" /\ ~NeedsBlame(ch) -> DOMAIN New(ch)
      [] Is(ch) = "missing" /\ ch.was # "missing" -> DOMAIN ch.old
      [] OTHER -> {}
----------------------------------------------------------------------------
(* internal/discovery.                                                     *)

Entry(reported, source, line, i, state, modified) ==
    [reported |-> reported, source |-> source, name |-> line.name,
     expr |-> line.expr, line |-> i, state |-> state, modified |-> modified]

SameYAML(a, b) == a.name = b.name /\ a.expr = b.expr

Identical(before, a) == {b \in before : SameYAML(b, a)}
Named(before, a) == {b \in before : b.name = a.name}
First(rules) == CHOOSE b \in rules : \A o \in rules : b.line <= o.line

(* One rule a of the new version in the loop of matchEntries: before is    *)
(* what is left of the old one, numbered by line.                          *)
StateOf_ByNameOnly(before, a) ==
    IF Cardinality(Named(before, a)) = 1 THEN "modified" ELSE "added"
StateOf(before, a) ==
    CASE Identical(before, a) # {} -> "identical"
      [] Identical(before, a) = {} /\ Cardinality(Named(before, a)) = 1 -> "modified"
      [] OTHER -> "added"

Matched(before, a) ==
    CASE StateOf(before, a) = "identical" -> {First(Identical(before, a))}
      [] StateOf(before, a) = "modified" -> Named(before, a)
      [] OTHER -> {}

Numbered(lines) ==
    {[name |-> lines[i].name, expr |-> lines[i].expr, line |-> i] : i \in DOMAIN lines}

(* matchEntries: what is left of the old version after so many new rules.  *)
matchEntries(old, new) ==
    LET left[i \in 0..Len(new)] ==
            IF i = 0 THEN Numbered(old) ELSE left[i - 1] \ Matched(left[i - 1], new[i])
    IN left

(* The entries GitBranchFinder makes of one change.                        *)
EntriesOf(ch) ==
    LET new == New(ch)
        left == matchEntries(ch.old, new)
        state(i) == StateOf(left[i - 1], new[i])
        to == Target(Max(ch.commits), ch.after)
    IN {Entry(to, ch.after, new[i], i, state(i), ModifiedLines(ch) \cap {i}) :
          i \in {j \in DOMAIN new : state(j) # "identical"}}
       \cup {Entry(Target(Min(ch.commits) - 1, ch.before), ch.before, b, b.line,
                   "removed", {b.line}) : b \in left[Len(new)]}

(* findSymlinks walks the checked out tree and fails for a symlink that    *)
(* leads nowhere; addSymlinkedEntries repeats the entries of a file for    *)
(* the symlinks to it, without their state.                                *)
Links == {p \in Paths : IsLink(HEAD, p)}
Dangling == \E p \in Links : ~IsFile(HEAD, Node(HEAD, p).to)
symlinked(entries, p) ==
    {[e EXCEPT !.source = p, !.state = "unknown"] :
        e \in {x \in entries : /\ x.state # "removed"
                              /\ x.source = x.reported
                              /\ x.source = Node(HEAD, p).to}}
addSymlinkedEntries(entries) ==
    entries \cup UNION {symlinked(entries, p) : p \in Links \cap Allowed}

Found(entries) == [failed |-> FALSE, entries |-> entries]
Failed == [failed |-> TRUE, entries |-> {}]
Finish(entries) ==
    IF Dangling THEN Failed ELSE Found(addSymlinkedEntries(entries))

(* GitBranchFinder.Find: every change is resolved before any is skipped.   *)
GitBranchFinder ==
    LET gone == \E ch \in Changes :
                   NeedsBlame(ch) /\ Node(HEAD, ch.after) = Missing
        skipped == \E c \in DOMAIN log : log[c].skip
        allowed == {ch \in Changes : ch.after \in Allowed}
    IN CASE log = <<>> \/ Len(log) > MaxCommits \/ gone -> Failed
         [] log # <<>> /\ Len(log) <= MaxCommits /\ ~gone /\ skipped -> Found({})
         [] OTHER -> Finish(UNION {EntriesOf(ch) : ch \in allowed})

(* pathCommits of GitBlameFinder: the commits a path is owed for, none for *)
(* a path that is not in the map.                                          *)
Track_KeepsSource(paths, c) ==
    LET l == log[c] IN
    IF l.dst \notin Allowed THEN paths
    ELSE [paths EXCEPT ![l.dst] = IF l.op = "D" THEN {} ELSE @ \cup {c} \cup paths[l.src]]
Track_ForgetsRenames(paths, c) ==
    LET l == log[c] IN
    IF l.dst \notin Allowed THEN paths
    ELSE [paths EXCEPT ![l.src] = {}, ![l.dst] =
             CASE l.op = "D" -> {} [] l.op = "R" -> {c} [] OTHER -> paths[l.dst] \cup {c}]
Track(paths, c) ==
    LET l == log[c] IN
    CASE l.dst \notin Allowed -> paths
      [] l.dst \in Allowed /\ l.op = "D" -> [paths EXCEPT ![l.src] = {}]
      [] l.dst \in Allowed /\ l.op = "R" ->
           [paths EXCEPT ![l.dst] = @ \cup paths[l.src] \cup {c}, ![l.src] = {}]
      [] OTHER -> [paths EXCEPT ![l.dst] = @ \cup {c}]

PathCommits ==
    LET tracked[n \in 0..Len(log)] ==
            IF n = 0 THEN [p \in Paths |-> {}] ELSE Track(tracked[n - 1], n)
    IN tracked[Len(log)]

(* The rules of a path that blame gives to the commits it is owed for.     *)
BlameEntriesOf(p) ==
    LET rules == Lines(HEAD, Target(HEAD, p))
    IN {Entry(p, p, rules[i], i, "unknown", {i}) :
          i \in DOMAIN rules \cap Blame(p, PathCommits[p])}

(* GitBlameFinder.Find: the commits are walked first; a tracked path that  *)
(* is not checked out cannot be blamed.                                    *)
GitBlameFinder ==
    LET tracked == {p \in Paths : PathCommits[p] # {}}
        skipped == \E c \in DOMAIN log : log[c].skip /\ log[c].dst \in Allowed
        tooMany == MaxCommits > 0 /\ Len(log) > MaxCommits
    IN CASE log = <<>> \/ tooMany -> Failed
         [] log # <<>> /\ ~tooMany /\ skipped -> Found({})
         [] OTHER ->
              IF \E p \in tracked : Node(HEAD, p) = Missing THEN Failed
              ELSE Finish(UNION {BlameEntriesOf(p) : p \in tracked})
----------------------------------------------------------------------------
(* Properties.                                                             *)

Skipped == \E c \in DOMAIN log : log[c].skip
Files == {p \in Allowed : IsFile(HEAD, p)}
Text(line) == <<line.name, line.expr>>
Own(p, i, e) == e.source = p /\ e.reported = p /\ e.line = i

(* However the branch modified, renamed, removed and brought back files,   *)
(* GitBlameFinder reports only the rules that git says were written under  *)
(* their present path by a commit of the branch, and all of them, unless   *)
(* some file was later renamed out of the included paths: what its path    *)
(* was owed does not follow it, and goes if its old path is removed again. *)
RenamedOut(c) ==
    log[c].op = "R" /\ log[c].src \in Allowed /\ log[c].dst \notin Allowed

BlameFinderExact ==
    LET found == GitBlameFinder IN
    ~found.failed /\ ~Skipped =>
        \A p \in Files : \A i \in DOMAIN Lines(HEAD, p) :
            LET line == Lines(HEAD, p)[i]
                reported == \E e \in found.entries : Own(p, i, e)
            IN /\ reported => line.by > 0 /\ line.at = p
               /\ line.by > 0 /\ line.at = p =>
                     reported \/ \E c \in (line.by + 1)..HEAD : RenamedOut(c)

(* A rule that no file had before the commit that wrote it is reported by  *)
(* GitBranchFinder as added or modified, with its own line as the modified *)
(* one, whatever commits came before and after.                            *)
BranchFinderComplete ==
    LET found == GitBranchFinder IN
    ~found.failed /\ ~Skipped =>
        \A p \in Files : \A i \in DOMAIN Lines(HEAD, p) :
            LET line == Lines(HEAD, p)[i] IN
            /\ line.by > 0 /\ line.at = p
            /\ \A c \in 0..(line.by - 1), q \in Paths :
                 Text(line) \notin {Text(l) : l \in Range(Lines(c, q))}
            => \E e \in found.entries :
                   Own(p, i, e) /\ e.state # "removed" /\ e.modified = {i}

(* GitBranchFinder never reports a rule that was only moved in its file,   *)
(* or repeated, as one that was removed and another that was added.        *)
MovedIsNotRemoved ==
    \A ch \in Changes :
        ~\E a, b \in EntriesOf(ch) :
            a.state = "removed" /\ b.state # "removed" /\ Text(a) = Text(b)

(* A finder does not fail a pull request for what it commits, but for too  *)
(* many commits, a symlink that leads nowhere, and one kind of rename: for *)
(* GitBlameFinder to a path that is not included, for GitBranchFinder of a *)
(* path that the branch wrote before.                                      *)
FindersSurvive ==
    log # <<>> /\ Len(log) <= MaxCommits /\ ~Dangling =>
        /\ GitBlameFinder.failed => \E c \in DOMAIN log : RenamedOut(c)
        /\ GitBranchFinder.failed =>
             \E b, c \in DOMAIN log :
                 b < c /\ log[c].op = "R" /\ log[b].dst = log[c].src

(* docs/index.md:25-26: all files modified by a commit of the branch are   *)
(* scanned.  Run rename_unchecked: the rules of a file that is added and   *)
(* then renamed are not, because Blame drops their lines.                  *)
NewRulesChecked ==
    LET found == GitBlameFinder IN
    ~found.failed /\ ~Skipped =>
        \A p \in Files : \A i \in DOMAIN Lines(HEAD, p) :
            Lines(HEAD, p)[i].by > 0 => \E e \in found.entries : Own(p, i, e)
----------------------------------------------------------------------------
(* The inductive invariant of BranchEntriesProofs: every commit left what  *)
(* its line of the log says.  All of the above follows from it, by         *)
(* induction on the commits.                                               *)

Fresh(line, c) == line.by = c /\ line.at = log[c].dst
From(c, p) == {Lines(c, p)[i] : i \in DOMAIN Lines(c, p)}

(* The lines of a file after commit c are those of a path before it, or    *)
(* the commit wrote them.                                                  *)
Wrote(c, p) ==
    /\ IsFile(c, log[c].dst)
    /\ \A line \in From(c, log[c].dst) : line \in From(c - 1, p) \/ Fresh(line, c)

Ops == {"M", "A", "R", "D", "T"}
Did(c, op) ==
    LET l == log[c] IN
    CASE op = "M" -> l.src = l.dst /\ IsFile(c - 1, l.src) /\ Wrote(c, l.src)
      [] op = "R" -> /\ l.src # l.dst
                     /\ IsFile(c - 1, l.src) /\ Node(c - 1, l.dst) = Missing
                     /\ Node(c, l.src) = Missing /\ Wrote(c, l.src)
      [] op = "D" -> l.src = l.dst /\ Node(c, l.dst) = Missing
      [] op \in {"A", "T"} -> l.src = l.dst /\ (Wrote(c, l.dst) \/ IsLink(c, l.dst))

Follows(c) ==
    /\ \A p \in Paths \ {log[c].src, log[c].dst} : Node(c, p) = Node(c - 1, p)
    /\ Did(c, log[c].op)

HistoryInv ==
    /\ trees \in Seq([Paths -> NodeType])
    /\ log \in Seq([op : Ops, src : Paths, dst : Paths, skip : BOOLEAN])
    /\ Len(trees) = Len(log) + 1
    /\ trees[1] \in Bases
    /\ \A c \in DOMAIN log : Follows(c)
============================================================================
