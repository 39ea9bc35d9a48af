------------------------ MODULE BranchEntriesProofs ------------------------
(***************************************************************************)
(* Theorems of BranchEntries: what the two finders of pint ci report, for  *)
(* any number of commits, paths and rules and any base.                    *)
(*                                                                         *)
(* A commit adds a tree and a line of the log, and HistoryInv relates the  *)
(* two.  All that the finders compute is a function of that history, so    *)
(* the rest is induction on the commits of one state: who wrote a line,    *)
(* what becomes of a path nobody commits to, what pathCommits owes a path  *)
(* and what matchEntries has left of the old rules.                        *)
(***************************************************************************)
EXTENDS BranchEntries, FiniteSetTheorems, SequenceTheorems, WellFoundedInduction, TLAPS

(* What the log and the trees are after a commit.                          *)
LEMMA Committed ==
    ASSUME HistoryInv, NEW n, n = HEAD + 1,
           NEW op \in Ops, NEW src \in Paths, NEW dst \in Paths,
           NEW tree \in [Paths -> NodeType], Commit(op, src, dst, tree)
    PROVE  /\ n \in Nat \ {0} /\ HEAD' = n
           /\ trees' \in Seq([Paths -> NodeType])
           /\ log' \in Seq([op : Ops, src : Paths, dst : Paths, skip : BOOLEAN])
           /\ Len(trees') = Len(log') + 1 /\ trees'[1] = trees[1]
           /\ \A c \in 1..(n - 1) : log'[c] = log[c]
           /\ log'[n].op = op /\ log'[n].src = src /\ log'[n].dst = dst
           /\ \A c \in 0..(n - 1) : trees'[c + 1] = trees[c + 1]
           /\ trees'[n + 1] = tree /\ trees'[n] = Tree
<1> DEFINE L == [op : Ops, src : Paths, dst : Paths, skip : BOOLEAN]
           T == [Paths -> NodeType]
<1>1. /\ trees \in Seq(T) /\ log \in Seq(L) /\ Len(trees) = Len(log) + 1
      /\ n = Len(log) + 1 /\ Len(log) \in Nat
  BY DEF HistoryInv, HEAD
<1>2. PICK skip \in BOOLEAN :
         log' = Append(log, [op |-> op, src |-> src, dst |-> dst, skip |-> skip])
  BY DEF Commit
<1> DEFINE e == [op |-> op, src |-> src, dst |-> dst, skip |-> skip]
<1>3. e \in L /\ e.op = op /\ e.src = src /\ e.dst = dst /\ log' = Append(log, e)
  BY <1>2
<1>4. trees' = Append(trees, tree) /\ tree \in T
  BY DEF Commit
<1> HIDE DEF e, L, T
<1>5. /\ Len(log') = n /\ log' \in Seq(L) /\ log'[n] = e
      /\ \A c \in 1..(n - 1) : log'[c] = log[c]
  BY <1>1, <1>3
<1>6. /\ Len(trees') = n + 1 /\ trees' \in Seq(T) /\ trees'[n + 1] = tree
      /\ \A c \in 1..n : trees'[c] = trees[c]
  BY <1>1, <1>4
<1>7. \A c \in 0..(n - 1) : trees'[c + 1] = trees[c + 1]
  BY <1>1, <1>6
<1>8. trees'[n] = Tree /\ trees'[1] = trees[1]
  BY <1>1, <1>6 DEF Tree
<1> QED
  BY <1>1, <1>3, <1>5, <1>6, <1>7, <1>8 DEF L, T, HEAD

(* The nodes of a tree.                                                    *)
LEMMA NodesOf ==
    ASSUME NEW node \in NodeType
    PROVE  /\ node = Missing <=> node.type = "missing"
           /\ node.type \in {"missing", "file", "symlink"}
           /\ node.type = "file" => node.lines \in Seq(LineType)
           /\ node.type = "symlink" => node.to \in Paths
BY DEF NodeType, Missing

(* What the nodes of a tree are.                                           *)
LEMMA FileIsNode ==
    ASSUME NEW lines \in Seq(LineType)
    PROVE  File(lines) \in NodeType /\ File(lines).type = "file" /\ File(lines).lines = lines
BY DEF NodeType, File

LEMMA MissingIsNode == Missing \in NodeType
BY DEF NodeType

(* A commit leaves what is before it as it was, ...                        *)
LEMMA EarlierFollow ==
    ASSUME HistoryInv, NEW n, n = HEAD + 1,
           NEW op \in Ops, NEW src \in Paths, NEW dst \in Paths,
           NEW tree \in [Paths -> NodeType], Commit(op, src, dst, tree)
    PROVE  \A c \in 1..(n - 1) : Follows(c)'
<1>1. /\ n \in Nat \ {0}
      /\ \A c \in 1..(n - 1) : log'[c] = log[c]
      /\ \A c \in 0..(n - 1) : trees'[c + 1] = trees[c + 1]
  BY Committed
<1> SUFFICES ASSUME NEW c \in 1..(n - 1) PROVE Follows(c)'
  OBVIOUS
<1>2. c \in 0..(n - 1) /\ c - 1 \in 0..(n - 1) /\ c \in 1..Len(log) /\ c \in DOMAIN log
  BY <1>1 DEF HEAD, HistoryInv
<1>3. Follows(c)
  BY <1>2 DEF HistoryInv
<1>4. log'[c] = log[c] /\ \A p : Node(c, p)' = Node(c, p) /\ Node(c - 1, p)' = Node(c - 1, p)
  BY <1>1, <1>2, Zenon DEF Node
<1> DEFINE b == c - 1
<1> HIDE DEF b
<1>5. \A p : Node(b, p)' = Node(b, p)
  BY <1>4 DEF b
<1>6. \A p : /\ IsFile(c, p)' = IsFile(c, p) /\ IsFile(b, p)' = IsFile(b, p)
            /\ IsLink(c, p)' = IsLink(c, p)
  BY <1>4, <1>5, Zenon DEF IsFile, IsLink
<1>7. \A p : Lines(c, p)' = Lines(c, p) /\ Lines(b, p)' = Lines(b, p)
  BY <1>4, <1>5, <1>6, Zenon DEF Lines
<1>8. \A p : From(c, p)' = From(c, p) /\ From(b, p)' = From(b, p)
  BY <1>7, Zenon DEF From
<1>9. \A line : Fresh(line, c)' = Fresh(line, c)
  BY <1>4, Zenon DEF Fresh
<1>10. \A p : Wrote(c, p)' = Wrote(c, p)
  BY <1>4, <1>6, <1>8, <1>9, Zenon DEF Wrote, b
<1>11. \A o : Did(c, o)' = Did(c, o)
  BY <1>4, <1>6, <1>5, <1>10, Zenon DEF Did, b
<1> QED
  BY <1>3, <1>4, <1>11, Zenon DEF Follows

(* ... so the invariant is kept if the commit follows itself.              *)
LEMMA CommitKeeps ==
    ASSUME HistoryInv, NEW n, n = HEAD + 1,
           NEW op \in Ops, NEW src \in Paths, NEW dst \in Paths,
           NEW tree \in [Paths -> NodeType], Commit(op, src, dst, tree), Follows(n)'
    PROVE  HistoryInv'
<1>1. /\ n \in Nat \ {0} /\ HEAD' = n
      /\ trees' \in Seq([Paths -> NodeType])
      /\ log' \in Seq([op : Ops, src : Paths, dst : Paths, skip : BOOLEAN])
      /\ Len(trees') = Len(log') + 1 /\ trees'[1] = trees[1]
  BY Committed
<1>2. \A c \in 1..(n - 1) : Follows(c)'
  BY EarlierFollow
<1>3. DOMAIN log' = 1..n
  BY <1>1 DEF HEAD
<1>4. \A c \in 1..n : Follows(c)'
  <2> SUFFICES ASSUME NEW c \in 1..n PROVE Follows(c)'
    OBVIOUS
  <2>1. c = n \/ c \in 1..(n - 1)
    BY <1>1
  <2> QED
    BY <1>2, <2>1
<1> QED
  BY <1>1, <1>3, <1>4, Zenon DEF HistoryInv
(* The versions of a file after one edit are lines it had, or that the     *)
(* commit wrote.                                                           *)
EditOf(old, new, n, p) ==
    /\ new \in Seq(LineType)
    /\ \A i \in 1..Len(new) : \/ \E j \in 1..Len(old) : new[i] = old[j]
                              \/ new[i].by = n /\ new[i].at = p

LEMMA EditsOf ==
    ASSUME NEW lines \in Seq(LineType), NEW p \in Paths, HEAD \in Nat
    PROVE  /\ \A new \in Rewritten(lines, p) : EditOf(lines, new, NextCommit, p)
           /\ \A new \in Edited(lines, p) : EditOf(lines, new, NextCommit, p)
<1> DEFINE n == NextCommit
           Ok(l) == EditOf(lines, l, n, p)
<1>1. n \in Nat /\ Len(lines) \in Nat /\ DOMAIN lines = 1..Len(lines)
      /\ \A i \in 1..Len(lines) : lines[i] \in LineType
  BY DEF NextCommit, HEAD
<1>2. ASSUME NEW name \in Names, NEW e \in Exprs
      PROVE  /\ Line(name, e, n, p) \in LineType
             /\ Line(name, e, n, p).by = n /\ Line(name, e, n, p).at = p
  BY <1>1 DEF Line, LineType
<1> HIDE DEF n
<1>3. ASSUME NEW i \in 1..Len(lines), NEW e \in Exprs
      PROVE  Ok([lines EXCEPT ![i] = Line(@.name, e, n, p)])
  <2> DEFINE l == Line(lines[i].name, e, n, p)
  <2>1. lines[i].name \in Names
    BY <1>1 DEF LineType
  <2>2. l \in LineType /\ l.by = n /\ l.at = p
    BY <1>2, <2>1
  <2> HIDE DEF l
  <2>3. EditOf(lines, [lines EXCEPT ![i] = l], n, p)
    BY <1>1, <2>2 DEF EditOf
  <2> QED
    BY <2>3 DEF l
<1>4. ASSUME NEW i \in 1..Len(lines) PROVE Ok(RemoveAt(lines, i))
  <2> DEFINE a == SubSeq(lines, 1, i - 1)
             b == SubSeq(lines, i + 1, Len(lines))
  <2>1. /\ a \in Seq(LineType) /\ Len(a) = i - 1
        /\ \A k \in 1..Len(a) : a[k] = lines[k]
    BY <1>1
  <2>2. /\ b \in Seq(LineType) /\ Len(b) = Len(lines) - i
        /\ \A k \in 1..Len(b) : b[k] = lines[k + i]
    <3>1. \A k \in (i + 1)..Len(lines) : lines[k] \in LineType
      BY <1>1
    <3>2. /\ b \in Seq(LineType)
          /\ Len(b) = IF i + 1 <= Len(lines) THEN (Len(lines) - (i + 1)) + 1 ELSE 0
          /\ \A k \in 1..((Len(lines) - (i + 1)) + 1) : b[k] = lines[((i + 1) + k) - 1]
      BY <1>1, <3>1, SubSeqProperties
    <3> HIDE DEF b
    <3>3. Len(b) = Len(lines) - i
      <4>1. Len(b) = IF i + 1 <= Len(lines) THEN (Len(lines) - (i + 1)) + 1 ELSE 0
        BY <3>2
      <4>2. i \in 1..Len(lines) /\ Len(lines) \in Nat
        BY <1>1
      <4>3. CASE i + 1 <= Len(lines)
        BY <4>1, <4>2, <4>3
      <4>4. CASE ~(i + 1 <= Len(lines))
        BY <4>1, <4>2, <4>4
      <4> QED
        BY <4>3, <4>4
    <3>4. ASSUME NEW k \in 1..Len(b) PROVE b[k] = lines[k + i]
      <4>1. k \in 1..((Len(lines) - (i + 1)) + 1) /\ ((i + 1) + k) - 1 = k + i
        BY <1>1, <3>3
      <4> QED
        BY <3>2, <4>1
    <3> QED
      BY <3>2, <3>3, <3>4
  <2> HIDE DEF a, b
  <2> DEFINE s == a \o b
  <2>3. s \in Seq(LineType) /\ Len(s) = Len(lines) - 1
    <3>1. s \in Seq(LineType) /\ Len(s) = Len(a) + Len(b)
      BY <2>1, <2>2, ConcatProperties
    <3> HIDE DEF s
    <3> QED
      BY <1>1, <2>1, <2>2, <3>1
  <2>4. ASSUME NEW k \in 1..Len(s) PROVE \E j \in 1..Len(lines) : s[k] = lines[j]
    <3>1. CASE k <= Len(a)
      <4>1. s[k] = a[k] /\ k \in 1..Len(a) /\ k \in 1..Len(lines)
        BY <1>1, <2>1, <2>2, <2>3, <3>1
      <4> QED
        BY <2>1, <4>1
    <3>2. CASE ~(k <= Len(a))
      <4>1. s[k] = b[k - Len(a)] /\ k - Len(a) \in 1..Len(b) /\ (k - Len(a)) + i \in 1..Len(lines)
        BY <1>1, <2>1, <2>2, <2>3, <3>2
      <4> QED
        BY <2>2, <4>1
    <3> QED
      BY <3>1, <3>2
  <2> HIDE DEF s
  <2>5. EditOf(lines, s, n, p)
    BY <2>3, <2>4 DEF EditOf
  <2> QED
    BY <2>5 DEF s, a, b, RemoveAt
<1>5. ASSUME NEW i \in 1..(Len(lines) + 1), NEW l \in LineType, l.by = n, l.at = p
      PROVE  Ok(InsertAt(lines, i, l))
  <2> DEFINE a == SubSeq(lines, 1, i - 1)
             b == SubSeq(lines, i, Len(lines))
             m == <<l>>
  <2>1. /\ a \in Seq(LineType) /\ Len(a) = i - 1
        /\ \A k \in 1..Len(a) : a[k] = lines[k]
    BY <1>1
  <2>2. /\ b \in Seq(LineType) /\ Len(b) = (Len(lines) - i) + 1
        /\ \A k \in 1..Len(b) : b[k] = lines[(k + i) - 1]
    BY <1>1
  <2>3. m \in Seq(LineType) /\ Len(m) = 1 /\ m[1] = l
    OBVIOUS
  <2> HIDE DEF a, b, m
  <2> DEFINE s == a \o m \o b
  <2>4. s \in Seq(LineType) /\ Len(s) = Len(lines) + 1
    <3> DEFINE am == a \o m
    <3>1. am \in Seq(LineType) /\ Len(am) = Len(a) + Len(m)
      BY <2>1, <2>3, ConcatProperties
    <3> HIDE DEF am
    <3>2. am \o b \in Seq(LineType) /\ Len(am \o b) = Len(am) + Len(b)
      BY <2>2, <3>1, ConcatProperties
    <3> DEFINE t == am \o b
    <3> HIDE DEF t
    <3>3. t \in Seq(LineType) /\ Len(t) = Len(lines) + 1
      BY <1>1, <2>1, <2>2, <2>3, <3>1, <3>2 DEF t
    <3> QED
      BY <3>3 DEF t, am
  <2>5. ASSUME NEW k \in 1..Len(s)
        PROVE  (\E j \in 1..Len(lines) : s[k] = lines[j]) \/ s[k] = l
    <3>1. CASE k <= Len(a)
      <4>1. s[k] = a[k] /\ k \in 1..Len(a) /\ k \in 1..Len(lines)
        BY <1>1, <2>1, <2>2, <2>3, <2>4, <3>1
      <4> QED
        BY <2>1, <4>1
    <3>2. CASE k = Len(a) + 1
      BY <1>1, <2>1, <2>2, <2>3, <2>4, <3>2
    <3>3. CASE k > Len(a) + 1
      <4> DEFINE j == (k - Len(a)) - 1
      <4>1. s[k] = b[j] /\ j \in 1..Len(b) /\ (j + i) - 1 \in 1..Len(lines)
        BY <1>1, <2>1, <2>2, <2>3, <2>4, <3>3
      <4> HIDE DEF j
      <4> QED
        BY <2>2, <4>1
    <3> QED
      BY <2>1, <2>4, <3>1, <3>2, <3>3
  <2> HIDE DEF s
  <2>6. EditOf(lines, s, n, p)
    BY <1>5, <2>4, <2>5 DEF EditOf
  <2> QED
    BY <2>6 DEF s, a, b, m, InsertAt
<1> HIDE DEF Ok
<1>6. \A new \in Rewritten(lines, p) : Ok(new)
  <2> SUFFICES ASSUME NEW new \in Rewritten(lines, p) PROVE Ok(new)
    OBVIOUS
  <2>1. \E i \in DOMAIN lines :
           new \in {[lines EXCEPT ![i] = Line(@.name, e, n, p)] : e \in Exprs \ {lines[i].expr}}
    BY DEF Rewritten, n
  <2>2. PICK i \in DOMAIN lines, e \in Exprs : new = [lines EXCEPT ![i] = Line(@.name, e, n, p)]
    BY <2>1
  <2> QED
    BY <1>1, <1>3, <2>2
<1>7. \A new \in Edited(lines, p) : Ok(new)
  <2> SUFFICES ASSUME NEW new \in Edited(lines, p), new \notin Rewritten(lines, p) PROVE Ok(new)
    BY <1>6
  <2>1. CASE new \in {RemoveAt(lines, i) : i \in DOMAIN lines}
    BY <1>1, <1>4, <2>1, Zenon
  <2>2. CASE new \in {InsertAt(lines, i, Line(name, e, n, p)) :
                        i \in 1..(Len(lines) + 1), name \in Names, e \in Exprs}
    <3>1. PICK i \in 1..(Len(lines) + 1), name \in Names, e \in Exprs :
             new = InsertAt(lines, i, Line(name, e, n, p))
      BY <2>2
    <3> DEFINE l == Line(name, e, n, p)
    <3>2. l \in LineType /\ l.by = n /\ l.at = p
      BY <1>2
    <3> HIDE DEF l
    <3>3. Ok(InsertAt(lines, i, l))
      BY <1>5, <3>2
    <3> QED
      BY <3>1, <3>3 DEF l
  <2>3. \/ new \in {RemoveAt(lines, i) : i \in DOMAIN lines}
        \/ new \in {InsertAt(lines, i, Line(name, e, n, p)) :
                        i \in 1..(Len(lines) + 1), name \in Names, e \in Exprs}
    BY DEF Edited, n
  <2> QED
    BY <2>1, <2>2, <2>3
<1> QED
  BY <1>6, <1>7 DEF Ok, n
(* The two trees a commit stands between.                                  *)
LEMMA NodesAround ==
    ASSUME HistoryInv, NEW n, n = HEAD + 1,
           NEW op \in Ops, NEW src \in Paths, NEW dst \in Paths,
           NEW tree \in [Paths -> NodeType], Commit(op, src, dst, tree)
    PROVE  /\ \A p : Node(n, p)' = tree[p]
           /\ \A p : Node(n - 1, p)' = Tree[p]
<1>1. n \in Nat \ {0} /\ trees'[n + 1] = tree /\ trees'[n] = Tree /\ (n - 1) + 1 = n
  BY Committed
<1> QED
  BY <1>1, Zenon DEF Node

LEMMA TreeIs ==
    ASSUME HistoryInv
    PROVE  /\ HEAD \in Nat /\ NextCommit = HEAD + 1 /\ Tree \in [Paths -> NodeType]
           /\ \A p : Node(HEAD, p) = Tree[p]
           /\ \A p \in Paths : Tree[p] \in NodeType
<1>1. /\ Len(log) \in Nat /\ Len(trees) = Len(log) + 1
      /\ \A i \in 1..Len(trees) : trees[i] \in [Paths -> NodeType]
  BY DEF HistoryInv
<1>2. Tree \in [Paths -> NodeType] /\ Tree = trees[Len(log) + 1]
  BY <1>1 DEF Tree
<1> QED
  BY <1>1, <1>2 DEF Node, HEAD, NextCommit

(* What a commit wrote: the edit it makes of a file.                       *)
LEMMA WritesEdit ==
    ASSUME HistoryInv, NEW n, n = HEAD + 1,
           NEW op \in Ops, NEW src \in Paths, NEW dst \in Paths,
           NEW tree \in [Paths -> NodeType], Commit(op, src, dst, tree),
           Tree[src] = Missing \/ Tree[src].type = "file",
           NEW old \in Seq(LineType),
           old = IF Tree[src].type = "file" THEN Tree[src].lines ELSE <<>>,
           NEW lines, EditOf(old, lines, n, dst), tree[dst] = File(lines)
    PROVE  Wrote(n, src)'
<1>1. \A p : Node(n, p)' = tree[p] /\ Node(n - 1, p)' = Tree[p]
  BY NodesAround
<1>2. log'[n].dst = dst
  BY Committed
<1>3. lines \in Seq(LineType) /\ File(lines).type = "file" /\ File(lines).lines = lines
  BY FileIsNode DEF EditOf
<1>4. IsFile(n, dst)'
  BY <1>1, <1>3, Zenon DEF IsFile
<1>5. Lines(n, dst)' = lines
  BY <1>1, <1>3, <1>4, Zenon DEF Lines
<1> DEFINE m == n - 1
<1> HIDE DEF m
<1>6. Node(m, src)' = Tree[src]
  BY <1>1 DEF m
<1>7. Lines(m, src)' = old
  <2>1. IsFile(m, src)' <=> Tree[src].type = "file"
    BY <1>6, Zenon DEF IsFile
  <2> QED
    BY <1>6, <2>1, Zenon DEF Lines
<1>8. DOMAIN lines = 1..Len(lines) /\ DOMAIN old = 1..Len(old)
  BY <1>3
<1>9. ASSUME NEW i \in 1..Len(lines) PROVE lines[i] \in From(m, src)' \/ Fresh(lines[i], n)'
  <2>1. CASE \E j \in 1..Len(old) : lines[i] = old[j]
    BY <1>7, <1>8, <2>1, Zenon DEF From
  <2>2. CASE lines[i].by = n /\ lines[i].at = dst
    BY <1>2, <2>2, Zenon DEF Fresh
  <2> QED
    BY <2>1, <2>2 DEF EditOf
<1>10. \A line \in From(n, dst)' : line \in From(m, src)' \/ Fresh(line, n)'
  BY <1>5, <1>8, <1>9, Zenon DEF From
<1> QED
  BY <1>2, <1>4, <1>10, Zenon DEF Wrote, m

(* Each action adds a commit that did what its line of the log says.       *)
LEMMA ModifyKeeps ==
    ASSUME HistoryInv, NEW p \in Paths, Modify(p)
    PROVE  HistoryInv'
<1> DEFINE n == HEAD + 1
<1>1. HEAD \in Nat /\ NextCommit = n /\ Tree \in [Paths -> NodeType]
      /\ Tree[p].type = "file" /\ Tree[p].lines \in Seq(LineType) /\ Tree[p] \in NodeType
  BY TreeIs, NodesOf, Zenon DEF Modify, IsFile
<1>2. PICK lines \in Edited(Tree[p].lines, p) :
         Commit("M", p, p, [Tree EXCEPT ![p] = File(lines)])
  BY DEF Modify
<1> DEFINE tree == [Tree EXCEPT ![p] = File(lines)]
           old == Tree[p].lines
<1>3. EditOf(old, lines, n, p)
  BY <1>1, EditsOf
<1>4. File(lines) \in NodeType
  BY <1>3, FileIsNode DEF EditOf
<1>5. /\ tree \in [Paths -> NodeType] /\ tree[p] = File(lines)
      /\ \A q \in Paths \ {p} : tree[q] = Tree[q]
  BY <1>1, <1>4
<1>6. Commit("M", p, p, tree) /\ "M" \in Ops
  BY <1>2 DEF Ops
<1>7. old \in Seq(LineType) /\ old = IF Tree[p].type = "file" THEN Tree[p].lines ELSE <<>>
  BY <1>1
<1>8. PICK k : k = n
  OBVIOUS
<1> HIDE DEF n, tree, old
<1>9. k = HEAD + 1 /\ EditOf(old, lines, k, p)
  BY <1>3, <1>8 DEF n
<1>10. Wrote(k, p)'
  BY <1>1, <1>5, <1>6, <1>7, <1>9, WritesEdit
<1>11. \A q : Node(k, q)' = tree[q] /\ Node(k - 1, q)' = Tree[q]
  BY <1>5, <1>6, <1>9, NodesAround
<1>12. log'[k].op = "M" /\ log'[k].src = p /\ log'[k].dst = p
  BY <1>5, <1>6, <1>9, Committed
<1> DEFINE m == k - 1
<1> HIDE DEF m
<1>13. IsFile(m, p)'
  BY <1>1, <1>11, Zenon DEF IsFile, m
<1>14. Did(k, "M")'
  BY <1>10, <1>12, <1>13 DEF Did, m
<1>15. Follows(k)'
  BY <1>5, <1>11, <1>12, <1>14, Zenon DEF Follows
<1> QED
  BY <1>5, <1>6, <1>9, <1>15, CommitKeeps

LEMMA AddKeeps ==
    ASSUME HistoryInv, NEW p \in Paths, Add(p)
    PROVE  HistoryInv'
<1> DEFINE n == HEAD + 1
<1>1. HEAD \in Nat /\ NextCommit = n /\ Tree \in [Paths -> NodeType] /\ Tree[p] = Missing
  BY TreeIs, Zenon DEF Add
<1>2. PICK name \in Names, e \in Exprs :
         Commit("A", p, p, [Tree EXCEPT ![p] = File(<<Line(name, e, NextCommit, p)>>)])
  BY DEF Add
<1> DEFINE lines == <<Line(name, e, n, p)>>
           tree == [Tree EXCEPT ![p] = File(lines)]
<1>3. EditOf(<<>>, lines, n, p)
  <2>1. Line(name, e, n, p) \in LineType /\ Line(name, e, n, p).by = n /\ Line(name, e, n, p).at = p
    BY <1>1 DEF Line, LineType
  <2> DEFINE l == Line(name, e, n, p)
  <2> HIDE DEF l
  <2>2. <<l>> \in Seq(LineType) /\ Len(<<l>>) = 1 /\ <<l>>[1] = l
    BY <2>1 DEF l
  <2> QED
    BY <2>1, <2>2 DEF EditOf, l
<1> HIDE DEF lines
<1>4. File(lines) \in NodeType
  BY <1>3, FileIsNode DEF EditOf
<1>5. /\ tree \in [Paths -> NodeType] /\ tree[p] = File(lines)
      /\ \A q \in Paths \ {p} : tree[q] = Tree[q]
  BY <1>1, <1>4
<1>6. Commit("A", p, p, tree) /\ "A" \in Ops
  BY <1>1, <1>2 DEF Ops, lines
<1>7. <<>> \in Seq(LineType) /\ <<>> = IF Tree[p].type = "file" THEN Tree[p].lines ELSE <<>>
  BY <1>1 DEF Missing
<1>8. PICK k : k = n
  OBVIOUS
<1> HIDE DEF n, tree
<1>9. k = HEAD + 1 /\ EditOf(<<>>, lines, k, p)
  BY <1>3, <1>8 DEF n
<1>10. Wrote(k, p)'
  BY <1>1, <1>5, <1>6, <1>7, <1>9, WritesEdit
<1>11. \A q : Node(k, q)' = tree[q] /\ Node(k - 1, q)' = Tree[q]
  BY <1>5, <1>6, <1>9, NodesAround
<1>12. log'[k].op = "A" /\ log'[k].src = p /\ log'[k].dst = p
  BY <1>5, <1>6, <1>9, Committed
<1>13. Did(k, "A")'
  BY <1>10, <1>12 DEF Did
<1>14. Follows(k)'
  BY <1>5, <1>11, <1>12, <1>13, Zenon DEF Follows
<1> QED
  BY <1>5, <1>6, <1>9, <1>14, CommitKeeps

LEMMA DeleteKeeps ==
    ASSUME HistoryInv, NEW p \in Paths, Delete(p)
    PROVE  HistoryInv'
<1>1. HEAD \in Nat /\ Tree \in [Paths -> NodeType]
  BY TreeIs
<1> DEFINE tree == [Tree EXCEPT ![p] = Missing]
<1>2. /\ tree \in [Paths -> NodeType] /\ tree[p] = Missing
      /\ \A q \in Paths \ {p} : tree[q] = Tree[q]
  BY <1>1, MissingIsNode
<1>3. Commit("D", p, p, tree) /\ "D" \in Ops
  BY DEF Ops, Delete
<1>4. PICK k : k = HEAD + 1
  OBVIOUS
<1> HIDE DEF tree
<1>5. \A q : Node(k, q)' = tree[q] /\ Node(k - 1, q)' = Tree[q]
  BY <1>2, <1>3, <1>4, NodesAround
<1>6. log'[k].op = "D" /\ log'[k].src = p /\ log'[k].dst = p
  BY <1>2, <1>3, <1>4, Committed
<1>7. Did(k, "D")'
  BY <1>2, <1>5, <1>6 DEF Did
<1>8. Follows(k)'
  BY <1>2, <1>5, <1>6, <1>7, Zenon DEF Follows
<1> QED
  BY <1>2, <1>3, <1>4, <1>8, CommitKeeps

LEMMA LinkKeeps ==
    ASSUME HistoryInv, NEW p \in Paths, NEW q \in Paths, Link(p, q)
    PROVE  HistoryInv'
<1> DEFINE n == HEAD + 1
           link == Symlink(q, n, p)
           tree == [Tree EXCEPT ![p] = link]
           op == IF Tree[p] = Missing THEN "A" ELSE "T"
<1>1. HEAD \in Nat /\ NextCommit = n /\ Tree \in [Paths -> NodeType]
  BY TreeIs
<1>2. link \in NodeType /\ link.type = "symlink"
  BY <1>1 DEF Symlink, NodeType
<1>3. Commit(op, p, p, tree) /\ op \in Ops /\ op \in {"A", "T"}
  BY <1>1 DEF Link, Ops
<1> HIDE DEF link, op
<1>4. /\ tree \in [Paths -> NodeType] /\ tree[p] = link
      /\ \A r \in Paths \ {p} : tree[r] = Tree[r]
  BY <1>1, <1>2
<1>5. PICK k : k = HEAD + 1
  OBVIOUS
<1>6. PICK o : o = op
  OBVIOUS
<1> HIDE DEF tree
<1>7. Commit(o, p, p, tree) /\ o \in Ops /\ o \in {"A", "T"}
  BY <1>3, <1>6
<1>8. \A r : Node(k, r)' = tree[r] /\ Node(k - 1, r)' = Tree[r]
  BY <1>4, <1>7, <1>5, NodesAround
<1>9. log'[k].op = o /\ log'[k].src = p /\ log'[k].dst = p
  BY <1>4, <1>7, <1>5, Committed
<1>10. IsLink(k, p)'
  BY <1>2, <1>4, <1>8, Zenon DEF IsLink
<1>11. Did(k, o)'
  <2>1. o # "M" /\ o # "R" /\ o # "D"
    BY <1>7
  <2> QED
    BY <1>7, <1>9, <1>10, <2>1 DEF Did
<1>12. Follows(k)'
  BY <1>4, <1>8, <1>9, <1>11, Zenon DEF Follows
<1> QED
  BY <1>4, <1>5, <1>7, <1>12, CommitKeeps

LEMMA RenameKeeps ==
    ASSUME HistoryInv, NEW p \in Paths, NEW q \in Paths, Rename(p, q)
    PROVE  HistoryInv'
<1> DEFINE n == HEAD + 1
           old == Tree[p].lines
<1>1. /\ HEAD \in Nat /\ NextCommit = n /\ Tree \in [Paths -> NodeType]
      /\ Tree[p].type = "file" /\ old \in Seq(LineType) /\ Tree[p] \in NodeType
      /\ Tree[q] = Missing /\ p # q
  <2>1. Tree[p].type = "file" /\ Tree[q] = Missing
    BY TreeIs, Zenon DEF Rename, IsFile
  <2> QED
    BY <2>1, TreeIs, NodesOf DEF Missing
<1>2. PICK lines \in {old} \cup IF Len(old) = 1 THEN {} ELSE Rewritten(old, q) :
         Commit("R", p, q, [Tree EXCEPT ![p] = Missing, ![q] = File(lines)])
  BY DEF Rename
<1> DEFINE tree == [Tree EXCEPT ![p] = Missing, ![q] = File(lines)]
<1>3. EditOf(old, lines, n, q)
  <2>1. EditOf(old, old, n, q)
    BY <1>1 DEF EditOf
  <2> QED
    BY <1>1, <1>2, <2>1, EditsOf
<1>4. File(lines) \in NodeType
  BY <1>3, FileIsNode DEF EditOf
<1>5. /\ tree \in [Paths -> NodeType] /\ tree[q] = File(lines) /\ tree[p] = Missing
      /\ \A r \in Paths \ {p, q} : tree[r] = Tree[r]
  BY <1>1, <1>4, MissingIsNode
<1>6. Commit("R", p, q, tree) /\ "R" \in Ops
  BY <1>2 DEF Ops
<1>7. old \in Seq(LineType) /\ old = IF Tree[p].type = "file" THEN Tree[p].lines ELSE <<>>
  BY <1>1
<1>8. PICK k : k = n
  OBVIOUS
<1> HIDE DEF n, tree, old
<1>9. k = HEAD + 1 /\ EditOf(old, lines, k, q)
  BY <1>3, <1>8 DEF n
<1>10. Wrote(k, p)'
  BY <1>1, <1>5, <1>6, <1>7, <1>9, WritesEdit
<1>11. \A r : Node(k, r)' = tree[r] /\ Node(k - 1, r)' = Tree[r]
  BY <1>5, <1>6, <1>9, NodesAround
<1>12. log'[k].op = "R" /\ log'[k].src = p /\ log'[k].dst = q
  BY <1>5, <1>6, <1>9, Committed
<1> DEFINE m == k - 1
<1> HIDE DEF m
<1>13. IsFile(m, p)' /\ Node(m, q)' = Missing
  BY <1>1, <1>11, Zenon DEF IsFile, m
<1>14. Did(k, "R")'
  BY <1>1, <1>5, <1>10, <1>11, <1>12, <1>13 DEF Did, m
<1>15. Follows(k)'
  BY <1>5, <1>11, <1>12, <1>14, Zenon DEF Follows
<1> QED
  BY <1>5, <1>6, <1>9, <1>15, CommitKeeps

(* Nothing was committed to a base.                                        *)
LEMMA InitHistory == Init => HistoryInv
<1> SUFFICES ASSUME Init PROVE HistoryInv
  OBVIOUS
<1>1. PICK t \in Bases : trees = <<t>>
  BY DEF Init
<1>2. t \in [Paths -> NodeType] /\ log = <<>>
  BY EntriesAssumption DEF Init
<1>3. trees \in Seq([Paths -> NodeType]) /\ Len(trees) = 1 /\ trees[1] \in Bases
  BY <1>1, <1>2
<1>4. log \in Seq([op : Ops, src : Paths, dst : Paths, skip : BOOLEAN]) /\ Len(log) = 0
      /\ DOMAIN log = {}
  BY <1>2
<1> QED
  BY <1>3, <1>4 DEF HistoryInv

(* Every commit leaves what its line of the log says: HistoryInv is an     *)
(* invariant.                                                              *)
THEOREM HistoryKept == Spec => []HistoryInv
<1>1. ASSUME HistoryInv, [Next]_vars PROVE HistoryInv'
  <2>1. CASE Next
    <3>1. PICK p \in Paths : \/ Modify(p) \/ Add(p) \/ Delete(p)
                             \/ \E q \in Paths : Rename(p, q) \/ Link(p, q)
      BY <2>1, Zenon DEF Next
    <3> QED
      BY <1>1, <3>1, ModifyKeeps, AddKeeps, DeleteKeeps, RenameKeeps, LinkKeeps
  <2>2. CASE UNCHANGED vars
    <3>1. trees' = trees /\ log' = log
      BY <2>2 DEF vars
    <3>2. \A c, p : Node(c, p)' = Node(c, p)
      BY <3>1, Zenon DEF Node
    <3>3. \A c, p : IsFile(c, p)' = IsFile(c, p) /\ IsLink(c, p)' = IsLink(c, p)
      BY <3>2, Zenon DEF IsFile, IsLink
    <3>4. \A c, p : Lines(c, p)' = Lines(c, p)
      BY <3>2, <3>3, Zenon DEF Lines
    <3>5. \A c, p : From(c, p)' = From(c, p)
      BY <3>4, Zenon DEF From
    <3>6. \A c, p : Wrote(c, p)' = Wrote(c, p)
      BY <3>1, <3>3, <3>5, Zenon DEF Wrote, Fresh
    <3>7. \A c, o : Did(c, o)' = Did(c, o)
      BY <3>1, <3>2, <3>3, <3>6, Zenon DEF Did
    <3>8. \A c : Follows(c)' = Follows(c)
      BY <3>1, <3>2, <3>7, Zenon DEF Follows
    <3> QED
      BY <1>1, <3>1, <3>8, Zenon DEF HistoryInv
  <2> QED
    BY <1>1, <2>1, <2>2
<1> QED
  BY <1>1, InitHistory, PTL DEF Spec
----------------------------------------------------------------------------
LEMMA HistoryTypes ==
    ASSUME HistoryInv
    PROVE  /\ HEAD \in Nat /\ DOMAIN log = 1..HEAD
           /\ \A c \in 0..HEAD, p \in Paths : Node(c, p) \in NodeType
           /\ \A c \in 1..HEAD : /\ log[c].op \in Ops
                                 /\ log[c].src \in Paths /\ log[c].dst \in Paths
<1>1. /\ Len(log) \in Nat /\ Len(trees) = Len(log) + 1 /\ DOMAIN log = 1..Len(log)
      /\ \A i \in 1..Len(trees) : trees[i] \in [Paths -> NodeType]
      /\ \A c \in 1..Len(log) : log[c] \in [op : Ops, src : Paths, dst : Paths, skip : BOOLEAN]
  <2> DEFINE L == [op : Ops, src : Paths, dst : Paths, skip : BOOLEAN]
             T == [Paths -> NodeType]
  <2>1. trees \in Seq(T) /\ log \in Seq(L) /\ Len(trees) = Len(log) + 1
    BY DEF HistoryInv
  <2> HIDE DEF L, T
  <2>2. /\ Len(log) \in Nat /\ Len(trees) = Len(log) + 1 /\ DOMAIN log = 1..Len(log)
        /\ \A i \in 1..Len(trees) : trees[i] \in T
        /\ \A c \in 1..Len(log) : log[c] \in L
    BY <2>1
  <2> QED
    BY <2>2 DEF L, T
<1>2. \A c \in 0..Len(log) : c + 1 \in 1..Len(trees)
  BY <1>1
<1>3. \A c \in 1..Len(log) : /\ log[c].op \in Ops
                             /\ log[c].src \in Paths /\ log[c].dst \in Paths
  BY <1>1
<1>4. \A c \in 0..Len(log), p \in Paths : Node(c, p) \in NodeType
  BY <1>1, <1>2 DEF Node
<1> QED
  BY <1>1, <1>3, <1>4 DEF HEAD

(* What one commit does to the nodes and to the lines in them.             *)
Changed(c, src, dst, op) ==
    /\ \A p \in Paths \ {src, dst} : Node(c, p) = Node(c - 1, p)
    /\ op # "R" => src = dst
    /\ op = "R" => /\ src # dst /\ IsFile(c, dst)
                   /\ IsFile(c - 1, src) /\ Node(c - 1, dst) = Missing
                   /\ Node(c, src) = Missing
    /\ op = "D" => Node(c, dst) = Missing
    /\ op # "D" => Node(c, dst) # Missing
    /\ \A line \in From(c, dst) :
          \/ Fresh(line, c)
          \/ (op # "R" /\ line \in From(c - 1, dst))
          \/ (op = "R" /\ line \in From(c - 1, src))

(* That is what each commit in the log did.                                *)
LEMMA CommitSays ==
    ASSUME HistoryInv, NEW c \in 1..HEAD
    PROVE  Changed(c, log[c].src, log[c].dst, log[c].op)
<1> DEFINE src == log[c].src
           dst == log[c].dst
           op == log[c].op
<1> SUFFICES Changed(c, src, dst, op)
  OBVIOUS
<1>1. op \in Ops /\ src \in Paths /\ dst \in Paths /\ c \in DOMAIN log
  BY HistoryTypes
<1>2. /\ \A p \in Paths \ {src, dst} : Node(c, p) = Node(c - 1, p)
      /\ Did(c, op)
  BY <1>1, Zenon DEF HistoryInv, Follows
<1>3. Missing.type = "missing"
  BY DEF Missing
<1>4. \A p : IsFile(c, p) \/ IsLink(c, p) => Node(c, p) # Missing
  BY <1>3 DEF IsFile, IsLink
<1>5. \A p : Node(c, p) = Missing \/ IsLink(c, p) => From(c, p) = {}
  <2> SUFFICES ASSUME NEW p, Node(c, p) = Missing \/ IsLink(c, p) PROVE From(c, p) = {}
    OBVIOUS
  <2>1. ~IsFile(c, p)
    BY <1>3 DEF IsFile, IsLink
  <2>2. Lines(c, p) = <<>>
    BY <2>1 DEF Lines
  <2> QED
    BY <2>2 DEF From
<1>6. CASE op = "M"
  <2>1. src = dst /\ Wrote(c, src)
    BY <1>2, <1>6, Zenon DEF Did
  <2>2. IsFile(c, dst) /\ \A line \in From(c, dst) : line \in From(c - 1, dst) \/ Fresh(line, c)
    BY <2>1, Zenon DEF Wrote
  <2>3. op # "R" /\ op # "D"
    BY <1>6
  <2> QED
    <3>1. Node(c, dst) # Missing
      BY <1>4, <2>2
    <3>2. \A line \in From(c, dst) :
             Fresh(line, c) \/ (op # "R" /\ line \in From(c - 1, dst))
      BY <2>2, <2>3
    <3> HIDE DEF op, src, dst
    <3> QED
      BY <1>2, <2>1, <2>3, <3>1, <3>2 DEF Changed
<1>7. CASE op = "R"
  <2>1. src # dst /\ IsFile(c - 1, src) /\ Node(c - 1, dst) = Missing
        /\ Node(c, src) = Missing /\ Wrote(c, src)
    BY <1>2, <1>7 DEF Did
  <2>2. IsFile(c, dst) /\ \A line \in From(c, dst) : line \in From(c - 1, src) \/ Fresh(line, c)
    BY <2>1, Zenon DEF Wrote
  <2>3. op # "D"
    BY <1>7
  <2> QED
    <3>1. Node(c, dst) # Missing
      BY <1>4, <2>2
    <3> HIDE DEF op, src, dst
    <3> QED
      BY <1>2, <1>7, <2>1, <2>2, <2>3, <3>1 DEF Changed
<1>8. CASE op = "D"
  <2>1. src = dst /\ Node(c, dst) = Missing
    BY <1>2, <1>8 DEF Did
  <2> QED
    BY <1>2, <1>5, <1>8, <2>1 DEF Changed
<1>9. CASE op \in {"A", "T"}
  <2>1. src = dst /\ (Wrote(c, dst) \/ IsLink(c, dst)) /\ op # "R" /\ op # "D"
    BY <1>2, <1>9 DEF Did
  <2>2. CASE Wrote(c, dst)
    <3>1. IsFile(c, dst) /\ \A line \in From(c, dst) : line \in From(c - 1, dst) \/ Fresh(line, c)
      BY <2>2, Zenon DEF Wrote
    <3> QED
      <4>1. Node(c, dst) # Missing
        BY <1>4, <3>1
      <4>2. \A line \in From(c, dst) :
               Fresh(line, c) \/ (op # "R" /\ line \in From(c - 1, dst))
        BY <2>1, <3>1
      <4> HIDE DEF op, src, dst
      <4> QED
        BY <1>2, <2>1, <4>1, <4>2 DEF Changed
  <2>3. CASE IsLink(c, dst)
    BY <1>2, <1>4, <1>5, <2>1, <2>3 DEF Changed
  <2> QED
    BY <2>1, <2>2, <2>3
<1> QED
  BY <1>1, <1>6, <1>7, <1>8, <1>9 DEF Ops

LEMMA LeastExists ==
    ASSUME NEW S, S \subseteq Nat, S # {}
    PROVE  \E x \in S : \A y \in S : x <= y
<1> DEFINE T == {0..x : x \in S}
<1>1. T \subseteq FiniteSubsetsOf(Nat)
  <2> SUFFICES ASSUME NEW x \in S PROVE 0..x \in FiniteSubsetsOf(Nat)
    OBVIOUS
  <2>1. x \in Nat
    OBVIOUS
  <2>2. 0..x \subseteq Nat /\ IsFiniteSet(0..x)
    BY <2>1, FS_Interval
  <2> QED
    BY <2>2 DEF FiniteSubsetsOf
<1>2. PICK t \in T : \A u \in T : ~(<<u, t>> \in StrictSubsetOrdering(Nat))
  <2>1. T # {}
    OBVIOUS
  <2> HIDE DEF T
  <2> QED
    BY <1>1, <2>1, WFMin, FS_StrictSubsetOrderingWellFounded
<1>3. PICK x \in S : t = 0..x
  OBVIOUS
<1>4. ASSUME NEW y \in S, y < x PROVE FALSE
  <2>1. x \in Nat /\ y \in Nat
    OBVIOUS
  <2>2. 0..y \subseteq 0..x /\ 0..x \subseteq Nat /\ x \in 0..x /\ x \notin 0..y
    BY <1>4, <2>1
  <2>3. <<0..y, 0..x>> \in StrictSubsetOrdering(Nat)
    BY <2>2 DEF StrictSubsetOrdering
  <2>4. 0..y \in T
    OBVIOUS
  <2> HIDE DEF T
  <2> QED
    BY <1>2, <1>3, <2>3, <2>4
<1>5. \A y \in S : x <= y
  <2>1. \A z \in S : z \in Nat
    OBVIOUS
  <2> QED
    BY <1>4, <2>1
<1> QED
  BY <1>5

(* Induction on the naturals, for a set.                                   *)
LEMMA SetInduction ==
    ASSUME NEW S, 0 \in S, \A n \in Nat : n \in S => n + 1 \in S
    PROVE  Nat \subseteq S
<1> DEFINE U == Nat \ S
<1> SUFFICES ASSUME U # {} PROVE FALSE
  OBVIOUS
<1>1. PICK k \in U : \A y \in U : k <= y
  <2>1. U \subseteq Nat
    OBVIOUS
  <2> HIDE DEF U
  <2> QED
    BY <2>1, LeastExists
<1>2. k # 0 /\ k \in Nat
  OBVIOUS
<1>3. k - 1 \in Nat /\ ~(k <= k - 1) /\ (k - 1) + 1 = k
  BY <1>2
<1>4. k - 1 \in S
  BY <1>1, <1>3
<1> QED
  BY <1>3, <1>4

(* A line says who wrote it: nobody on the branch, or the commit whose     *)
(* path it was last written under.                                         *)
WrittenBy(line, n) ==
    line.by = 0 \/ (line.by \in 1..n /\ log[line.by].dst = line.at)

LEMMA LinesAreWritten ==
    ASSUME HistoryInv, NEW n \in 0..HEAD
    PROVE  \A p \in Paths : \A line \in From(n, p) : WrittenBy(line, n)
<1> DEFINE S == {k \in Nat : k <= HEAD =>
                    \A p \in Paths : \A line \in From(k, p) : WrittenBy(line, k)}
<1>1. HEAD \in Nat
  BY HistoryTypes
<1>2. 0 \in S
  <2>1. trees[1] \in Bases
    BY DEF HistoryInv
  <2>2. ASSUME NEW p \in Paths, NEW line \in From(0, p) PROVE line.by = 0
    <3>1. Node(0, p) = trees[1][p]
      BY DEF Node
    <3>2. CASE IsFile(0, p)
      <4>1. Lines(0, p) = trees[1][p].lines /\ trees[1][p].type = "file"
        BY <3>1, <3>2 DEF Lines, IsFile
      <4>2. PICK i \in DOMAIN Lines(0, p) : line = Lines(0, p)[i]
        BY DEF From
      <4> QED
        BY <2>1, <4>1, <4>2, EntriesAssumption
    <3>3. CASE ~IsFile(0, p)
      <4>1. Lines(0, p) = <<>>
        BY <3>3 DEF Lines
      <4> QED
        BY <4>1 DEF From
    <3> QED
      BY <3>2, <3>3
  <2> QED
    BY <2>2, Zenon DEF WrittenBy
<1>3. ASSUME NEW k \in Nat, k \in S PROVE k + 1 \in S
  <2> DEFINE c == k + 1
  <2> SUFFICES ASSUME c <= HEAD, NEW p \in Paths, NEW line \in From(c, p)
               PROVE  WrittenBy(line, c)
    OBVIOUS
  <2>1. c \in 1..HEAD /\ c - 1 = k /\ k <= HEAD
    BY <1>1
  <2>2. \A q \in Paths : \A l \in From(k, q) : WrittenBy(l, k)
    BY <1>3, <2>1
  <2>3. \A l : WrittenBy(l, k) => WrittenBy(l, c)
    BY <2>1 DEF WrittenBy
  <2>4. line \in From(c, p)
    OBVIOUS
  <2>5. c \in Nat /\ c \in 1..c
    OBVIOUS
  <2> HIDE DEF c
  <2>6. log[c].src \in Paths /\ log[c].dst \in Paths
    BY <2>1, HistoryTypes
  <2>7. CASE p = log[c].dst
    <3>1. Fresh(line, c) \/ line \in From(c - 1, log[c].dst) \/ line \in From(c - 1, log[c].src)
      BY <2>1, <2>4, <2>7, CommitSays DEF Changed
    <3>2. Fresh(line, c) => WrittenBy(line, c)
      BY <2>5 DEF Fresh, WrittenBy
    <3> QED
      BY <2>1, <2>2, <2>3, <2>6, <3>1, <3>2
  <2>8. CASE p = log[c].src /\ p # log[c].dst
    <3>1. Node(c, p) = Missing
      BY <2>1, <2>8, CommitSays DEF Changed
    <3>2. ~IsFile(c, p)
      BY <3>1 DEF IsFile, Missing
    <3>3. From(c, p) = {}
      BY <3>2 DEF From, Lines
    <3> QED
      BY <2>4, <3>3
  <2>9. CASE p # log[c].src /\ p # log[c].dst
    <3>1. Node(c, p) = Node(k, p)
      BY <2>1, <2>9, CommitSays DEF Changed
    <3>2. From(c, p) = From(k, p)
      BY <3>1, Zenon DEF From, Lines, IsFile
    <3> QED
      BY <2>2, <2>3, <2>4, <3>2, Zenon
  <2> QED
    BY <2>7, <2>8, <2>9
<1> HIDE DEF S
<1>4. n \in S
  BY <1>1, <1>2, <1>3, SetInduction
<1> QED
  BY <1>1, <1>4 DEF S

(* What no commit names as its path stays, or is renamed away.             *)
LEMMA StaysOrMoves ==
    ASSUME HistoryInv, NEW p \in Paths, NEW m \in 0..HEAD, NEW n \in m..HEAD,
           \A c \in (m + 1)..n : log[c].dst # p
    PROVE  \/ Node(n, p) = Node(m, p)
           \/ /\ Node(n, p) = Missing
              /\ \E r \in (m + 1)..n : log[r].op = "R" /\ log[r].src = p
<1> DEFINE Says(k) == \/ Node(k, p) = Node(m, p)
                      \/ /\ Node(k, p) = Missing
                         /\ \E r \in (m + 1)..k : log[r].op = "R" /\ log[r].src = p
           S == {i \in Nat : m + i <= n => Says(m + i)}
<1>1. HEAD \in Nat /\ m \in Nat /\ n \in Nat /\ m <= n /\ n <= HEAD
  BY HistoryTypes
<1>2. 0 \in S
  <2>1. m + 0 = m
    BY <1>1
  <2> QED
    BY <2>1
<1>3. ASSUME NEW i \in Nat, i \in S PROVE i + 1 \in S
  <2> SUFFICES ASSUME m + (i + 1) <= n PROVE Says(m + (i + 1))
    OBVIOUS
  <2> DEFINE k == m + i
             c == m + (i + 1)
  <2>1. c \in 1..HEAD /\ c - 1 = k /\ k <= n /\ c \in (m + 1)..n /\ c \in (m + 1)..c
        /\ (m + 1)..k \subseteq (m + 1)..c
    BY <1>1
  <2>2. Says(k)
    BY <1>3, <2>1
  <2> HIDE DEF k, c
  <2>3. log[c].dst # p
    BY <2>1
  <2>4. CASE p # log[c].src
    <3>1. Node(c, p) = Node(k, p)
      BY <2>1, <2>3, <2>4, CommitSays DEF Changed
    <3> QED
      BY <2>1, <2>2, <3>1 DEF c
  <2>5. CASE p = log[c].src
    <3>1. log[c].op = "R" /\ Node(c, p) = Missing
      BY <2>1, <2>3, <2>5, CommitSays DEF Changed
    <3> QED
      BY <2>1, <2>5, <3>1 DEF c
  <2> QED
    BY <2>4, <2>5
<1> HIDE DEF S
<1>4. n - m \in Nat /\ m + (n - m) = n
  BY <1>1
<1>5. n - m \in S
  BY <1>2, <1>3, <1>4, SetInduction
<1> QED
  BY <1>4, <1>5 DEF S
----------------------------------------------------------------------------
(* What pathCommits of GitBlameFinder holds after each of m commits.       *)
TrackedUpTo(f, m) ==
    f = [n \in 0..m |-> IF n = 0 THEN [p \in Paths |-> {}] ELSE Track(f[n - 1], n)]

(* The recursion of PathCommits has a solution, ...                        *)
LEMMA TrackedUpToExist ==
    ASSUME NEW m \in Nat
    PROVE  \E f : TrackedUpTo(f, m)
<1> DEFINE T == {k \in Nat : \E f : TrackedUpTo(f, k)}
           zero == [p \in Paths |-> {}]
<1>1. 0 \in T
  <2>1. TrackedUpTo([n \in 0..0 |-> zero], 0)
    BY DEF TrackedUpTo
  <2> QED
    BY <2>1
<1>2. ASSUME NEW k \in Nat, k \in T PROVE k + 1 \in T
  <2>1. PICK f : TrackedUpTo(f, k)
    BY <1>2
  <2> DEFINE next == Track(f[k], k + 1)
             h == [n \in 0..(k + 1) |-> IF n = k + 1 THEN next ELSE f[n]]
  <2> HIDE DEF next, zero
  <2>2. ASSUME NEW n \in 0..(k + 1)
        PROVE  h[n] = IF n = 0 THEN zero ELSE Track(h[n - 1], n)
    <3>1. CASE n = k + 1
      <4>1. n # 0 /\ n - 1 = k /\ h[n] = next /\ h[k] = f[k]
        BY <3>1
      <4> HIDE DEF h
      <4> QED
        BY <3>1, <4>1 DEF next
    <3>2. CASE n = 0
      <4>1. h[n] = f[n]
        BY <3>2
      <4>2. f[n] = zero
        BY <2>1, <3>2 DEF TrackedUpTo, zero
      <4> QED
        BY <3>2, <4>1, <4>2
    <3>3. CASE n # k + 1 /\ n # 0
      <4>1. n \in 0..k /\ h[n] = f[n] /\ h[n - 1] = f[n - 1]
        BY <3>3
      <4>2. f[n] = Track(f[n - 1], n)
        BY <2>1, <3>3, <4>1, Zenon DEF TrackedUpTo
      <4> HIDE DEF h
      <4> QED
        BY <3>3, <4>1, <4>2
    <3> QED
      BY <3>1, <3>2, <3>3
  <2>3. h = [n \in 0..(k + 1) |-> IF n = 0 THEN zero ELSE Track(h[n - 1], n)]
    BY <2>2, Zenon
  <2> HIDE DEF h
  <2> QED
    BY <2>3 DEF TrackedUpTo, zero
<1> HIDE DEF T
<1>3. m \in T
  BY <1>1, <1>2, SetInduction
<1> QED
  BY <1>3 DEF T

(* One line of the log in the loop of GitBlameFinder.Find.                 *)
TrackSays(paths, next, src, dst, op, c) ==
    /\ \A p \in Paths \ {src, dst} : next[p] = paths[p]
    /\ dst \notin Allowed => next = paths
    /\ dst \in Allowed /\ op = "D" => next[src] = {}
    /\ dst \in Allowed /\ op = "R" =>
          next[dst] = paths[dst] \cup paths[src] \cup {c} /\ next[src] = {}
    /\ dst \in Allowed /\ op # "D" /\ op # "R" => next[dst] = paths[dst] \cup {c}

LEMMA TrackSteps ==
    ASSUME HistoryInv, NEW c \in 1..HEAD, NEW D, NEW paths \in [Paths -> SUBSET D], c \in D
    PROVE  /\ Track(paths, c) \in [Paths -> SUBSET D]
           /\ TrackSays(paths, Track(paths, c), log[c].src, log[c].dst, log[c].op, c)
<1> DEFINE src == log[c].src
           dst == log[c].dst
           op == log[c].op
           next == Track(paths, c)
<1>1. src \in Paths /\ dst \in Paths /\ (op = "R" => src # dst) /\ (op # "R" => src = dst)
  BY HistoryTypes, CommitSays DEF Changed
<1>2. next = CASE dst \notin Allowed -> paths
               [] dst \in Allowed /\ op = "D" -> [paths EXCEPT ![src] = {}]
               [] dst \in Allowed /\ op = "R" ->
                     [paths EXCEPT ![dst] = @ \cup paths[src] \cup {c}, ![src] = {}]
               [] OTHER -> [paths EXCEPT ![dst] = @ \cup {c}]
  BY DEF Track
<1> HIDE DEF next, src, dst, op
<1> SUFFICES next \in [Paths -> SUBSET D] /\ TrackSays(paths, next, src, dst, op, c)
  BY DEF next, src, dst, op
<1>3. CASE dst \notin Allowed
  <2>1. next = paths
    BY <1>2, <1>3
  <2> QED
    BY <1>3, <2>1 DEF TrackSays
<1>4. CASE dst \in Allowed /\ op = "D"
  <2>1. next = [paths EXCEPT ![src] = {}]
    BY <1>2, <1>4
  <2>2. next \in [Paths -> SUBSET D] /\ next[src] = {} /\ \A p \in Paths \ {src} : next[p] = paths[p]
    BY <1>1, <2>1
  <2> QED
    BY <1>4, <2>2 DEF TrackSays
<1>5. CASE dst \in Allowed /\ op = "R"
  <2> DEFINE all == paths[dst] \cup paths[src] \cup {c}
  <2>1. next = [paths EXCEPT ![dst] = all, ![src] = {}]
    BY <1>2, <1>5
  <2>2. all \in SUBSET D
    BY <1>1
  <2> HIDE DEF all
  <2>3. /\ next \in [Paths -> SUBSET D] /\ next[src] = {} /\ next[dst] = all
        /\ \A p \in Paths \ {src, dst} : next[p] = paths[p]
    BY <1>1, <1>5, <2>1, <2>2
  <2> QED
    BY <1>5, <2>3 DEF TrackSays, all
<1>6. CASE dst \in Allowed /\ op # "D" /\ op # "R"
  <2> DEFINE all == paths[dst] \cup {c}
  <2>1. next = [paths EXCEPT ![dst] = all]
    BY <1>2, <1>6
  <2>2. all \in SUBSET D
    BY <1>1
  <2> HIDE DEF all
  <2>3. /\ next \in [Paths -> SUBSET D] /\ next[dst] = all
        /\ \A p \in Paths \ {dst} : next[p] = paths[p]
    BY <1>1, <1>6, <2>1, <2>2
  <2> QED
    BY <1>6, <2>3 DEF TrackSays, all
<1> QED
  BY <1>3, <1>4, <1>5, <1>6

(* What is owed after n commits: a path that is gone was renamed out, and  *)
(* so was the file of a line whose commit is not owed.                     *)
RenamedOutAfter(b, n) == \E c \in (b + 1)..n : RenamedOut(c)
Owed(paths, p, line, n) ==
    (p \in Allowed /\ line.by \in paths[p]) \/ RenamedOutAfter(line.by, n)
TrackedRight(paths, n) ==
    /\ paths \in [Paths -> SUBSET (1..n)]
    /\ \A p \in Paths : paths[p] # {} => p \in Allowed
    /\ \A p \in Paths : paths[p] # {} /\ Node(n, p) = Missing => RenamedOutAfter(0, n)
    /\ \A p \in Paths : \A line \in From(n, p) :
          line.by > 0 /\ line.at \in Allowed => Owed(paths, p, line, n)

(* Each line of the log keeps what is owed right, ...                      *)
LEMMA TrackKeepsRight ==
    ASSUME HistoryInv, NEW n \in Nat, n + 1 <= HEAD, NEW paths, TrackedRight(paths, n)
    PROVE  TrackedRight(Track(paths, n + 1), n + 1)
<1> DEFINE c == n + 1
           next == Track(paths, c)
           src == log[c].src
           dst == log[c].dst
           op == log[c].op
<1>1. /\ c \in 1..HEAD /\ c - 1 = n /\ c \in 1..c /\ c \in Nat /\ 1..n \subseteq 1..c
      /\ \A b \in 0..n : c \in (b + 1)..c /\ (b + 1)..n \subseteq (b + 1)..c
      /\ n \in 0..HEAD /\ c \in 0..HEAD /\ 0 \in 0..n
  BY HistoryTypes
<1>2. /\ paths \in [Paths -> SUBSET (1..n)]
      /\ \A p \in Paths : paths[p] # {} => p \in Allowed
      /\ \A p \in Paths : paths[p] # {} /\ Node(n, p) = Missing => RenamedOutAfter(0, n)
      /\ \A p \in Paths : \A line \in From(n, p) :
            line.by > 0 /\ line.at \in Allowed => Owed(paths, p, line, n)
  BY DEF TrackedRight
<1> HIDE DEF c
<1>3. paths \in [Paths -> SUBSET (1..c)]
  BY <1>1, <1>2
<1>4. next \in [Paths -> SUBSET (1..c)] /\ TrackSays(paths, next, src, dst, op, c)
  BY <1>1, <1>3, TrackSteps
<1>5. src \in Paths /\ dst \in Paths
  BY <1>1, HistoryTypes
<1>6. Changed(c, src, dst, op)
  BY <1>1, CommitSays
<1>7. \A b \in 0..n : RenamedOutAfter(b, n) => RenamedOutAfter(b, c)
  BY <1>1 DEF RenamedOutAfter
<1>8. op = "R" /\ src \in Allowed /\ dst \notin Allowed => \A b \in 0..n : RenamedOutAfter(b, c)
  BY <1>1 DEF RenamedOutAfter, RenamedOut
<1> HIDE DEF next, src, dst, op
<1>9. ASSUME NEW p \in Paths, next[p] # {} PROVE p \in Allowed
  BY <1>2, <1>4, <1>5, <1>6, <1>9 DEF TrackSays, Changed
<1>10. ASSUME NEW p \in Paths, next[p] # {}, Node(c, p) = Missing PROVE RenamedOutAfter(0, c)
  <2>1. CASE p # src /\ p # dst
    <3>1. next[p] = paths[p] /\ Node(c, p) = Node(n, p)
      BY <1>1, <1>4, <1>6, <2>1 DEF TrackSays, Changed
    <3> QED
      BY <1>1, <1>2, <1>7, <1>10, <3>1
  <2>2. CASE p = dst
    <3>1. op = "D" /\ src = dst
      BY <1>6, <1>10, <2>2 DEF Changed
    <3>2. dst \notin Allowed
      BY <1>4, <1>10, <2>2, <3>1 DEF TrackSays
    <3> QED
      BY <1>9, <1>10, <2>2, <3>2
  <2>3. CASE p = src /\ p # dst
    <3>1. op = "R" /\ src \in Allowed
      BY <1>6, <1>9, <1>10, <2>3 DEF Changed
    <3>2. dst \notin Allowed
      BY <1>4, <1>10, <2>3, <3>1 DEF TrackSays
    <3> QED
      BY <1>1, <1>8, <3>1, <3>2
  <2> QED
    BY <2>1, <2>2, <2>3
<1>11. ASSUME NEW p \in Paths, NEW line \in From(c, p), line.by > 0, line.at \in Allowed
       PROVE  Owed(next, p, line, c)
  <2>1. ASSUME NEW q \in Paths, line \in From(n, q), ~RenamedOutAfter(line.by, c)
        PROVE  q \in Allowed /\ line.by \in paths[q] /\ line.by \in 0..n
    <3>1. WrittenBy(line, n)
      BY <1>1, <2>1, LinesAreWritten
    <3>2. line.by \in 0..n
      BY <1>1, <3>1 DEF WrittenBy
    <3>3. ~RenamedOutAfter(line.by, n)
      BY <1>7, <2>1, <3>2
    <3> QED
      BY <1>2, <1>11, <2>1, <3>2, <3>3 DEF Owed
  <2> SUFFICES ASSUME ~RenamedOutAfter(line.by, c)
               PROVE  p \in Allowed /\ line.by \in next[p]
    BY DEF Owed
  <2>2. CASE p # src /\ p # dst
    <3>1. next[p] = paths[p] /\ Node(c, p) = Node(n, p)
      BY <1>1, <1>4, <1>6, <2>2 DEF TrackSays, Changed
    <3>2. line \in From(n, p)
      BY <1>11, <3>1, Zenon DEF From, Lines, IsFile
    <3> QED
      BY <2>1, <3>1, <3>2
  <2>3. CASE p = src /\ p # dst
    <3>1. Node(c, p) = Missing
      BY <1>6, <2>3 DEF Changed
    <3>2. ~IsFile(c, p)
      BY <3>1 DEF IsFile, Missing
    <3>3. From(c, p) = {}
      BY <3>2 DEF From, Lines
    <3> QED
      BY <1>11, <3>3
  <2>4. CASE p = dst
    <3>1. op # "D"
      <4> SUFFICES ASSUME op = "D" PROVE FALSE
        OBVIOUS
      <4>1. Node(c, p) = Missing
        BY <1>6, <2>4 DEF Changed
      <4>2. ~IsFile(c, p)
        BY <4>1 DEF IsFile, Missing
      <4>3. From(c, p) = {}
        BY <4>2 DEF From, Lines
      <4> QED
        BY <1>11, <4>3
    <3>2. CASE Fresh(line, c)
      <4>1. line.by = c /\ dst \in Allowed
        BY <1>11, <3>2 DEF Fresh, dst
      <4>2. c \in next[dst]
        BY <1>4, <3>1, <4>1 DEF TrackSays
      <4> QED
        BY <2>4, <4>1, <4>2
    <3>3. CASE op # "R" /\ line \in From(c - 1, dst)
      <4>1. dst \in Allowed /\ line.by \in paths[dst]
        BY <1>1, <1>5, <2>1, <3>3
      <4>2. next[dst] = paths[dst] \cup {c}
        BY <1>4, <3>1, <3>3, <4>1 DEF TrackSays
      <4> QED
        BY <2>4, <4>1, <4>2
    <3>4. CASE op = "R" /\ line \in From(c - 1, src)
      <4>1. src \in Allowed /\ line.by \in paths[src] /\ line.by \in 0..n
        BY <1>1, <1>5, <2>1, <3>4
      <4>2. dst \in Allowed
        BY <1>8, <3>4, <4>1
      <4>3. next[dst] = paths[dst] \cup paths[src] \cup {c}
        BY <1>4, <3>4, <4>2 DEF TrackSays
      <4> QED
        BY <2>4, <4>1, <4>2, <4>3
    <3> QED
      BY <1>6, <1>11, <2>4, <3>2, <3>3, <3>4 DEF Changed
  <2> QED
    BY <2>2, <2>3, <2>4
<1>12. TrackedRight(next, c)
  BY <1>4, <1>9, <1>10, <1>11, Zenon DEF TrackedRight
<1> QED
  BY <1>12 DEF next, c

(* ... so it is right at HEAD.                                             *)
LEMMA PathCommitsRight ==
    ASSUME HistoryInv
    PROVE  TrackedRight(PathCommits, HEAD)
<1> DEFINE m == Len(log)
           F == CHOOSE f : TrackedUpTo(f, m)
<1>1. m \in Nat /\ m = HEAD
  BY HistoryTypes DEF HEAD
<1>2. PathCommits = F[m]
  BY Zenon DEF PathCommits, TrackedUpTo
<1>3. \A n \in 0..m : F[n] = IF n = 0 THEN [p \in Paths |-> {}] ELSE Track(F[n - 1], n)
  <2>1. \E f : TrackedUpTo(f, m)
    BY <1>1, TrackedUpToExist
  <2>2. TrackedUpTo(F, m)
    BY <2>1, Zenon
  <2> HIDE DEF F, m
  <2> QED
    BY <2>2, Zenon DEF TrackedUpTo
<1> HIDE DEF F, m
<1> DEFINE S == {n \in Nat : n <= m => TrackedRight(F[n], n)}
<1>4. 0 \in S
  <2>1. F[0] = [p \in Paths |-> {}]
    BY <1>1, <1>3
  <2>2. ASSUME NEW p \in Paths, NEW line \in From(0, p) PROVE line.by = 0
    <3>1. 0 \in 0..HEAD /\ 1..0 = {}
      BY <1>1
    <3>2. WrittenBy(line, 0)
      BY <3>1, LinesAreWritten
    <3> QED
      BY <3>1, <3>2 DEF WrittenBy
  <2> QED
    BY <2>1, <2>2 DEF TrackedRight
<1>5. ASSUME NEW n \in Nat, n \in S PROVE n + 1 \in S
  <2> SUFFICES ASSUME n + 1 <= m PROVE TrackedRight(F[n + 1], n + 1)
    OBVIOUS
  <2>1. n + 1 \in 0..m /\ n + 1 # 0 /\ (n + 1) - 1 = n /\ n <= m
    BY <1>1
  <2>2. F[n + 1] = Track(F[n], n + 1)
    BY <1>3, <2>1
  <2>3. TrackedRight(F[n], n)
    BY <1>5, <2>1
  <2> QED
    BY <1>1, <2>2, <2>3, TrackKeepsRight
<1> HIDE DEF S
<1>6. m \in S
  BY <1>1, <1>4, <1>5, SetInduction
<1> QED
  BY <1>1, <1>2, <1>6 DEF S
----------------------------------------------------------------------------
IsEntry(e) ==
    e = [reported |-> e.reported, source |-> e.source, name |-> e.name,
         expr |-> e.expr, line |-> e.line, state |-> e.state, modified |-> e.modified]

(* What the fields of an entry are.                                        *)
LEMMA EntryFields ==
    ASSUME NEW reported, NEW source, NEW line, NEW i, NEW state, NEW modified
    PROVE  LET e == Entry(reported, source, line, i, state, modified) IN
           /\ IsEntry(e)
           /\ e.reported = reported /\ e.source = source /\ e.line = i
           /\ e.name = line.name /\ e.expr = line.expr
           /\ e.state = state /\ e.modified = modified
BY DEF Entry, IsEntry

(* addSymlinkedEntries adds nothing that looks like an entry of a file,    *)
(* and drops none.                                                         *)
LEMMA LinksAddNoFile ==
    ASSUME NEW entries, \A x \in entries : IsEntry(x), NEW p, ~IsLink(HEAD, p), NEW i
    PROVE  \A e : Own(p, i, e) => (e \in addSymlinkedEntries(entries) <=> e \in entries)
<1> SUFFICES ASSUME NEW e, Own(p, i, e), e \in addSymlinkedEntries(entries), e \notin entries
             PROVE  FALSE
  BY DEF addSymlinkedEntries
<1>1. PICK q \in Links : e \in symlinked(entries, q)
  BY DEF addSymlinkedEntries
<1>2. PICK x \in entries : e = [x EXCEPT !.source = q, !.state = "unknown"]
  BY <1>1 DEF symlinked
<1>3. IsLink(HEAD, q) /\ e.source = p
  BY DEF Links, Own
<1>4. e.source = q
  BY <1>2 DEF IsEntry
<1> QED
  BY <1>3, <1>4

(* A finder that does not fail and is not told to skip has entries.        *)
LEMMA BlameFinds ==
    ASSUME ~GitBlameFinder.failed, ~Skipped
    PROVE  GitBlameFinder.entries = addSymlinkedEntries(
              UNION {BlameEntriesOf(p) : p \in {q \in Paths : PathCommits[q] # {}}})
<1> DEFINE all == UNION {BlameEntriesOf(p) : p \in {q \in Paths : PathCommits[q] # {}}}
           tooMany == MaxCommits > 0 /\ Len(log) > MaxCommits
           gone == \E p \in {q \in Paths : PathCommits[q] # {}} : Node(HEAD, p) = Missing
<1>1. ~\E c \in DOMAIN log : log[c].skip /\ log[c].dst \in Allowed
  BY DEF Skipped
<1>2. GitBlameFinder = IF log = <<>> \/ tooMany THEN Failed
                       ELSE IF gone THEN Failed ELSE Finish(all)
  BY <1>1 DEF GitBlameFinder
<1>3. Failed.failed
  BY DEF Failed
<1> HIDE DEF all, gone, tooMany
<1>4. GitBlameFinder = Finish(all) /\ ~Dangling
  BY <1>2, <1>3 DEF Finish
<1>5. GitBlameFinder = Found(addSymlinkedEntries(all))
  BY <1>4 DEF Finish
<1> QED
  BY <1>5 DEF Found, all

LEMMA BranchFinds ==
    ASSUME ~GitBranchFinder.failed, ~Skipped
    PROVE  GitBranchFinder.entries = addSymlinkedEntries(
              UNION {EntriesOf(ch) : ch \in {x \in Changes : x.after \in Allowed}})
<1> DEFINE all == UNION {EntriesOf(ch) : ch \in {x \in Changes : x.after \in Allowed}}
           gone == \E ch \in Changes : NeedsBlame(ch) /\ Node(HEAD, ch.after) = Missing
           bad == log = <<>> \/ Len(log) > MaxCommits \/ gone
<1>1. GitBranchFinder = IF bad THEN Failed ELSE Finish(all)
  <2>1. log = <<>> \/ Len(log) > MaxCommits => bad
    OBVIOUS
  <2>2. GitBranchFinder =
           CASE bad -> Failed
             [] log # <<>> /\ Len(log) <= MaxCommits /\ ~gone /\ Skipped -> Found({})
             [] OTHER -> Finish(all)
    BY Zenon DEF GitBranchFinder, Skipped
  <2> HIDE DEF all, bad
  <2> QED
    BY <2>2
<1>2. Failed.failed
  BY DEF Failed
<1> HIDE DEF all, bad
<1>3. GitBranchFinder = Finish(all) /\ ~Dangling
  BY <1>1, <1>2 DEF Finish
<1>4. GitBranchFinder = Found(addSymlinkedEntries(all))
  BY <1>3 DEF Finish
<1> QED
  BY <1>4 DEF Found, all

(* The content of a path, and where it is found.                           *)
LEMMA LinesTyped ==
    ASSUME HistoryInv, NEW c \in 0..HEAD, NEW p \in Paths
    PROVE  Target(c, p) \in Paths /\ Lines(c, p) \in Seq(LineType)
<1>1. Node(c, p) \in NodeType
  BY HistoryTypes
<1> QED
  BY <1>1, NodesOf DEF Target, Lines, IsFile, IsLink

(* GitBlameFinder reports exactly what its map owes, ...                   *)
LEMMA BlameReports ==
    ASSUME HistoryInv, ~GitBlameFinder.failed, ~Skipped,
           NEW p \in Files, NEW i \in DOMAIN Lines(HEAD, p)
    PROVE  (\E e \in GitBlameFinder.entries : Own(p, i, e)) <=>
              /\ Lines(HEAD, p)[i].by \in PathCommits[p]
              /\ Lines(HEAD, p)[i].at = p
<1> DEFINE tracked == {q \in Paths : PathCommits[q] # {}}
           all == UNION {BlameEntriesOf(q) : q \in tracked}
           mine == i \in Blame(p, PathCommits[p])
<1>1. p \in Paths /\ IsFile(HEAD, p) /\ ~IsLink(HEAD, p)
  BY EntriesAssumption DEF Files, IsFile, IsLink
<1>2. Target(HEAD, p) = p /\ Written(p) = Lines(HEAD, p)
  BY <1>1, Zenon DEF Target, Written
<1>3. mine <=> /\ Lines(HEAD, p)[i].by \in PathCommits[p]
               /\ Lines(HEAD, p)[i].at = p
  BY <1>2 DEF Blame
<1>4. \A q : BlameEntriesOf(q) =
         {Entry(q, q, Lines(HEAD, Target(HEAD, q))[k], k, "unknown", {k}) :
             k \in DOMAIN Lines(HEAD, Target(HEAD, q)) \cap Blame(q, PathCommits[q])}
  BY Zenon DEF BlameEntriesOf
<1>5. \A q : \A e \in BlameEntriesOf(q) : IsEntry(e) /\ e.source = q
  <2> SUFFICES ASSUME NEW q, NEW e \in BlameEntriesOf(q) PROVE IsEntry(e) /\ e.source = q
    OBVIOUS
  <2>1. PICK k : e = Entry(q, q, Lines(HEAD, Target(HEAD, q))[k], k, "unknown", {k})
    BY <1>4, Zenon
  <2> QED
    BY <2>1, EntryFields
<1>6. \A e \in all : IsEntry(e)
  BY <1>5
<1>7. ASSUME NEW e \in all, Own(p, i, e) PROVE mine
  <2>1. e \in BlameEntriesOf(p)
    BY <1>5, <1>7 DEF Own
  <2>2. PICK k \in DOMAIN Lines(HEAD, p) \cap Blame(p, PathCommits[p]) :
           e = Entry(p, p, Lines(HEAD, p)[k], k, "unknown", {k})
    BY <1>2, <1>4, <2>1
  <2>3. k = i
    BY <1>7, <2>2, EntryFields DEF Own
  <2> QED
    BY <2>2, <2>3
<1>8. ASSUME mine PROVE \E e \in all : Own(p, i, e)
  <2> DEFINE e == Entry(p, p, Lines(HEAD, p)[i], i, "unknown", {i})
  <2>1. Own(p, i, e)
    BY EntryFields DEF Own
  <2>2. p \in tracked
    BY <1>1, <1>3, <1>8
  <2>3. e \in BlameEntriesOf(p)
    BY <1>2, <1>4, <1>8
  <2> HIDE DEF e
  <2> QED
    BY <2>1, <2>2, <2>3
<1> HIDE DEF all, mine
<1>9. GitBlameFinder.entries = addSymlinkedEntries(all)
  BY BlameFinds DEF all
<1>10. \A e : Own(p, i, e) => (e \in addSymlinkedEntries(all) <=> e \in all)
  BY <1>1, <1>6, LinksAddNoFile
<1> QED
  BY <1>3, <1>7, <1>8, <1>9, <1>10

(* ... which is what git says the branch wrote.                            *)
LEMMA BlameIsExact == HistoryInv => BlameFinderExact
<1> SUFFICES ASSUME HistoryInv, ~GitBlameFinder.failed, ~Skipped,
                    NEW p \in Files, NEW i \in DOMAIN Lines(HEAD, p)
             PROVE  LET line == Lines(HEAD, p)[i]
                        reported == \E e \in GitBlameFinder.entries : Own(p, i, e)
                    IN /\ reported => line.by > 0 /\ line.at = p
                       /\ line.by > 0 /\ line.at = p =>
                             reported \/ \E c \in (line.by + 1)..HEAD : RenamedOut(c)
  BY Zenon DEF BlameFinderExact
<1> DEFINE line == Lines(HEAD, p)[i]
           reported == \E e \in GitBlameFinder.entries : Own(p, i, e)
<1>1. reported <=> line.by \in PathCommits[p] /\ line.at = p
  BY BlameReports
<1>2. p \in Paths /\ p \in Allowed
  BY EntriesAssumption DEF Files
<1>3. /\ PathCommits \in [Paths -> SUBSET (1..HEAD)]
      /\ \A q \in Paths : \A l \in From(HEAD, q) :
            l.by > 0 /\ l.at \in Allowed => Owed(PathCommits, q, l, HEAD)
  BY PathCommitsRight DEF TrackedRight
<1>4. line \in From(HEAD, p)
  BY DEF From
<1>5. HEAD \in Nat
  BY HistoryTypes
<1> HIDE DEF line, reported
<1>6. reported => line.by > 0 /\ line.at = p
  BY <1>1, <1>2, <1>3, <1>5
<1>7. line.by > 0 /\ line.at = p => reported \/ RenamedOutAfter(line.by, HEAD)
  BY <1>1, <1>2, <1>3, <1>4 DEF Owed
<1> QED
  BY <1>6, <1>7 DEF line, reported, RenamedOutAfter

(* GitBlameFinder reports the rules that commits of the branch wrote, and  *)
(* those only, but for files renamed out of the included paths: however    *)
(* long the branch is and whatever it does to how many paths.              *)
THEOREM BlameExact == Spec => []BlameFinderExact
BY HistoryKept, BlameIsExact, PTL
----------------------------------------------------------------------------
(* What matchEntries has left of the old version after m new rules.        *)
LeftUpTo(f, old, new, m) ==
    f = [i \in 0..m |-> IF i = 0 THEN Numbered(old)
                        ELSE f[i - 1] \ Matched(f[i - 1], new[i])]

(* The recursion of matchEntries has a solution, ...                       *)
LEMMA LeftUpToExist ==
    ASSUME NEW old, NEW new, NEW m \in Nat
    PROVE  \E f : LeftUpTo(f, old, new, m)
<1> DEFINE T == {k \in Nat : \E f : LeftUpTo(f, old, new, k)}
           zero == Numbered(old)
<1>1. 0 \in T
  <2>1. LeftUpTo([i \in 0..0 |-> zero], old, new, 0)
    BY DEF LeftUpTo
  <2> QED
    BY <2>1
<1>2. ASSUME NEW k \in Nat, k \in T PROVE k + 1 \in T
  <2>1. PICK f : LeftUpTo(f, old, new, k)
    BY <1>2
  <2> DEFINE next == f[k] \ Matched(f[k], new[k + 1])
             h == [i \in 0..(k + 1) |-> IF i = k + 1 THEN next ELSE f[i]]
  <2> HIDE DEF next, zero
  <2>2. ASSUME NEW i \in 0..(k + 1)
        PROVE  h[i] = IF i = 0 THEN zero ELSE h[i - 1] \ Matched(h[i - 1], new[i])
    <3>1. CASE i = k + 1
      <4>1. i # 0 /\ i - 1 = k /\ h[i] = next /\ h[k] = f[k]
        BY <3>1
      <4> HIDE DEF h
      <4> QED
        BY <3>1, <4>1 DEF next
    <3>2. CASE i = 0
      <4>1. h[i] = f[i]
        BY <3>2
      <4>2. f[i] = zero
        BY <2>1, <3>2 DEF LeftUpTo, zero
      <4> QED
        BY <3>2, <4>1, <4>2
    <3>3. CASE i # k + 1 /\ i # 0
      <4>1. i \in 0..k /\ h[i] = f[i] /\ h[i - 1] = f[i - 1]
        BY <3>3
      <4>2. f[i] = f[i - 1] \ Matched(f[i - 1], new[i])
        BY <2>1, <3>3, <4>1, Zenon DEF LeftUpTo
      <4> HIDE DEF h
      <4> QED
        BY <3>3, <4>1, <4>2
    <3> QED
      BY <3>1, <3>2, <3>3
  <2>3. h = [i \in 0..(k + 1) |-> IF i = 0 THEN zero ELSE h[i - 1] \ Matched(h[i - 1], new[i])]
    BY <2>2, Zenon
  <2> HIDE DEF h
  <2> QED
    BY <2>3 DEF LeftUpTo, zero
<1> HIDE DEF T
<1>3. m \in T
  BY <1>1, <1>2, SetInduction
<1> QED
  BY <1>3 DEF T

(* The old rules are only ever taken away, ...                             *)
Shrinks(left, old, n) ==
    /\ \A i \in 0..n : left[i] \subseteq Numbered(old)
    /\ \A i, j \in 0..n : i <= j => left[j] \subseteq left[i]

LEMMA MatchingShrinks ==
    ASSUME NEW old, NEW new, Len(new) \in Nat
    PROVE  Shrinks(matchEntries(old, new), old, Len(new))
<1> DEFINE n == Len(new)
           L == CHOOSE f : LeftUpTo(f, old, new, n)
<1>1. matchEntries(old, new) = L
  BY Zenon DEF matchEntries, LeftUpTo
<1>2. \A i \in 0..n : L[i] = IF i = 0 THEN Numbered(old) ELSE L[i - 1] \ Matched(L[i - 1], new[i])
  <2>1. \E f : LeftUpTo(f, old, new, n)
    BY LeftUpToExist
  <2>2. LeftUpTo(L, old, new, n)
    BY <2>1, Zenon
  <2> HIDE DEF L, n
  <2> QED
    BY <2>2, Zenon DEF LeftUpTo
<1> HIDE DEF L
<1> DEFINE S == {k \in Nat : k <= n => /\ L[k] \subseteq Numbered(old)
                                       /\ \A i \in 0..k : L[k] \subseteq L[i]}
<1>3. 0 \in S
  <2>1. 0 \in 0..n
    OBVIOUS
  <2>2. L[0] = Numbered(old)
    BY <1>2, <2>1
  <2>3. \A i \in 0..0 : i = 0
    OBVIOUS
  <2> QED
    BY <2>2, <2>3
<1>4. ASSUME NEW k \in Nat, k \in S PROVE k + 1 \in S
  <2> SUFFICES ASSUME k + 1 <= n
               PROVE  /\ L[k + 1] \subseteq Numbered(old)
                      /\ \A i \in 0..(k + 1) : L[k + 1] \subseteq L[i]
    OBVIOUS
  <2>1. k + 1 \in 0..n /\ k + 1 # 0 /\ (k + 1) - 1 = k /\ k <= n
    OBVIOUS
  <2>2. L[k + 1] \subseteq L[k]
    BY <1>2, <2>1
  <2>3. L[k] \subseteq Numbered(old) /\ \A i \in 0..k : L[k] \subseteq L[i]
    BY <1>4, <2>1
  <2>4. \A i \in 0..(k + 1) : i = k + 1 \/ i \in 0..k
    OBVIOUS
  <2> QED
    BY <2>2, <2>3, <2>4
<1> HIDE DEF S
<1>5. \A k \in 0..n : k \in S
  BY <1>3, <1>4, SetInduction
<1>6. \A i \in 0..n : L[i] \subseteq Numbered(old)
  BY <1>5 DEF S
<1>7. ASSUME NEW i \in 0..n, NEW j \in 0..n, i <= j PROVE L[j] \subseteq L[i]
  <2>1. i \in 0..j /\ j \in S /\ j <= n
    BY <1>5, <1>7
  <2> QED
    BY <2>1 DEF S
<1> QED
  BY <1>1, <1>6, <1>7 DEF Shrinks

(* ... so what is left at the end is like no new rule that is not          *)
(* identical to one.                                                       *)
LEMMA NothingLikeItLeft ==
    ASSUME NEW old, NEW new, Len(new) \in Nat, NEW i \in 1..Len(new),
           StateOf(matchEntries(old, new)[i - 1], new[i]) # "identical",
           NEW b \in matchEntries(old, new)[Len(new)]
    PROVE  ~SameYAML(b, new[i])
<1> DEFINE left == matchEntries(old, new)
<1> HIDE DEF left
<1>1. Shrinks(left, old, Len(new))
  BY MatchingShrinks DEF left
<1>2. i - 1 \in 0..Len(new) /\ Len(new) \in 0..Len(new) /\ i - 1 <= Len(new)
  OBVIOUS
<1>3. b \in left[i - 1]
  BY <1>1, <1>2 DEF Shrinks, left
<1>4. Identical(left[i - 1], new[i]) = {}
  BY DEF StateOf, left
<1> QED
  BY <1>3, <1>4 DEF Identical

(* The two kinds of entries of a change: of a new rule that is not         *)
(* identical to an old one, and of an old rule that is left.               *)
NewEntry(e, ch, new, left, i) ==
    /\ StateOf(left[i - 1], new[i]) # "identical"
    /\ e = Entry(Target(Max(ch.commits), ch.after), ch.after, new[i], i,
                 StateOf(left[i - 1], new[i]), ModifiedLines(ch) \cap {i})
OldEntry(e, ch, b) ==
    e = Entry(Target(Min(ch.commits) - 1, ch.before), ch.before, b, b.line,
              "removed", {b.line})

LEMMA ChangeEntries ==
    ASSUME NEW ch, NEW new, new = New(ch), NEW left, left = matchEntries(ch.old, new),
           NEW e
    PROVE  e \in EntriesOf(ch) <=> \/ \E i \in DOMAIN new : NewEntry(e, ch, new, left, i)
                                   \/ \E b \in left[Len(new)] : OldEntry(e, ch, b)
<1> DEFINE state(i) == StateOf(left[i - 1], new[i])
           to == Target(Max(ch.commits), ch.after)
           old == Target(Min(ch.commits) - 1, ch.before)
<1>1. EntriesOf(ch) =
         {Entry(to, ch.after, new[i], i, state(i), ModifiedLines(ch) \cap {i}) :
             i \in {j \in DOMAIN new : state(j) # "identical"}}
         \cup {Entry(old, ch.before, b, b.line, "removed", {b.line}) : b \in left[Len(new)]}
  BY Zenon DEF EntriesOf
<1> HIDE DEF to, old, state
<1>2. e \in EntriesOf(ch) <=>
         \/ \E i \in DOMAIN new :
               /\ state(i) # "identical"
               /\ e = Entry(to, ch.after, new[i], i, state(i), ModifiedLines(ch) \cap {i})
         \/ \E b \in left[Len(new)] :
               e = Entry(old, ch.before, b, b.line, "removed", {b.line})
  BY <1>1, Zenon
<1> QED
  BY <1>2, Zenon DEF to, old, state, NewEntry, OldEntry

(* What can be read off such entries.                                      *)
LEMMA OldEntryIs ==
    ASSUME NEW e, NEW ch, NEW b, OldEntry(e, ch, b)
    PROVE  e.state = "removed" /\ e.name = b.name /\ e.expr = b.expr
BY EntryFields DEF OldEntry

LEMMA NewEntryIs ==
    ASSUME NEW e, NEW ch, NEW new, NEW left, NEW i, NewEntry(e, ch, new, left, i)
    PROVE  /\ e.state # "removed" /\ e.modified = ModifiedLines(ch) \cap {i}
           /\ e.name = new[i].name /\ e.expr = new[i].expr
           /\ e.source = ch.after /\ e.line = i
           /\ e.reported = Target(Max(ch.commits), ch.after)
<1>1. /\ e.state = StateOf(left[i - 1], new[i])
      /\ e.name = new[i].name /\ e.expr = new[i].expr
      /\ e.modified = ModifiedLines(ch) \cap {i}
      /\ e.source = ch.after /\ e.line = i
      /\ e.reported = Target(Max(ch.commits), ch.after)
  BY EntryFields DEF NewEntry
<1>2. StateOf(left[i - 1], new[i]) \in {"identical", "modified", "added"}
  BY DEF StateOf
<1> QED
  BY <1>1, <1>2
----------------------------------------------------------------------------
(* The first and the last of some commits.                                 *)
LEMMA EndsOf ==
    ASSUME NEW n \in Nat, NEW S, S \subseteq 1..n, S # {}
    PROVE  /\ Min(S) \in S /\ Max(S) \in S
           /\ \A c \in S : Min(S) <= c /\ c <= Max(S)
<1>1. PICK a \in S : \A c \in S : a <= c
  <2>1. S \subseteq Nat
    OBVIOUS
  <2> QED
    BY <2>1, LeastExists
<1>2. Min(S) \in S /\ \A c \in S : Min(S) <= c
  BY <1>1, Zenon DEF Min
<1> DEFINE T == {n - c : c \in S}
<1>3. T \subseteq Nat /\ T # {}
  OBVIOUS
<1>4. PICK t \in T : \A u \in T : t <= u
  <2> HIDE DEF T
  <2> QED
    BY <1>3, LeastExists
<1>5. PICK z \in S : t = n - z
  OBVIOUS
<1>6. ASSUME NEW c \in S PROVE z >= c
  <2>1. n - c \in T
    OBVIOUS
  <2>2. t <= n - c
    BY <1>4, <2>1
  <2>3. z \in Nat /\ c \in Nat
    OBVIOUS
  <2> QED
    BY <1>5, <2>2, <2>3
<1>7. Max(S) \in S /\ \A c \in S : Max(S) >= c
  BY <1>6, Zenon DEF Max
<1>8. \A c \in S : c <= Max(S)
  BY <1>7
<1> QED
  BY <1>2, <1>7, <1>8

(* The change of a path: between its first commit and its last.            *)
ChangeIs(ch, p, first, last) ==
    /\ ch.after = p /\ ch.commits = Touching(p)
    /\ first = Min(Touching(p)) /\ last = Max(Touching(p))
    /\ first \in 1..HEAD /\ last \in 1..HEAD /\ log[last].dst = p
    /\ \A c \in Touching(p) : c \in 1..HEAD /\ first <= c /\ c <= last
    /\ \A c \in (last + 1)..HEAD : log[c].dst # p
    /\ ch.old = <<>> \/ \E q \in Paths : ch.old = Lines(first - 1, q)
    /\ New(ch) = Lines(last, Target(last, p)) /\ New(ch) \in Seq(LineType)
    /\ Is(ch) = Node(last, p).type

(* Every path with a commit has such a change, ...                         *)
LEMMA ChangesAre ==
    ASSUME HistoryInv, NEW p \in Paths, Touching(p) # {}
    PROVE  /\ ChangeOf(p) \in Changes
           /\ ChangeIs(ChangeOf(p), p, Min(Touching(p)), Max(Touching(p)))
<1> DEFINE S == Touching(p)
           first == Min(S)
           last == Max(S)
           ch == ChangeOf(p)
<1>1. ch \in Changes
  BY DEF Changes
<1>2. HEAD \in Nat /\ S \subseteq 1..HEAD /\ \A c \in 1..HEAD : c \in S <=> log[c].dst = p
  BY HistoryTypes DEF Touching
<1> HIDE DEF S
<1>3. first \in S /\ last \in S /\ \A c \in S : first <= c /\ c <= last
  BY <1>2, EndsOf DEF S
<1> HIDE DEF first, last
<1>4. first \in 1..HEAD /\ last \in 1..HEAD /\ log[last].dst = p
  BY <1>2, <1>3
<1>5. \A c \in (last + 1)..HEAD : log[c].dst # p
  <2> SUFFICES ASSUME NEW c \in (last + 1)..HEAD, log[c].dst = p PROVE FALSE
    OBVIOUS
  <2>1. c \in 1..HEAD /\ ~(c <= last)
    BY <1>2, <1>4
  <2> QED
    BY <1>2, <1>3, <2>1
<1>6. ch = [before |-> log[first].src, after |-> p, commits |-> S,
            was |-> Node(first - 1, log[first].src).type,
            old |-> IF log[first].op = "A" THEN <<>>
                    ELSE Lines(first - 1, Target(first - 1, log[first].src))]
  BY Zenon DEF ChangeOf, ChangeAt, first, S
<1> HIDE DEF ch
<1>7. ch.after = p /\ ch.commits = S
  BY <1>6
<1>8. ch.old = <<>> \/ ch.old = Lines(first - 1, Target(first - 1, log[first].src))
  BY <1>6
<1>9. Target(first - 1, log[first].src) \in Paths
  <2>1. first - 1 \in 0..HEAD /\ log[first].src \in Paths
    BY <1>2, <1>4, HistoryTypes
  <2> QED
    BY <2>1, LinesTyped
<1>10. New(ch) = Lines(last, Target(last, p)) /\ Is(ch) = Node(last, p).type
  BY <1>7, Zenon DEF New, Is, last
<1>11. Lines(last, Target(last, p)) \in Seq(LineType)
  <2>1. last \in 0..HEAD
    BY <1>4
  <2>2. Target(last, p) \in Paths
    BY <2>1, LinesTyped
  <2> QED
    BY <2>1, <2>2, LinesTyped
<1>12. ChangeIs(ch, p, first, last)
  BY <1>2, <1>3, <1>4, <1>5, <1>7, <1>8, <1>9, <1>10, <1>11, Zenon
     DEF ChangeIs, S, first, last
<1> QED
  BY <1>1, <1>12 DEF ch, first, last, S

(* ... and every change is one.                                            *)
LEMMA ChangesAreSome ==
    ASSUME HistoryInv, NEW ch \in Changes
    PROVE  \E p \in Paths : \E first, last : ChangeIs(ch, p, first, last)
<1>1. PICK p \in Paths : Touching(p) # {} /\ ch = ChangeOf(p)
  BY DEF Changes
<1> QED
  BY <1>1, ChangesAre

(* GitBranchFinder never reports a rule that is left as one that went.     *)
LEMMA MovedStays == HistoryInv => MovedIsNotRemoved
<1> SUFFICES ASSUME HistoryInv, NEW ch \in Changes, NEW a \in EntriesOf(ch), NEW b \in EntriesOf(ch),
                    a.state = "removed", b.state # "removed", Text(a) = Text(b)
             PROVE  FALSE
  BY Zenon DEF MovedIsNotRemoved
<1>1. PICK new : new = New(ch)
  OBVIOUS
<1>2. new \in Seq(LineType)
  <2>1. PICK p \in Paths : \E first, last : ChangeIs(ch, p, first, last)
    BY ChangesAreSome
  <2> PICK first, last : ChangeIs(ch, p, first, last)
    BY <2>1
  <2> QED
    BY <1>1 DEF ChangeIs
<1>3. PICK left : left = matchEntries(ch.old, new)
  OBVIOUS
<1>4. Len(new) \in Nat /\ DOMAIN new = 1..Len(new)
  BY <1>2
<1>5. PICK i \in DOMAIN new : NewEntry(b, ch, new, left, i)
  BY <1>1, <1>3, ChangeEntries, OldEntryIs, NewEntryIs
<1>6. PICK o \in left[Len(new)] : OldEntry(a, ch, o)
  BY <1>1, <1>3, ChangeEntries, OldEntryIs, NewEntryIs
<1>7. ~SameYAML(o, new[i])
  BY <1>3, <1>4, <1>5, NothingLikeItLeft DEF NewEntry
<1>8. a.name = o.name /\ a.expr = o.expr /\ b.name = new[i].name /\ b.expr = new[i].expr
  <2>1. a.name = o.name /\ a.expr = o.expr
    BY <1>6, OldEntryIs
  <2>2. b.name = new[i].name /\ b.expr = new[i].expr
    BY <1>5, NewEntryIs
  <2> QED
    BY <2>1, <2>2
<1> QED
  BY <1>7, <1>8 DEF Text, SameYAML

(* A rule that was only moved is never reported as removed, whatever rules *)
(* the two versions of the file have.                                      *)
THEOREM MovedIsSafe == Spec => []MovedIsNotRemoved
BY HistoryKept, MovedStays, PTL
----------------------------------------------------------------------------
(* A file that is there at HEAD is as the last of its commits left it.     *)
LEMMA LastCommitOfFile ==
    ASSUME HistoryInv, NEW p \in Files, NEW b \in 1..HEAD, log[b].dst = p
    PROVE  /\ p \in Paths /\ b \in Touching(p)
           /\ \E first \in 1..b, last \in b..HEAD :
                 /\ ChangeIs(ChangeOf(p), p, first, last)
                 /\ ChangeOf(p) \in Changes
                 /\ Node(last, p) = Node(HEAD, p)
<1>1. p \in Paths /\ IsFile(HEAD, p) /\ HEAD \in Nat /\ DOMAIN log = 1..HEAD
  BY EntriesAssumption, HistoryTypes DEF Files
<1>2. b \in Touching(p)
  BY <1>1 DEF Touching
<1>3. PICK first, last : /\ ChangeOf(p) \in Changes
                         /\ ChangeIs(ChangeOf(p), p, first, last)
  BY <1>1, <1>2, ChangesAre
<1>4. first \in 1..b /\ last \in b..HEAD
  BY <1>1, <1>2, <1>3 DEF ChangeIs
<1>5. \A c \in (last + 1)..HEAD : log[c].dst # p
  BY <1>3 DEF ChangeIs
<1>6. last \in 0..HEAD /\ HEAD \in last..HEAD
  BY <1>1, <1>4
<1>7. Node(HEAD, p) = Node(last, p) \/ Node(HEAD, p) = Missing
  BY <1>1, <1>5, <1>6, StaysOrMoves
<1>8. Node(HEAD, p) # Missing
  BY <1>1 DEF IsFile, Missing
<1> QED
  BY <1>1, <1>2, <1>3, <1>4, <1>7, <1>8

(* A rule that no version before its commit had is identical to none that  *)
(* was there when the change of its file began.                            *)
LEMMA NewIsNotIdentical ==
    ASSUME HistoryInv, NEW p \in Paths, NEW first, NEW last, NEW ch, ChangeIs(ch, p, first, last),
           NEW b \in 1..HEAD, first <= b, NEW line,
           \A c \in 0..(b - 1), q \in Paths :
              Text(line) \notin {Text(l) : l \in Range(Lines(c, q))},
           NEW left, left \subseteq Numbered(ch.old)
    PROVE  StateOf(left, line) # "identical"
<1>1. first - 1 \in 0..(b - 1)
  BY HistoryTypes DEF ChangeIs
<1>2. ASSUME NEW o \in left PROVE ~SameYAML(o, line)
  <2>1. PICK j \in DOMAIN ch.old : o.name = ch.old[j].name /\ o.expr = ch.old[j].expr
    BY <1>2 DEF Numbered
  <2>2. PICK q \in Paths : ch.old = Lines(first - 1, q)
    BY <2>1 DEF ChangeIs
  <2>3. ch.old[j] \in Range(Lines(first - 1, q))
    BY <2>1, <2>2 DEF Range
  <2>4. Text(line) # Text(ch.old[j])
    BY <1>1, <2>3
  <2> QED
    BY <2>1, <2>4 DEF Text, SameYAML
<1>3. Identical(left, line) = {}
  BY <1>2 DEF Identical
<1> QED
  BY <1>3 DEF StateOf

(* So such a rule has an entry, and its line is one of the modified ones:  *)
(* its commit is among those of the change.                                *)
LEMMA BranchIsComplete == HistoryInv => BranchFinderComplete
<1> SUFFICES ASSUME HistoryInv, ~GitBranchFinder.failed, ~Skipped,
                    NEW p \in Files, NEW i \in DOMAIN Lines(HEAD, p),
                    NEW line, line = Lines(HEAD, p)[i], line.by > 0, line.at = p,
                    \A c \in 0..(line.by - 1), q \in Paths :
                       Text(line) \notin {Text(l) : l \in Range(Lines(c, q))}
             PROVE  \E e \in GitBranchFinder.entries :
                       Own(p, i, e) /\ e.state # "removed" /\ e.modified = {i}
  BY Zenon DEF BranchFinderComplete
<1> DEFINE b == line.by
           ch == ChangeOf(p)
<1>1. HEAD \in Nat /\ HEAD \in 0..HEAD /\ p \in Paths /\ IsFile(HEAD, p) /\ ~IsLink(HEAD, p)
      /\ p \in Allowed
  BY HistoryTypes, EntriesAssumption DEF Files, IsFile, IsLink
<1>2. b \in 1..HEAD /\ log[b].dst = p
  <2>1. line \in From(HEAD, p)
    BY DEF From
  <2>2. WrittenBy(line, HEAD)
    BY <1>1, <2>1, LinesAreWritten
  <2> QED
    BY <1>1, <2>2 DEF WrittenBy
<1> HIDE DEF b
<1>3. PICK first \in 1..b, last \in b..HEAD : /\ ChangeIs(ch, p, first, last)
                                              /\ ch \in Changes
                                              /\ Node(last, p) = Node(HEAD, p)
  BY <1>2, LastCommitOfFile
<1>4. b \in Touching(p)
  BY <1>2, LastCommitOfFile
<1> HIDE DEF ch
<1>5. Target(last, p) = p /\ Lines(last, p) = Lines(HEAD, p)
  BY <1>1, <1>3 DEF Target, Lines, IsFile, IsLink
<1>6. /\ New(ch) = Lines(HEAD, p) /\ Is(ch) = "file" /\ ch.after = p
      /\ ch.commits = Touching(p) /\ Max(ch.commits) = last
  BY <1>1, <1>3, <1>5 DEF ChangeIs, IsFile
<1> DEFINE new == New(ch)
           left == matchEntries(ch.old, new)
           e == Entry(Target(Max(ch.commits), ch.after), ch.after, new[i], i,
                      StateOf(left[i - 1], new[i]), ModifiedLines(ch) \cap {i})
<1>7. i \in DOMAIN new /\ new[i] = line
  BY <1>6
<1>8. StateOf(left[i - 1], new[i]) # "identical"
  <2>1. new \in Seq(LineType)
    BY <1>3 DEF ChangeIs
  <2> HIDE DEF new
  <2>2. Len(new) \in Nat /\ i \in 1..Len(new)
    BY <1>7, <2>1
  <2>3. i - 1 \in 0..Len(new)
    BY <2>2
  <2>4. left[i - 1] \subseteq Numbered(ch.old)
    BY <2>2, <2>3, MatchingShrinks DEF Shrinks
  <2> HIDE DEF left
  <2>5. first <= b
    BY <1>2
  <2> QED
    BY <1>1, <1>2, <1>3, <1>7, <2>4, <2>5, NewIsNotIdentical DEF b
<1>9. i \in ModifiedLines(ch)
  <2>1. CASE NeedsBlame(ch)
    <3>1. ModifiedLines(ch) = Blame(p, Touching(p))
      BY <1>6, <2>1, Zenon DEF ModifiedLines
    <3>2. Written(p) = Lines(HEAD, p)
      BY <1>1, Zenon DEF Written
    <3> QED
      BY <1>4, <3>1, <3>2 DEF Blame, b
  <2>2. CASE ~NeedsBlame(ch)
    <3>1. Is(ch) # "missing"
      BY <1>6
    <3>2. ModifiedLines(ch) = DOMAIN New(ch)
      BY <2>2, <3>1 DEF ModifiedLines
    <3> QED
      BY <1>7, <3>2
  <2> QED
    BY <2>1, <2>2
<1>10. NewEntry(e, ch, new, left, i)
  BY <1>8 DEF NewEntry
<1> HIDE DEF e, left, new
<1>11. e \in EntriesOf(ch)
  BY <1>7, <1>10, ChangeEntries DEF new, left
<1>12. Own(p, i, e) /\ e.state # "removed" /\ e.modified = {i}
  BY <1>5, <1>6, <1>9, <1>10, NewEntryIs DEF Own
<1>13. e \in GitBranchFinder.entries
  <2>1. ch \in {x \in Changes : x.after \in Allowed}
    BY <1>1, <1>3, <1>6
  <2> DEFINE all == UNION {EntriesOf(x) : x \in {y \in Changes : y.after \in Allowed}}
  <2>2. e \in all
    BY <1>11, <2>1
  <2>3. GitBranchFinder.entries = addSymlinkedEntries(all)
    BY BranchFinds
  <2> HIDE DEF all
  <2> QED
    BY <2>2, <2>3 DEF addSymlinkedEntries
<1> QED
  BY <1>12, <1>13

(* GitBranchFinder reports every rule that is new on the branch, with its  *)
(* own line as the modified one.                                           *)
THEOREM BranchComplete == Spec => []BranchFinderComplete
BY HistoryKept, BranchIsComplete, PTL
----------------------------------------------------------------------------
(* What makes a finder fail, the number of commits and the symlinks apart. *)
LEMMA FinderFails ==
    ASSUME log # <<>>, Len(log) <= MaxCommits, HEAD \in Nat, ~Dangling
    PROVE  /\ GitBlameFinder.failed =>
                 \E p \in Paths : PathCommits[p] # {} /\ Node(HEAD, p) = Missing
           /\ GitBranchFinder.failed =>
                 \E ch \in Changes : NeedsBlame(ch) /\ Node(HEAD, ch.after) = Missing
<1>1. ~(Len(log) > MaxCommits)
  BY EntriesAssumption DEF HEAD
<1>2. \A entries : ~Found(entries).failed /\ Finish(entries) = Found(addSymlinkedEntries(entries))
  BY DEF Found, Finish
<1>3. GitBlameFinder.failed =>
         \E p \in Paths : PathCommits[p] # {} /\ Node(HEAD, p) = Missing
  <2> DEFINE all == UNION {BlameEntriesOf(p) : p \in {q \in Paths : PathCommits[q] # {}}}
             tooMany == MaxCommits > 0 /\ Len(log) > MaxCommits
             skipped == \E c \in DOMAIN log : log[c].skip /\ log[c].dst \in Allowed
             gone == \E p \in {q \in Paths : PathCommits[q] # {}} : Node(HEAD, p) = Missing
  <2>1. ~tooMany
    BY <1>1
  <2>2. GitBlameFinder =
           CASE log = <<>> \/ tooMany -> Failed
             [] log # <<>> /\ ~tooMany /\ skipped -> Found({})
             [] OTHER -> IF gone THEN Failed ELSE Finish(all)
    BY Zenon DEF GitBlameFinder
  <2>3. gone => \E p \in Paths : PathCommits[p] # {} /\ Node(HEAD, p) = Missing
    OBVIOUS
  <2> HIDE DEF all, tooMany, skipped, gone
  <2>4. GitBlameFinder.failed => gone
    BY <1>2, <2>1, <2>2
  <2> QED
    BY <2>3, <2>4
<1>4. GitBranchFinder.failed =>
         \E ch \in Changes : NeedsBlame(ch) /\ Node(HEAD, ch.after) = Missing
  <2> DEFINE all == UNION {EntriesOf(ch) : ch \in {x \in Changes : x.after \in Allowed}}
             gone == \E ch \in Changes : NeedsBlame(ch) /\ Node(HEAD, ch.after) = Missing
             bad == log = <<>> \/ Len(log) > MaxCommits \/ gone
             few == Len(log) <= MaxCommits
  <2>1. GitBranchFinder =
           CASE bad -> Failed
             [] log # <<>> /\ few /\ ~gone /\ Skipped -> Found({})
             [] OTHER -> Finish(all)
    BY Zenon DEF GitBranchFinder, Skipped
  <2>2. bad => gone
    BY <1>1
  <2> HIDE DEF all, bad, gone, few
  <2>3. GitBranchFinder.failed => bad
    BY <1>2, <2>1
  <2> QED
    BY <2>2, <2>3 DEF gone
<1> QED
  BY <1>3, <1>4

(* A path that is owed a commit or was changed is there, or was renamed.   *)
LEMMA FindersGoOn == HistoryInv => FindersSurvive
<1> SUFFICES ASSUME HistoryInv, log # <<>>, Len(log) <= MaxCommits, ~Dangling
             PROVE  /\ GitBlameFinder.failed => \E c \in DOMAIN log : RenamedOut(c)
                    /\ GitBranchFinder.failed =>
                          \E b, c \in DOMAIN log :
                             b < c /\ log[c].op = "R" /\ log[b].dst = log[c].src
  BY Zenon DEF FindersSurvive
<1>1. HEAD \in Nat /\ DOMAIN log = 1..HEAD
  BY HistoryTypes
<1>2. ASSUME GitBlameFinder.failed PROVE \E c \in DOMAIN log : RenamedOut(c)
  <2>1. PICK p \in Paths : PathCommits[p] # {} /\ Node(HEAD, p) = Missing
    BY <1>1, <1>2, FinderFails
  <2>2. RenamedOutAfter(0, HEAD)
    BY <2>1, PathCommitsRight DEF TrackedRight
  <2> QED
    BY <1>1, <2>2 DEF RenamedOutAfter
<1>3. ASSUME GitBranchFinder.failed
      PROVE  \E b, c \in DOMAIN log : b < c /\ log[c].op = "R" /\ log[b].dst = log[c].src
  <2>1. PICK ch \in Changes : NeedsBlame(ch) /\ Node(HEAD, ch.after) = Missing
    BY <1>1, <1>3, FinderFails
  <2>2. PICK p \in Paths : \E first, last : ChangeIs(ch, p, first, last)
    BY <2>1, ChangesAreSome
  <2> PICK first, last : ChangeIs(ch, p, first, last)
    BY <2>2
  <2>3. Node(last, p).type = "file" /\ ch.after = p
    BY <2>1 DEF ChangeIs, NeedsBlame
  <2>4. last \in 1..HEAD /\ log[last].dst = p /\ \A c \in (last + 1)..HEAD : log[c].dst # p
    BY DEF ChangeIs
  <2>5. last \in 0..HEAD /\ HEAD \in last..HEAD
    BY <1>1, <2>4
  <2>6. Node(HEAD, p) # Node(last, p)
    BY <2>1, <2>3 DEF Missing
  <2>7. PICK r \in (last + 1)..HEAD : log[r].op = "R" /\ log[r].src = p
    BY <2>4, <2>5, <2>6, StaysOrMoves
  <2>8. last < r /\ r \in 1..HEAD
    BY <1>1, <2>4, <2>7
  <2> QED
    BY <1>1, <2>4, <2>7, <2>8
<1> QED
  BY <1>2, <1>3

(* A finder only fails for the two kinds of rename that FindersSurvive     *)
(* names, too many commits and dangling symlinks apart.                    *)
THEOREM FindersGoOnAlways == Spec => []FindersSurvive
BY HistoryKept, FindersGoOn, PTL
============================================================================
