------------------------ MODULE CheckSelectionProofs ------------------------
(***************************************************************************)
(* Proofs about RuleFile and CheckSelection, for files of any length and   *)
(* any configuration: a line is ignored exactly as its file asks for, a    *)
(* mapping is a rule exactly when its keys make one, and a check is run    *)
(* exactly when nothing disables it.                                       *)
(***************************************************************************)
EXTENDS CheckSelection, FiniteSetTheorems, WellFoundedInduction, TLAPS

(* One more line changes nothing of what was said before.                  *)
LEMMA HistoryGrows ==
    ASSUME lines \in Seq(LineKinds), NEW l \in LineKinds, lines' = Append(lines, l)
    PROVE  /\ Len(lines) \in Nat /\ Len(lines') = Len(lines) + 1
           /\ DOMAIN lines = 1..Len(lines) /\ DOMAIN lines' = 1..(Len(lines) + 1)
           /\ lines'[Len(lines) + 1] = l
           /\ \A j \in 1..Len(lines) : lines'[j] = lines[j]
           /\ lines' \in Seq(LineKinds)
  OBVIOUS

LEMMA SaidBefore ==
    ASSUME lines \in Seq(LineKinds), NEW l \in LineKinds, lines' = Append(lines, l),
           NEW n \in Nat, n = Len(lines)
    PROVE  /\ \A j \in 1..n : \A key : Says(j, key)' <=> Says(j, key)
           /\ \A key : Says(n + 1, key)' <=> l.pint.key = key
           /\ \A i \in 1..(n + 1) : Open(i)' <=> Open(i)
           /\ Open(n + 2)' <=>
                \/ l.pint.key = "ignore/begin"
                \/ Open(n + 1) /\ l.pint.key # "ignore/end"
<1>1. /\ n \in Nat /\ lines'[n + 1] = l
      /\ \A j \in 1..n : lines'[j] = lines[j]
  BY HistoryGrows
<1>2. \A j \in 1..n : \A key : Says(j, key)' <=> Says(j, key)
  BY <1>1 DEF Says
<1>3. \A key : Says(n + 1, key)' <=> l.pint.key = key
  BY <1>1 DEF Says
<1>4. ASSUME NEW i \in 1..(n + 1) PROVE Open(i)' <=> Open(i)
  <2>1. \A b \in 1..(i - 1) : b \in 1..n /\ \A k \in b..(i - 1) : k \in 1..n
    BY <1>1
  <2> QED
    BY <2>1, <1>2 DEF Open
<1>5. Open(n + 2)' => l.pint.key = "ignore/begin" \/ (Open(n + 1) /\ l.pint.key # "ignore/end")
  <2> SUFFICES ASSUME Open(n + 2)', l.pint.key # "ignore/begin"
               PROVE  Open(n + 1) /\ l.pint.key # "ignore/end"
    OBVIOUS
  <2>1. PICK b \in 1..((n + 2) - 1) :
           Says(b, "ignore/begin")' /\ \A k \in b..((n + 2) - 1) : ~Says(k, "ignore/end")'
    BY DEF Open
  <2>2. b # n + 1
    BY <2>1, <1>3
  <2>3. b \in 1..((n + 1) - 1) /\ b \in 1..n /\ n + 1 \in b..((n + 2) - 1)
        /\ \A k \in b..((n + 1) - 1) : k \in 1..n /\ k \in b..((n + 2) - 1)
    BY <1>1, <2>2
  <2>4. l.pint.key # "ignore/end"
    BY <2>1, <2>3, <1>3
  <2> QED
    BY <2>1, <2>3, <2>4, <1>2 DEF Open
<1>6. l.pint.key = "ignore/begin" => Open(n + 2)'
  <2> SUFFICES ASSUME l.pint.key = "ignore/begin" PROVE Open(n + 2)'
    OBVIOUS
  <2>1. n + 1 \in 1..((n + 2) - 1) /\ \A k \in (n + 1)..((n + 2) - 1) : k = n + 1
    BY <1>1
  <2>2. "ignore/begin" # "ignore/end"
    OBVIOUS
  <2> QED
    BY <2>1, <2>2, <1>3 DEF Open
<1>7. Open(n + 1) /\ l.pint.key # "ignore/end" => Open(n + 2)'
  <2> SUFFICES ASSUME Open(n + 1), l.pint.key # "ignore/end" PROVE Open(n + 2)'
    OBVIOUS
  <2>1. PICK b \in 1..((n + 1) - 1) :
           Says(b, "ignore/begin") /\ \A k \in b..((n + 1) - 1) : ~Says(k, "ignore/end")
    BY DEF Open
  <2>2. b \in 1..((n + 2) - 1) /\ b \in 1..n
        /\ \A k \in b..((n + 2) - 1) : k = n + 1 \/ (k \in 1..n /\ k \in b..((n + 1) - 1))
    BY <1>1
  <2> QED
    BY <2>1, <2>2, <1>2, <1>3 DEF Open
<1> QED
  BY <1>2, <1>3, <1>4, <1>5, <1>6, <1>7

LEMMA EndedBefore ==
    ASSUME lines \in Seq(LineKinds), NEW l \in LineKinds, lines' = Append(lines, l),
           NEW n \in Nat, n = Len(lines)
    PROVE  /\ \A j \in 1..n : \A i \in 1..n : Ends(j, i)' <=> Ends(j, i)
           /\ \A i \in 1..(n + 1) : Ended(i)' <=> Ended(i)
           /\ \A j \in 1..n : Ends(j, n) /\ l.pint.key # "ignore/begin"
                => Ends(j, n + 1)'
<1>1. n \in Nat
  OBVIOUS
<1>2. /\ \A j \in 1..n : \A key : Says(j, key)' <=> Says(j, key)
      /\ \A key : Says(n + 1, key)' <=> l.pint.key = key
      /\ \A i \in 1..(n + 1) : Open(i)' <=> Open(i)
  BY SaidBefore
<1>3. ASSUME NEW j \in 1..n, NEW i \in 1..n PROVE Ends(j, i)' <=> Ends(j, i)
  <2>1. j \in 1..(n + 1) /\ \A k \in j..i : k \in 1..n
    BY <1>1
  <2> QED
    BY <1>2, <2>1 DEF Ends
<1>4. ASSUME NEW i \in 1..(n + 1) PROVE Ended(i)' <=> Ended(i)
  <2>1. \A j \in 1..(i - 2) : j \in 1..n /\ i - 1 \in 1..n
    BY <1>1
  <2> QED
    BY <1>3, <2>1 DEF Ended
<1>5. ASSUME NEW j \in 1..n, Ends(j, n), l.pint.key # "ignore/begin"
      PROVE  Ends(j, n + 1)'
  <2>1. j \in 1..(n + 1) /\ \A k \in j..(n + 1) : k = n + 1 \/ (k \in 1..n /\ k \in j..n)
    BY <1>1
  <2> QED
    BY <1>2, <1>5, <2>1 DEF Ends
<1> QED
  BY <1>3, <1>4, <1>5

SkipType == [next : BOOLEAN, autoReset : BOOLEAN, all : BOOLEAN, begin : BOOLEAN]

(* What the loop remembers after one more line.                            *)
LEMMA SkipStaysRight ==
    ASSUME lines \in Seq(LineKinds), NEW l \in LineKinds, lines' = Append(lines, l),
           NEW n \in Nat, n = Len(lines), skip \in SkipType, SkipRemembers(n),
           skip' = IF skip.all THEN skip ELSE AfterLine(skip, l.pint.key)
    PROVE  skip' \in SkipType /\ SkipRemembers(n + 1)'
<1> DEFINE key == l.pint.key
<1>1. /\ \A j \in 1..n : \A k \in STRING : Says(j, k)' <=> Says(j, k)
      /\ \A k : Says(n + 1, k)' <=> key = k
      /\ Open(n + 1)' <=> Open(n + 1)
      /\ Open(n + 2)' <=> key = "ignore/begin" \/ (Open(n + 1) /\ key # "ignore/end")
  BY SaidBefore
<1>2. /\ Ended(n + 1)' <=> Ended(n + 1)
      /\ \A j \in 1..n : Ends(j, n) /\ key # "ignore/begin" => Ends(j, n + 1)'
  BY EndedBefore
<1>3. skip' \in SkipType
  BY DEF AfterLine, SkipType
<1> SUFFICES ASSUME ~skip.all, key # "ignore/file" PROVE SkipRemembers(n + 1)'
  <2>1. skip.all \/ key = "ignore/file" => skip'.all
    BY DEF AfterLine, SkipType
  <2>2. skip'.all => SkipRemembers(n + 1)'
    BY DEF SkipRemembers
  <2> QED
    BY <1>3, <2>1, <2>2
<1> DEFINE StillEnds == \E j \in 1..n : Ends(j, n + 1)'
<1>4. /\ skip.begin <=> Open(n + 1)
      /\ skip.next => skip.begin \/ (n > 0 /\ Says(n, "ignore/next-line"))
      /\ skip.next /\ ~skip.autoReset => skip.begin
      /\ skip.begin /\ skip.autoReset => \E j \in 1..n : Ends(j, n)
      /\ skip.begin /\ ~skip.next => Ended(n + 1)
  BY DEF SkipRemembers
<1>5. (\E j \in 1..n : Ends(j, n)) /\ key # "ignore/begin" => StillEnds
  BY <1>2
<1>6. Ended(n + 1) /\ key # "ignore/begin" => StillEnds
  <2>1. (n + 1) - 1 = n /\ \A j \in 1..((n + 1) - 2) : j \in 1..n
    OBVIOUS
  <2>2. Ended(n + 1) => \E j \in 1..n : Ends(j, n)
    BY <2>1 DEF Ended
  <2> QED
    BY <1>5, <2>2
<1>7. StillEnds => Ended(n + 2)'
  <2>1. (n + 2) - 1 = n + 1 /\ (n + 2) - 2 = n
    OBVIOUS
  <2> QED
    BY <2>1 DEF Ended
<1>8. key = "ignore/next-line" /\ skip.begin => Ends(n + 1, n + 1)'
  <2>1. \A k \in (n + 1)..(n + 1) : k = n + 1
    OBVIOUS
  <2> QED
    BY <1>1, <1>4, <2>1 DEF Ends
<1>9. n + 1 \in 1..(n + 1) /\ \A j \in 1..n : j \in 1..(n + 1)
  OBVIOUS
<1> DEFINE Right == /\ skip'.begin <=> Open(n + 2)'
                    /\ skip'.next => skip'.begin \/ key = "ignore/next-line"
                    /\ skip'.next /\ ~skip'.autoReset => skip'.begin
                    /\ skip'.begin /\ skip'.autoReset => StillEnds \/ Ends(n + 1, n + 1)'
                    /\ skip'.begin /\ ~skip'.next => StillEnds
                    /\ key = "ignore/next-line" => skip'.next
<1>a. /\ Open(n + 2)' <=> key = "ignore/begin" \/ (Open(n + 1) /\ key # "ignore/end")
      /\ Says(n + 1, "ignore/next-line")' <=> key = "ignore/next-line"
  BY <1>1
<1>b. /\ n + 1 > 0 /\ (n + 1) + 1 = n + 2
      /\ StillEnds \/ Ends(n + 1, n + 1)' => \E j \in 1..(n + 1) : Ends(j, n + 1)'
  BY <1>9
<1> HIDE DEF StillEnds, key
<1> SUFFICES Right
  BY <1>7, <1>a, <1>b DEF SkipRemembers
<1>10. CASE key = "ignore/line"
  <2>1. CASE skip.begin
    <3>1. skip' = skip
      BY <1>10, <2>1 DEF AfterLine, key
    <3> QED
      BY <1>a, <1>4, <1>5, <1>6, <1>10, <2>1, <3>1
  <2>2. CASE ~skip.begin
    <3>1. ~skip'.next /\ skip'.autoReset /\ ~skip'.begin
      BY <1>10, <2>2 DEF AfterLine, SkipType, key
    <3> QED
      BY <1>a, <1>4, <1>10, <2>2, <3>1
  <2> QED
    BY <2>1, <2>2
<1>11. CASE key = "ignore/next-line"
  <2>1. skip'.next /\ skip'.autoReset /\ (skip'.begin <=> skip.begin)
    BY <1>11 DEF AfterLine, SkipType, key
  <2> QED
    BY <1>a, <1>4, <1>8, <1>11, <2>1
<1>12. CASE key = "ignore/begin"
  <2>1. skip'.next /\ ~skip'.autoReset /\ skip'.begin
    BY <1>12 DEF AfterLine, SkipType, key
  <2> QED
    BY <1>a, <1>12, <2>1
<1>13. CASE key = "ignore/end"
  <2>1. ~skip'.next /\ skip'.autoReset /\ ~skip'.begin
    BY <1>13 DEF AfterLine, SkipType, key
  <2> QED
    BY <1>a, <1>13, <2>1
<1>14. CASE key \notin {"ignore/line", "ignore/next-line", "ignore/begin", "ignore/end"}
  <2>1. /\ skip'.next <=> skip.next /\ ~skip.autoReset
        /\ skip'.autoReset <=> skip.autoReset
        /\ skip'.begin <=> skip.begin
    BY <1>14 DEF AfterLine, SkipType, key
  <2> QED
    BY <1>a, <1>4, <1>5, <1>6, <1>14, <2>1
<1> QED
  BY <1>10, <1>11, <1>12, <1>13, <1>14

LEMMA AskedBefore ==
    ASSUME lines \in Seq(LineKinds), NEW l \in LineKinds, lines' = Append(lines, l),
           NEW n \in Nat, n = Len(lines)
    PROVE  /\ \A i \in 1..n : AskedToIgnore(i)' <=> AskedToIgnore(i)
           /\ AskedToIgnore(n + 1)' <=>
                \/ \E j \in 1..n : Says(j, "ignore/file")
                \/ l.pint.key \in {"ignore/file", "ignore/line"}
                \/ n > 0 /\ Says(n, "ignore/next-line")
                \/ Open(n + 1)
<1>1. /\ \A j \in 1..n : \A key : Says(j, key)' <=> Says(j, key)
      /\ \A key : Says(n + 1, key)' <=> l.pint.key = key
      /\ \A i \in 1..(n + 1) : Open(i)' <=> Open(i)
  BY SaidBefore
<1>2. ASSUME NEW i \in 1..n PROVE AskedToIgnore(i)' <=> AskedToIgnore(i)
  <2>1. i \in 1..(n + 1) /\ (\A j \in 1..i : j \in 1..n) /\ (i > 1 => i - 1 \in 1..n)
    OBVIOUS
  <2> QED
    BY <1>1, <2>1 DEF AskedToIgnore
<1>3. AskedToIgnore(n + 1)' <=>
        \/ \E j \in 1..n : Says(j, "ignore/file")
        \/ l.pint.key \in {"ignore/file", "ignore/line"}
        \/ n > 0 /\ Says(n, "ignore/next-line")
        \/ Open(n + 1)
  <2>1. /\ n + 1 \in 1..(n + 1) /\ (\A j \in 1..n : j \in 1..(n + 1))
        /\ \A j \in 1..(n + 1) : j \in 1..n \/ j = n + 1
        /\ n + 1 > 1 <=> n > 0
        /\ n > 0 => n \in 1..n
        /\ (n + 1) - 1 = n
    OBVIOUS
  <2>2. (\E j \in 1..(n + 1) : Says(j, "ignore/file")') <=>
           (\E j \in 1..n : Says(j, "ignore/file")) \/ l.pint.key = "ignore/file"
    BY <1>1, <2>1
  <2>3. n > 0 => (Says(n, "ignore/next-line")' <=> Says(n, "ignore/next-line"))
    BY <1>1, <2>1
  <2>4. /\ Says(n + 1, "ignore/line")' <=> l.pint.key = "ignore/line"
        /\ Open(n + 1)' <=> Open(n + 1)
    BY <1>1, <2>1
  <2>5. AskedToIgnore(n + 1)' <=>
          \/ \E j \in 1..(n + 1) : Says(j, "ignore/file")'
          \/ Says(n + 1, "ignore/line")'
          \/ n > 0 /\ Says(n, "ignore/next-line")'
          \/ Open(n + 1)'
    BY <2>1 DEF AskedToIgnore
  <2> QED
    BY <2>2, <2>3, <2>4, <2>5
<1> QED
  BY <1>2, <1>3

USE LinesHaveParts

LineType == [pint : {l.pint : l \in LineKinds}, text : {l.text : l \in LineKinds} \cup {NoText}]

LEMMA EmptyLineIsEmpty ==
    ASSUME NEW l \in LineKinds
    PROVE  /\ l \in LineType /\ emptyLine(l) \in LineType
           /\ emptyLine(l).text = NoText /\ emptyLine(l).pint = l.pint
<1>1. l = [pint |-> l.pint, text |-> l.text]
  OBVIOUS
<1>2. emptyLine(l) = [pint |-> l.pint, text |-> NoText]
  BY <1>1 DEF emptyLine
<1> QED
  BY <1>1, <1>2 DEF LineType

LEMMA ReadInitInv == ReadInit => ReadInv
<1> SUFFICES ASSUME ReadInit PROVE ReadInv
  OBVIOUS
<1>1. lines = <<>> /\ Len(lines) = 0 /\ DOMAIN lines = {}
  BY DEF ReadInit
<1>2. /\ content = [body |-> <<>>, ignored |-> FALSE] /\ content.body = <<>>
      /\ ~skip.next /\ ~skip.autoReset /\ ~skip.all /\ ~skip.begin
  BY DEF ReadInit
<1>3. content \in [body : Seq(LineType), ignored : BOOLEAN] /\ skip \in SkipType
      /\ lines \in Seq(LineKinds)
  BY DEF ReadInit, SkipType
<1>4. BodyFollows
  BY <1>1, <1>2 DEF BodyFollows
<1>5. SkipRemembers(Len(lines))
  <2>1. ~Open(0 + 1)
    BY DEF Open
  <2>2. ~skip.begin /\ ~skip.next /\ ~(0 > 0)
    BY <1>2
  <2>3. SkipRemembers(0)
    BY <2>1, <2>2 DEF SkipRemembers
  <2> QED
    BY <1>1, <2>3
<1>6. IgnoredAsAsked
  BY <1>1 DEF IgnoredAsAsked
<1> QED
  BY <1>3, <1>4, <1>5, <1>6 DEF ReadInv, SkipType, LineType

LEMMA ReadLineKeeps ==
    ASSUME ReadInv, NEW l \in LineKinds, ReadLine(l)
    PROVE  ReadInv'
<1> DEFINE key == l.pint.key
           kept == IF Emptied(skip, key) THEN emptyLine(l) ELSE l
<1>1. PICK n \in Nat : n = Len(lines)
  BY HistoryGrows DEF ReadInv
<1>2. /\ lines \in Seq(LineKinds) /\ lines' = Append(lines, l) /\ skip \in SkipType
      /\ content.body \in Seq(LineType) /\ content.ignored \in BOOLEAN
      /\ BodyFollows /\ SkipRemembers(n) /\ IgnoredAsAsked
  BY <1>1 DEF ReadInv, ReadLine, LineType, SkipType
<1>3. /\ content' = [body |-> Append(content.body, kept),
                     ignored |-> content.ignored \/ (~skip.all /\ key = "ignore/file")]
      /\ skip' = IF skip.all THEN skip ELSE AfterLine(skip, key)
  BY DEF ReadLine
<1>4. /\ DOMAIN lines = 1..n /\ DOMAIN lines' = 1..(n + 1) /\ Len(lines') = n + 1
      /\ lines'[n + 1] = l /\ (\A j \in 1..n : lines'[j] = lines[j])
      /\ lines' \in Seq(LineKinds)
  BY <1>1, <1>2, HistoryGrows
<1>5. kept \in LineType /\ kept \in {l, emptyLine(l)}
  BY EmptyLineIsEmpty
<1>6. Len(content.body) = n
  BY <1>1, <1>2 DEF BodyFollows
<1> HIDE DEF kept
<1>7. /\ content'.body = Append(content.body, kept) /\ content'.body \in Seq(LineType)
      /\ Len(content'.body) = n + 1 /\ DOMAIN content'.body = 1..(n + 1)
      /\ DOMAIN content.body = 1..n
      /\ content'.body[n + 1] = kept
      /\ \A i \in 1..n : content'.body[i] = content.body[i]
  <2>1. content'.body = Append(content.body, kept)
    BY <1>3
  <2> QED
    BY <2>1, <1>2, <1>5, <1>6
<1>8. content'.ignored \in BOOLEAN /\ content' \in [body : Seq(LineType), ignored : BOOLEAN]
  <2>1. (content.ignored \/ (~skip.all /\ key = "ignore/file")) \in BOOLEAN
    BY <1>2
  <2> QED
    BY <1>3, <1>7, <2>1
<1>9. /\ \A j \in 1..n : \A k : Says(j, k)' <=> Says(j, k)
      /\ \A k : Says(n + 1, k)' <=> key = k
  BY <1>1, <1>2, SaidBefore
<1>10. skip' \in SkipType /\ SkipRemembers(n + 1)'
  BY <1>1, <1>2, <1>3, SkipStaysRight
<1>11. skip.all <=> \E j \in 1..n : Says(j, "ignore/file")
  BY <1>2, <1>4 DEF BodyFollows
<1>12. BodyFollows'
  <2>1. Len(content'.body) = Len(lines')
    BY <1>4, <1>7
  <2>2. ASSUME NEW i \in 1..(n + 1)
        PROVE  content'.body[i] \in {lines'[i], emptyLine(lines'[i])}
    <3>1. CASE i = n + 1
      BY <1>4, <1>5, <1>7, <3>1
    <3>2. CASE i # n + 1
      <4>1. i \in 1..n
        BY <3>2
      <4>2. content.body[i] \in {lines[i], emptyLine(lines[i])}
        BY <1>2, <1>4, <4>1 DEF BodyFollows
      <4> QED
        BY <1>4, <1>7, <4>1, <4>2
    <3> QED
      BY <3>1, <3>2
  <2>3. skip'.all <=> skip.all \/ key = "ignore/file"
    BY <1>2, <1>3 DEF AfterLine, SkipType
  <2>4. (\E j \in 1..(n + 1) : Says(j, "ignore/file")') <=>
           (\E j \in 1..n : Says(j, "ignore/file")) \/ key = "ignore/file"
    <3>1. \A j \in 1..(n + 1) : j \in 1..n \/ j = n + 1
      OBVIOUS
    <3>2. n + 1 \in 1..(n + 1) /\ \A j \in 1..n : j \in 1..(n + 1)
      OBVIOUS
    <3> QED
      BY <1>9, <3>1, <3>2
  <2>5. skip'.all <=> \E j \in 1..(n + 1) : Says(j, "ignore/file")'
    BY <1>11, <2>3, <2>4
  <2> QED
    BY <1>4, <2>1, <2>2, <2>5 DEF BodyFollows
<1>13. ASSUME NEW i \in DOMAIN lines', lines'[i].text # NoText
       PROVE  /\ i \notin Kept' => AskedToIgnore(i)'
              /\ AskedToIgnore(i)' => i \notin Kept' \/ Ended(i)' \/ lines'[i].pint.key \in Markers
  <2>1. i \in Kept' <=> content'.body[i].text # NoText
    BY <1>4, <1>7 DEF Kept
  <2>2. CASE i \in 1..n
    <3>1. lines'[i] = lines[i] /\ i \in DOMAIN lines
      BY <1>4, <2>2
    <3>2. i \in Kept <=> i \in Kept'
      BY <1>7, <2>1, <2>2 DEF Kept
    <3>3. /\ AskedToIgnore(i)' <=> AskedToIgnore(i)
          /\ Ended(i)' <=> Ended(i)
      <4>1. i \in 1..(n + 1)
        BY <2>2
      <4> QED
        BY <1>1, <1>2, <2>2, <4>1, AskedBefore, EndedBefore
    <3>4. /\ i \notin Kept => AskedToIgnore(i)
          /\ AskedToIgnore(i) => i \notin Kept \/ Ended(i) \/ lines[i].pint.key \in Markers
      BY <1>2, <1>13, <3>1 DEF IgnoredAsAsked
    <3> QED
      BY <3>1, <3>2, <3>3, <3>4
  <2>3. CASE i = n + 1
    <3>1. lines'[i] = l /\ l.text # NoText /\ content'.body[i] = kept
      BY <1>4, <1>7, <1>13, <2>3
    <3>2. i \notin Kept' <=> Emptied(skip, key)
      <4>1. emptyLine(l).text = NoText
        BY EmptyLineIsEmpty
      <4> QED
        BY <2>1, <3>1, <4>1 DEF kept
    <3>3. AskedToIgnore(n + 1)' <=>
            \/ \E j \in 1..n : Says(j, "ignore/file")
            \/ key \in {"ignore/file", "ignore/line"}
            \/ n > 0 /\ Says(n, "ignore/next-line")
            \/ Open(n + 1)
      BY <1>1, <1>2, AskedBefore
    <3>4. Ended(n + 1)' <=> Ended(n + 1)
      <4>1. n + 1 \in 1..(n + 1)
        OBVIOUS
      <4> QED
        BY <1>1, <1>2, <4>1, EndedBefore
    <3>5. ~skip.all => /\ skip.begin <=> Open(n + 1)
                       /\ skip.next => skip.begin \/ (n > 0 /\ Says(n, "ignore/next-line"))
                       /\ skip.begin /\ ~skip.next => Ended(n + 1)
                       /\ n > 0 /\ Says(n, "ignore/next-line") => skip.next
      BY <1>2 DEF SkipRemembers
    <3>6. Emptied(skip, key) => AskedToIgnore(n + 1)'
      BY <1>11, <3>3, <3>5 DEF Emptied
    <3>7. AskedToIgnore(n + 1)' => Emptied(skip, key) \/ Ended(n + 1) \/ key \in Markers
      BY <1>11, <3>3, <3>5 DEF Emptied
    <3> QED
      BY <2>3, <3>1, <3>2, <3>4, <3>6, <3>7
  <2> QED
    BY <1>4, <2>2, <2>3
<1>14. IgnoredAsAsked'
  BY <1>13 DEF IgnoredAsAsked
<1>15. SkipRemembers(Len(lines))'
  BY <1>4, <1>10 DEF SkipRemembers, Says, Ends, Ended, Open
<1> QED
  BY <1>4, <1>8, <1>10, <1>12, <1>14, <1>15 DEF ReadInv, SkipType, LineType

(* ReadContent: what its four variables remember is what the lines read so *)
(* far say.                                                                *)
THEOREM ReadInvariant == Spec => []ReadInv
<1>1. Init => ReadInv
  BY ReadInitInv DEF Init
<1>2. ReadInv /\ [Next]_vars => ReadInv'
  <2>1. CASE \E l \in LineKinds : ReadLine(l)
    BY <2>1, ReadLineKeeps
  <2>2. ASSUME ReadInv, UNCHANGED vars PROVE ReadInv'
    BY <2>2 DEF vars, ReadInv, BodyFollows, SkipRemembers, IgnoredAsAsked, Says, Ends, Ended,
       Open, Kept, AskedToIgnore
  <2> QED
    BY <2>1, <2>2 DEF Next, Read
<1> QED
  BY <1>1, <1>2, PTL DEF Spec

(* docs/ignoring.md and ReadContent: a line is taken away exactly when a   *)
(* comment of the file asks for it.                                        *)
THEOREM LinesIgnoredAsAsked == Spec => []IgnoredAsAsked
<1>1. ReadInv => IgnoredAsAsked
  BY DEF ReadInv
<1> QED
  BY <1>1, ReadInvariant, PTL
HIDE LinesHaveParts
----------------------------------------------------------------------------
(* Lists of checks.  FlattenSeq is a recursive function: it is shown to    *)
(* exist, and to keep all, by induction.                                   *)

(* Of the intervals 0..x that end in a set of naturals one is least.       *)
LEMMA LeastExists ==
    ASSUME NEW S, S \subseteq Nat, S # {}
    PROVE  \E x \in S : \A y \in S : x <= y
<1> DEFINE T == {0..x : x \in S}
<1>1. T \subseteq FiniteSubsetsOf(Nat)
  <2> SUFFICES ASSUME NEW x \in S PROVE 0..x \in FiniteSubsetsOf(Nat)
    OBVIOUS
  <2>1. x \in Nat
    OBVIOUS
  <2>2. 0..x \subseteq Nat /\ IsFiniteSet(0..x)
    BY <2>1, FS_Interval
  <2> QED
    BY <2>2 DEF FiniteSubsetsOf
<1>2. PICK t \in T : \A u \in T : ~(<<u, t>> \in StrictSubsetOrdering(Nat))
  <2>1. T # {}
    OBVIOUS
  <2> HIDE DEF T
  <2> QED
    BY <1>1, <2>1, WFMin, FS_StrictSubsetOrderingWellFounded
<1>3. PICK x \in S : t = 0..x
  OBVIOUS
<1>4. ASSUME NEW y \in S, y < x PROVE FALSE
  <2>1. x \in Nat /\ y \in Nat
    OBVIOUS
  <2>2. 0..y \subseteq 0..x /\ 0..x \subseteq Nat /\ x \in 0..x /\ x \notin 0..y
    BY <1>4, <2>1
  <2>3. <<0..y, 0..x>> \in StrictSubsetOrdering(Nat)
    BY <2>2 DEF StrictSubsetOrdering
  <2>4. 0..y \in T
    OBVIOUS
  <2> HIDE DEF T
  <2> QED
    BY <1>2, <1>3, <2>3, <2>4
<1>5. \A y \in S : x <= y
  <2>1. \A z \in S : z \in Nat
    OBVIOUS
  <2> QED
    BY <1>4, <2>1
<1> QED
  BY <1>5

(* Induction, for a set: it has no least natural outside it.               *)
LEMMA SetInduction ==
    ASSUME NEW S, 0 \in S, \A n \in Nat : n \in S => n + 1 \in S
    PROVE  Nat \subseteq S
<1> DEFINE U == Nat \ S
<1> SUFFICES ASSUME U # {} PROVE FALSE
  OBVIOUS
<1>1. PICK k \in U : \A y \in U : k <= y
  <2>1. U \subseteq Nat
    OBVIOUS
  <2> HIDE DEF U
  <2> QED
    BY <2>1, LeastExists
<1>2. k # 0 /\ k \in Nat
  OBVIOUS
<1>3. k - 1 \in Nat /\ ~(k <= k - 1) /\ (k - 1) + 1 = k
  BY <1>2
<1>4. k - 1 \in S
  BY <1>1, <1>3
<1> QED
  BY <1>3, <1>4


LEMMA MappingIsSeq ==
    ASSUME NEW n \in Nat, NEW f, f = [i \in 1..n |-> f[i]]
    PROVE  /\ IsSeq(f) /\ Len(f) = n /\ DOMAIN f = 1..n
           /\ Range(f) = {f[i] : i \in 1..n}
<1>1. DOMAIN f = 1..n
  OBVIOUS
<1>2. Range(f) = {f[i] : i \in 1..n}
  BY <1>1 DEF Range
<1>3. \A i \in 1..n : f[i] \in Range(f)
  BY <1>2
<1>4. f \in Seq(Range(f)) /\ Len(f) = n
  BY <1>3
<1> QED
  BY <1>1, <1>2, <1>4 DEF IsSeq

LEMMA SeqIsMapping ==
    ASSUME NEW s, IsSeq(s)
    PROVE  Len(s) \in Nat /\ DOMAIN s = 1..Len(s) /\ s = [i \in 1..Len(s) |-> s[i]]
  BY DEF IsSeq

LEMMA ConcatElements ==
    ASSUME NEW s, IsSeq(s), NEW t, IsSeq(t)
    PROVE  /\ Len(s) \in Nat /\ Len(t) \in Nat
           /\ DOMAIN s = 1..Len(s) /\ DOMAIN t = 1..Len(t)
           /\ s \o t \in Seq(Range(s) \cup Range(t)) /\ Len(s \o t) = Len(s) + Len(t)
           /\ DOMAIN (s \o t) = 1..(Len(s) + Len(t))
           /\ \A i \in 1..Len(s) : (s \o t)[i] = s[i]
           /\ \A i \in 1..Len(t) : (s \o t)[Len(s) + i] = t[i]
<1> DEFINE T == Range(s) \cup Range(t)
<1>1. s \in Seq(T) /\ t \in Seq(T)
  <2>1. /\ Len(s) \in Nat /\ s = [i \in 1..Len(s) |-> s[i]] /\ DOMAIN s = 1..Len(s)
        /\ Len(t) \in Nat /\ t = [i \in 1..Len(t) |-> t[i]] /\ DOMAIN t = 1..Len(t)
    BY SeqIsMapping
  <2>2. (\A i \in 1..Len(s) : s[i] \in T) /\ (\A i \in 1..Len(t) : t[i] \in T)
    BY <2>1 DEF Range
  <2> HIDE DEF T
  <2> QED
    BY <2>1, <2>2
<1> HIDE DEF T
<1>2. /\ Len(s) \in Nat /\ Len(t) \in Nat
      /\ DOMAIN s = 1..Len(s) /\ DOMAIN t = 1..Len(t)
      /\ s \o t \in Seq(T) /\ Len(s \o t) = Len(s) + Len(t)
      /\ DOMAIN (s \o t) = 1..(Len(s) + Len(t))
      /\ \A i \in 1..Len(s) : (s \o t)[i] = s[i]
      /\ \A i \in 1..Len(t) : (s \o t)[Len(s) + i] = t[i]
  BY <1>1
<1> QED
  BY <1>2, Zenon DEF T

LEMMA ConcatIsSeq ==
    ASSUME NEW s, IsSeq(s), NEW t, IsSeq(t)
    PROVE  IsSeq(s \o t) /\ Range(s \o t) = Range(s) \cup Range(t)
<1> DEFINE T == Range(s) \cup Range(t)
<1>2. /\ Len(s) \in Nat /\ Len(t) \in Nat
      /\ DOMAIN s = 1..Len(s) /\ DOMAIN t = 1..Len(t)
      /\ s \o t \in Seq(T) /\ Len(s \o t) = Len(s) + Len(t)
      /\ DOMAIN (s \o t) = 1..(Len(s) + Len(t))
      /\ \A i \in 1..Len(s) : (s \o t)[i] = s[i]
      /\ \A i \in 1..Len(t) : (s \o t)[Len(s) + i] = t[i]
  BY ConcatElements
<1> HIDE DEF T
<1>3. s \o t = [i \in 1..(Len(s) + Len(t)) |-> (s \o t)[i]]
  <2>1. \A u \in Seq(T) : u = [i \in 1..Len(u) |-> u[i]]
    OBVIOUS
  <2> QED
    BY <1>2, <2>1
<1>4. IsSeq(s \o t) /\ Range(s \o t) = {(s \o t)[i] : i \in 1..(Len(s) + Len(t))}
  <2>1. Len(s) + Len(t) \in Nat
    BY <1>2
  <2> QED
    BY <1>3, <2>1, MappingIsSeq
<1>5. ASSUME NEW i \in 1..(Len(s) + Len(t)) PROVE (s \o t)[i] \in Range(s) \cup Range(t)
  <2>1. CASE i <= Len(s)
    <3>1. i \in 1..Len(s)
      BY <1>2, <2>1
    <3> QED
      BY <1>2, <3>1 DEF Range
  <2>2. CASE i > Len(s)
    <3>1. i - Len(s) \in 1..Len(t) /\ Len(s) + (i - Len(s)) = i
      BY <1>2, <2>2
    <3>2. (s \o t)[i] = t[i - Len(s)]
      BY <1>2, <3>1
    <3> QED
      BY <1>2, <3>1, <3>2 DEF Range
  <2> QED
    BY <1>2, <2>1, <2>2
<1>6. ASSUME NEW i \in 1..Len(s) PROVE s[i] \in Range(s \o t)
  <2>1. i \in 1..(Len(s) + Len(t)) /\ (s \o t)[i] = s[i]
    BY <1>2
  <2> QED
    BY <1>4, <2>1
<1>7. ASSUME NEW i \in 1..Len(t) PROVE t[i] \in Range(s \o t)
  <2>1. Len(s) + i \in 1..(Len(s) + Len(t)) /\ (s \o t)[Len(s) + i] = t[i]
    BY <1>2
  <2> QED
    BY <1>4, <2>1
<1>8. Range(s \o t) \subseteq Range(s) \cup Range(t)
  BY <1>4, <1>5
<1>9. Range(s) \subseteq Range(s \o t) /\ Range(t) \subseteq Range(s \o t)
  BY <1>2, <1>6, <1>7 DEF Range
<1> QED
  BY <1>4, <1>8, <1>9

(* The steps of FlattenSeq.                                                *)
Flattens(f, q, m) == f = [i \in 1..m |-> IF i = 1 THEN q[i] ELSE f[i - 1] \o q[i]]

LEMMA FlattenSeqDef ==
    ASSUME NEW q, IsSeq(q), Len(q) # 0
    PROVE  \E f : Flattens(f, q, Len(q)) /\ FlattenSeq(q) = f[Len(q)]
<1> DEFINE S == {m \in Nat : \E f : Flattens(f, q, m)}
<1>1. 0 \in S
  <2>1. Flattens([i \in 1..0 |-> <<>>], q, 0)
    BY DEF Flattens
  <2> QED
    BY <2>1
<1>2. ASSUME NEW m \in Nat, m \in S PROVE m + 1 \in S
  <2>1. PICK f : Flattens(f, q, m)
    BY <1>2
  <2> DEFINE h == [i \in 1..(m + 1) |->
                     IF i = m + 1 THEN IF m = 0 THEN q[i] ELSE f[m] \o q[i] ELSE f[i]]
  <2>2. Flattens(h, q, m + 1)
    <3>1. \A i \in 1..m : f[i] = IF i = 1 THEN q[i] ELSE f[i - 1] \o q[i]
      BY <2>1 DEF Flattens
    <3>2. ASSUME NEW i \in 1..(m + 1)
          PROVE  h[i] = IF i = 1 THEN q[i] ELSE h[i - 1] \o q[i]
      <4>1. CASE i = m + 1 /\ m = 0
        BY <4>1
      <4>2. CASE i = m + 1 /\ m # 0
        <5>1. i - 1 = m /\ m \in 1..(m + 1) /\ m # m + 1 /\ i # 1
          BY <4>2
        <5>2. h[m] = f[m]
          BY <5>1
        <5>3. h[i] = f[m] \o q[i]
          BY <4>2
        <5> HIDE DEF h
        <5> QED
          BY <5>1, <5>2, <5>3
      <4>3. CASE i # m + 1
        BY <3>1, <4>3
      <4> QED
        BY <4>1, <4>2, <4>3
    <3> QED
      BY <3>2 DEF Flattens
  <2> HIDE DEF h
  <2> QED
    BY <2>2
<1>3. Nat \subseteq S
  <2> HIDE DEF S
  <2> QED
    BY <1>1, <1>2, SetInduction
<1>4. Len(q) \in Nat
  BY SeqIsMapping
<1>5. \E f : Flattens(f, q, Len(q))
  <2>1. Len(q) \in S
    <3> HIDE DEF S
    <3> QED
      BY <1>3, <1>4
  <2> QED
    BY <2>1
<1> DEFINE F == CHOOSE f : Flattens(f, q, Len(q))
<1>6. Flattens(F, q, Len(q))
  BY <1>5
<1>7. FlattenSeq(q) = F[Len(q)]
  BY DEF FlattenSeq, Flattens
<1> QED
  BY <1>6, <1>7

(* What is in a joined list twice.                                         *)
Twice(s, c) == \E a, b \in DOMAIN s : a < b /\ s[a] = c /\ s[b] = c

LEMMA ConcatTwice ==
    ASSUME NEW s, IsSeq(s), NEW t, IsSeq(t), NEW c
    PROVE  Twice(s \o t, c) <=>
             Twice(s, c) \/ Twice(t, c) \/ (c \in Range(s) /\ c \in Range(t))
<1> DEFINE n == Len(s)
           m == Len(t)
           u == s \o t
<1>1. /\ n \in Nat /\ m \in Nat
      /\ DOMAIN s = 1..n /\ DOMAIN t = 1..m /\ DOMAIN u = 1..(n + m)
      /\ \A i \in 1..n : u[i] = s[i]
      /\ \A i \in 1..m : u[n + i] = t[i]
  BY ConcatElements
<1>2. /\ c \in Range(s) <=> \E i \in 1..n : s[i] = c
      /\ c \in Range(t) <=> \E i \in 1..m : t[i] = c
  BY <1>1 DEF Range
<1> HIDE DEF n, m, u
<1>3. ASSUME Twice(u, c)
      PROVE  Twice(s, c) \/ Twice(t, c) \/ (c \in Range(s) /\ c \in Range(t))
  <2>1. PICK a \in 1..(n + m), b \in 1..(n + m) : a < b /\ u[a] = c /\ u[b] = c
    BY <1>1, <1>3 DEF Twice
  <2>2. CASE b <= n
    <3>1. a \in 1..n /\ b \in 1..n
      BY <1>1, <2>1, <2>2
    <3> QED
      BY <1>1, <2>1, <3>1 DEF Twice
  <2>3. CASE a > n
    <3>1. /\ a - n \in 1..m /\ b - n \in 1..m /\ a - n < b - n
          /\ n + (a - n) = a /\ n + (b - n) = b
      BY <1>1, <2>1, <2>3
    <3>2. t[a - n] = c /\ t[b - n] = c
      BY <1>1, <2>1, <3>1
    <3> QED
      BY <1>1, <3>1, <3>2 DEF Twice
  <2>4. CASE a <= n /\ b > n
    <3>1. a \in 1..n /\ b - n \in 1..m /\ n + (b - n) = b
      BY <1>1, <2>1, <2>4
    <3>2. s[a] = c /\ t[b - n] = c
      BY <1>1, <2>1, <3>1
    <3> QED
      BY <1>2, <3>1, <3>2
  <2>5. b <= n \/ a > n \/ (a <= n /\ b > n)
    BY <1>1, <2>1
  <2> QED
    BY <2>2, <2>3, <2>4, <2>5
<1>4. ASSUME Twice(s, c) PROVE Twice(u, c)
  <2>1. PICK a \in 1..n, b \in 1..n : a < b /\ s[a] = c /\ s[b] = c
    BY <1>1, <1>4 DEF Twice
  <2>2. a \in DOMAIN u /\ b \in DOMAIN u /\ u[a] = c /\ u[b] = c
    BY <1>1, <2>1
  <2> QED
    BY <2>1, <2>2 DEF Twice
<1>5. ASSUME Twice(t, c) PROVE Twice(u, c)
  <2>1. PICK a \in 1..m, b \in 1..m : a < b /\ t[a] = c /\ t[b] = c
    BY <1>1, <1>5 DEF Twice
  <2>2. n + a \in DOMAIN u /\ n + b \in DOMAIN u /\ n + a < n + b
    BY <1>1, <2>1
  <2>3. u[n + a] = c /\ u[n + b] = c
    BY <1>1, <2>1
  <2> QED
    BY <2>2, <2>3 DEF Twice
<1>6. ASSUME c \in Range(s), c \in Range(t) PROVE Twice(u, c)
  <2>1. PICK a \in 1..n : s[a] = c
    BY <1>2, <1>6
  <2>2. PICK b \in 1..m : t[b] = c
    BY <1>2, <1>6
  <2>3. a \in DOMAIN u /\ n + b \in DOMAIN u /\ a < n + b
    BY <1>1, <2>1, <2>2
  <2>4. u[a] = c /\ u[n + b] = c
    BY <1>1, <2>1, <2>2
  <2> QED
    BY <2>3, <2>4 DEF Twice
<1> QED
  BY <1>3, <1>4, <1>5, <1>6 DEF u

(* FlattenSeq keeps what is in each of its lists, as often as it is there. *)
InLists(q, m, c) == \E i \in 1..m : c \in Range(q[i])
TwiceInLists(q, m, c) ==
    \/ \E i \in 1..m : Twice(q[i], c)
    \/ \E i, j \in 1..m : i < j /\ c \in Range(q[i]) /\ c \in Range(q[j])

LEMMA OneMoreList ==
    ASSUME NEW q, NEW m \in Nat, NEW c
    PROVE  /\ InLists(q, m + 1, c) <=> InLists(q, m, c) \/ c \in Range(q[m + 1])
           /\ TwiceInLists(q, m + 1, c) <=>
                \/ TwiceInLists(q, m, c) \/ Twice(q[m + 1], c)
                \/ InLists(q, m, c) /\ c \in Range(q[m + 1])
<1>1. \A i : i \in 1..(m + 1) <=> i \in 1..m \/ i = m + 1
  OBVIOUS
<1>2. \A i \in 1..m : i < m + 1 /\ ~(m + 1 < i)
  OBVIOUS
<1>3. ~(m + 1 < m + 1)
  OBVIOUS
<1> QED
  BY <1>1, <1>2, <1>3, ZenonT(60) DEF InLists, TwiceInLists

LEMMA FlattenKeepsAll ==
    ASSUME NEW q, IsSeq(q), \A i \in 1..Len(q) : IsSeq(q[i])
    PROVE  /\ IsSeq(FlattenSeq(q))
           /\ \A c : c \in Range(FlattenSeq(q)) <=> InLists(q, Len(q), c)
           /\ \A c : Twice(FlattenSeq(q), c) <=> TwiceInLists(q, Len(q), c)
<1>1. Len(q) \in Nat /\ DOMAIN q = 1..Len(q)
  BY SeqIsMapping
<1> DEFINE Good(s, m) == /\ IsSeq(s)
                         /\ \A c : c \in Range(s) <=> InLists(q, m, c)
                         /\ \A c : Twice(s, c) <=> TwiceInLists(q, m, c)
<1>2. CASE Len(q) = 0
  <2>1. FlattenSeq(q) = q
    BY <1>2 DEF FlattenSeq
  <2>2. Range(q) = {} /\ DOMAIN q = {}
    BY <1>1, <1>2 DEF Range
  <2>3. 1..Len(q) = {}
    BY <1>2
  <2> QED
    BY <2>1, <2>2, <2>3 DEF InLists, TwiceInLists, Twice
<1>3. CASE Len(q) # 0
  <2>1. PICK f : Flattens(f, q, Len(q)) /\ FlattenSeq(q) = f[Len(q)]
    BY <1>3, FlattenSeqDef
  <2>2. \A i \in 1..Len(q) : f[i] = IF i = 1 THEN q[i] ELSE f[i - 1] \o q[i]
    BY <2>1 DEF Flattens
  <2> DEFINE S == {m \in Nat : 1 <= m /\ m <= Len(q) => Good(f[m], m)}
  <2>3. 0 \in S
    OBVIOUS
  <2>4. ASSUME NEW m \in Nat, m \in S PROVE m + 1 \in S
    <3> SUFFICES ASSUME m + 1 <= Len(q) PROVE Good(f[m + 1], m + 1)
      OBVIOUS
    <3>1. m + 1 \in 1..Len(q) /\ (m + 1) - 1 = m
      BY <1>1
    <3>2. CASE m = 0
      <4>1. f[m + 1] = q[m + 1]
        BY <2>2, <3>1, <3>2
      <4>2. \A c : ~InLists(q, m, c) /\ ~TwiceInLists(q, m, c)
        <5>1. 1..m = {}
          BY <3>2
        <5> QED
          BY <5>1 DEF InLists, TwiceInLists
      <4> QED
        BY <3>1, <4>1, <4>2, OneMoreList
    <3>3. CASE m # 0
      <4>1. f[m + 1] = f[m] \o q[m + 1]
        <5>1. m + 1 # 1
          BY <3>3
        <5> HIDE DEF Good
        <5> QED
          BY <2>2, <3>1, <5>1
      <4>2. Good(f[m], m)
        <5>1. 1 <= m /\ m <= Len(q)
          BY <1>1, <3>3
        <5> HIDE DEF Good
        <5> QED
          BY <2>4, <5>1
      <4>3. IsSeq(f[m + 1]) /\ Range(f[m + 1]) = Range(f[m]) \cup Range(q[m + 1])
        BY <3>1, <4>1, <4>2, ConcatIsSeq
      <4>4. \A c : Twice(f[m + 1], c) <=>
                     \/ Twice(f[m], c) \/ Twice(q[m + 1], c)
                     \/ c \in Range(f[m]) /\ c \in Range(q[m + 1])
        BY <3>1, <4>1, <4>2, ConcatTwice
      <4> QED
        BY <4>2, <4>3, <4>4, OneMoreList
    <3> QED
      BY <3>2, <3>3
  <2>5. Nat \subseteq S
    <3> HIDE DEF S
    <3> QED
      BY <2>3, <2>4, SetInduction
  <2>6. Good(f[Len(q)], Len(q))
    <3>1. 1 <= Len(q)
      BY <1>1, <1>3
    <3> HIDE DEF Good
    <3> QED
      BY <1>1, <2>5, <3>1
  <2> QED
    BY <2>1, <2>6
<1> QED
  BY <1>2, <1>3

LEMMA FlattenIsSeq ==
    ASSUME NEW q, IsSeq(q), \A i \in 1..Len(q) : IsSeq(q[i])
    PROVE  /\ IsSeq(FlattenSeq(q))
           /\ \A c \in Range(FlattenSeq(q)) : \E i \in 1..Len(q) : c \in Range(q[i])
  BY FlattenKeepsAll DEF InLists

(* A check is named by its instance first, and queries if its name says so.*)
IsCheck(c) ==
    /\ IsSeq(c.instance) /\ Len(c.instance) > 0 /\ c.instance[1] = c.name
    /\ c.online <=> c.name \in OnlineChecks
AreChecks(s) == IsSeq(s) /\ \A c \in Range(s) : IsCheck(c)

LEMMA TupleIsSeq ==
    /\ IsSeq(<<>>)
    /\ \A a : IsSeq(<<a>>) /\ Range(<<a>>) = {a}
    /\ \A a, b : IsSeq(<<a, b>>)
    /\ \A a, b, c : IsSeq(<<a, b, c>>)
<1>1. IsSeq(<<>>)
  BY DEF IsSeq
<1>2. ASSUME NEW a PROVE IsSeq(<<a>>) /\ Range(<<a>>) = {a}
  BY DEF IsSeq, Range
<1>3. ASSUME NEW a, NEW b PROVE IsSeq(<<a, b>>)
  <2>1. Range(<<a, b>>) = {a, b}
    BY DEF Range
  <2> QED
    BY <2>1 DEF IsSeq
<1>4. ASSUME NEW a, NEW b, NEW c PROVE IsSeq(<<a, b, c>>)
  <2>1. Range(<<a, b, c>>) = {a, b, c}
    BY DEF Range
  <2> QED
    BY <2>1 DEF IsSeq
<1> QED
  BY <1>1, <1>2, <1>3, <1>4

LEMMA CheckIsCheck ==
    ASSUME NEW name, NEW args, IsSeq(args), NEW tags, NEW online, NEW does,
           online <=> name \in OnlineChecks
    PROVE  IsCheck(Check(name, args, tags, online, does))
<1> DEFINE instance == <<name>> \o args
<1>1. IsSeq(<<name>>)
  BY TupleIsSeq
<1>2. IsSeq(instance)
  BY <1>1, ConcatIsSeq
<1>3. Len(instance) > 0 /\ instance[1] = name
  <2> DEFINE T == Range(<<name>>) \cup Range(args)
  <2>1. name \in T
    BY TupleIsSeq
  <2>2. Len(args) \in Nat /\ args = [i \in 1..Len(args) |-> args[i]]
        /\ \A i \in 1..Len(args) : args[i] \in T
    BY SeqIsMapping DEF Range
  <2> HIDE DEF T
  <2>3. args \in Seq(T)
    BY <2>2
  <2> QED
    BY <2>1, <2>2, <2>3
<1> HIDE DEF instance
<1>4. Check(name, args, tags, online, does) =
        [name |-> name, instance |-> instance, tags |-> tags, online |-> online, does |-> does]
  BY DEF Check, instance
<1> QED
  BY <1>2, <1>3, <1>4 DEF IsCheck

LEMMA AreChecksMapped ==
    ASSUME NEW n \in Nat, NEW f, f = [i \in 1..n |-> f[i]], \A i \in 1..n : IsCheck(f[i])
    PROVE  AreChecks(f)
  BY MappingIsSeq DEF AreChecks

LEMMA AreChecksJoined ==
    ASSUME NEW s, AreChecks(s), NEW t, AreChecks(t)
    PROVE  AreChecks(s \o t)
  BY ConcatIsSeq DEF AreChecks

LEMMA AreChecksFlattened ==
    ASSUME NEW n \in Nat, NEW q, q = [i \in 1..n |-> q[i]], \A i \in 1..n : AreChecks(q[i])
    PROVE  AreChecks(FlattenSeq(q))
<1>1. IsSeq(q) /\ Len(q) = n
  BY MappingIsSeq
<1>2. /\ IsSeq(FlattenSeq(q))
      /\ \A c \in Range(FlattenSeq(q)) : \E i \in 1..Len(q) : c \in Range(q[i])
  BY <1>1, FlattenIsSeq DEF AreChecks
<1> QED
  BY <1>1, <1>2 DEF AreChecks

(* The names of the checks that query, and of those that do not.           *)
LEMMA OnlineNames ==
    /\ \A n \in DOMAIN PerServer : PerServer[n] \in OnlineChecks
    /\ \A n \in DOMAIN Builtin : Builtin[n] \notin OnlineChecks
    /\ "query/cost" \in OnlineChecks /\ "alerts/count" \in OnlineChecks
    /\ "rule/link" \in OnlineChecks
    /\ "promql/aggregate" \notin OnlineChecks /\ "alerts/annotation" \notin OnlineChecks
    /\ "rule/label" \notin OnlineChecks /\ "rule/reject" \notin OnlineChecks
<1>1. DOMAIN PerServer = 1..6 /\ DOMAIN Builtin = 1..6
  BY DEF PerServer, Builtin
<1>2. Range(PerServer) = {"promql/rate", "promql/series", "promql/vector_matching",
                          "promql/range_query", "rule/duplicate", "labels/conflict"}
  BY DEF PerServer, Range
<1>3. \A n \in DOMAIN PerServer : PerServer[n] \in Range(PerServer)
  BY DEF Range
<1>4. \A n \in DOMAIN Builtin :
         Builtin[n] \in {"promql/syntax", "alerts/for", "alerts/comparison", "alerts/template",
                         "promql/fragile", "promql/regexp"}
  BY <1>1 DEF Builtin
<1>5. OnlineChecks = {"promql/rate", "promql/series", "promql/vector_matching",
                      "promql/range_query", "rule/duplicate", "labels/conflict",
                      "alerts/count", "query/cost", "rule/link"}
  BY <1>2 DEF OnlineChecks
<1> QED
  BY <1>2, <1>3, <1>4, <1>5

LEMMA OfflineIsCheck ==
    ASSUME NEW name, name \notin OnlineChecks, NEW args, IsSeq(args), NEW does
    PROVE  IsCheck(Offline(name, args, does))
  BY CheckIsCheck DEF Offline

LEMMA OnlineIsCheck ==
    ASSUME NEW name, name \in OnlineChecks, NEW prom, NEW args, IsSeq(args), NEW does
    PROVE  IsCheck(Online(name, prom, args, does))
<1>1. IsSeq(<<prom.name>> \o args)
  BY TupleIsSeq, ConcatIsSeq
<1> QED
  BY <1>1, CheckIsCheck DEF Online

LEMMA OneCheck ==
    ASSUME NEW c, IsCheck(c)
    PROVE  AreChecks(<<c>>)
  BY TupleIsSeq DEF AreChecks

LEMMA ServersAreSeq ==
    ASSUME config \in Configs
    PROVE  IsSeq(proms) /\ Len(proms) \in Nat /\ DOMAIN proms = 1..Len(proms)
<1>1. IsSeq(config.proms)
  BY ConfigsHaveLists
<1> DEFINE q == [i \in DOMAIN config.proms |-> IfEnabled(config.proms[i])]
<1>2. /\ Len(config.proms) \in Nat /\ q = [i \in 1..Len(config.proms) |-> q[i]]
  BY <1>1, SeqIsMapping
<1>3. IsSeq(q) /\ Len(q) = Len(config.proms)
  BY <1>2, MappingIsSeq
<1>4. \A i \in 1..Len(q) : q[i] = IfEnabled(config.proms[i])
  BY <1>1, <1>3, SeqIsMapping
<1>5. \A i \in 1..Len(q) : IsSeq(q[i])
  BY <1>4, TupleIsSeq DEF IfEnabled
<1>6. proms = FlattenSeq(q)
  BY DEF proms, Each
<1> QED
  BY <1>3, <1>5, <1>6, FlattenIsSeq, SeqIsMapping

LEMMA SettingIsSeq ==
    ASSUME NEW b, BlockOK(b), NEW k, k # "match", k # "ignore"
    PROVE  /\ IsSeq(Setting(b, k))
           /\ Len(Setting(b, k)) \in Nat /\ DOMAIN Setting(b, k) = 1..Len(Setting(b, k))
<1>1. IsSeq(Setting(b, k))
  BY TupleIsSeq DEF Setting, BlockOK
<1> QED
  BY <1>1, SeqIsMapping

LEMMA SettingsAreChecks ==
    ASSUME config \in Configs, NEW b, BlockOK(b)
    PROVE  AreChecks(settingsChecks(b))
<1>0. ASSUME NEW k \in {"aggregate", "cost", "annotation", "label", "alerts", "reject", "link"}
      PROVE  /\ IsSeq(Setting(b, k))
             /\ Len(Setting(b, k)) \in Nat /\ DOMAIN Setting(b, k) = 1..Len(Setting(b, k))
  BY SettingIsSeq
<1>1. AreChecks(Each(Setting(b, "aggregate"), aggregateChecks))
  <2> DEFINE st == Setting(b, "aggregate")
             q == [i \in DOMAIN st |-> aggregateChecks(st[i])]
  <2>1. IsSeq(st) /\ Len(st) \in Nat /\ DOMAIN st = 1..Len(st)
    BY <1>0
  <2>2. ASSUME NEW i \in 1..Len(st) PROVE AreChecks(aggregateChecks(st[i]))
    <3> DEFINE s == st[i]
               kept == [j \in DOMAIN s.keep |->
                          Offline("promql/aggregate", <<s.keep[j], TRUE>>, [name |-> s.name])]
               stripped == [j \in DOMAIN s.strip |->
                          Offline("promql/aggregate", <<s.strip[j], FALSE>>, [name |-> s.name])]
    <3>1. IsSeq(s.keep) /\ IsSeq(s.strip)
      <4>1. "aggregate" \in DOMAIN b
        BY <2>1 DEF Setting
      <4>2. s \in Range(b["aggregate"])
        BY <2>1, <4>1 DEF Setting, Range
      <4> QED
        BY <4>1, <4>2 DEF BlockOK
    <3>2. \A l, x : IsCheck(Offline("promql/aggregate", <<l, x>>, [name |-> s.name]))
      BY OnlineNames, OfflineIsCheck, TupleIsSeq
    <3>3. AreChecks(kept)
      <4>1. Len(s.keep) \in Nat /\ kept = [j \in 1..Len(s.keep) |-> kept[j]]
            /\ \A j \in 1..Len(s.keep) : IsCheck(kept[j])
        BY <3>1, <3>2, SeqIsMapping
      <4> HIDE DEF kept
      <4> QED
        BY <4>1, AreChecksMapped
    <3>4. AreChecks(stripped)
      <4>1. Len(s.strip) \in Nat /\ stripped = [j \in 1..Len(s.strip) |-> stripped[j]]
            /\ \A j \in 1..Len(s.strip) : IsCheck(stripped[j])
        BY <3>1, <3>2, SeqIsMapping
      <4> HIDE DEF stripped
      <4> QED
        BY <4>1, AreChecksMapped
    <3>5. aggregateChecks(s) = kept \o stripped
      BY DEF aggregateChecks
    <3> HIDE DEF kept, stripped, s
    <3>6. AreChecks(aggregateChecks(s))
      BY <3>3, <3>4, <3>5, AreChecksJoined
    <3> QED
      BY <3>6 DEF s
  <2>3. q = [i \in 1..Len(st) |-> q[i]] /\ \A i \in 1..Len(st) : AreChecks(q[i])
    BY <2>1, <2>2
  <2>4. Each(Setting(b, "aggregate"), aggregateChecks) = FlattenSeq(q)
    BY DEF Each
  <2> HIDE DEF q, st
  <2>5. AreChecks(FlattenSeq(q))
    BY <2>1, <2>3, AreChecksFlattened
  <2> QED
    BY <2>4, <2>5
<1>2. AreChecks(Each(Setting(b, "cost"), costChecks))
  <2> DEFINE st == Setting(b, "cost")
             q == [i \in DOMAIN st |-> costChecks(st[i])]
  <2>1. Len(st) \in Nat /\ DOMAIN st = 1..Len(st)
    BY <1>0
  <2>2. ASSUME NEW s PROVE AreChecks(costChecks(s))
    <3> DEFINE f == costChecks(s)
    <3>1. /\ Len(proms) \in Nat /\ f = [i \in 1..Len(proms) |-> f[i]]
          /\ \A i \in 1..Len(proms) : IsCheck(f[i])
      <4>1. DOMAIN proms = 1..Len(proms) /\ Len(proms) \in Nat
        BY ServersAreSeq
      <4>2. ASSUME NEW i \in 1..Len(proms)
            PROVE  IsCheck(Online("query/cost", proms[i], IF s.max > 0 THEN <<s.max>> ELSE <<>>, {}))
        BY OnlineNames, OnlineIsCheck, TupleIsSeq
      <4> QED
        BY <4>1, <4>2 DEF costChecks
    <3> HIDE DEF f
    <3> QED
      BY <3>1, AreChecksMapped DEF f
  <2>3. q = [i \in 1..Len(st) |-> q[i]] /\ \A i \in 1..Len(st) : AreChecks(q[i])
    BY <2>1, <2>2
  <2>4. Each(Setting(b, "cost"), costChecks) = FlattenSeq(q)
    BY DEF Each
  <2> HIDE DEF q, st
  <2> QED
    BY <2>1, <2>3, <2>4, AreChecksFlattened
<1>3. AreChecks(Each(Setting(b, "annotation"), annotationChecks))
  <2> DEFINE st == Setting(b, "annotation")
             q == [i \in DOMAIN st |-> annotationChecks(st[i])]
  <2>1. Len(st) \in Nat /\ DOMAIN st = 1..Len(st)
    BY <1>0
  <2>2. ASSUME NEW s PROVE AreChecks(annotationChecks(s))
    BY OnlineNames, OfflineIsCheck, TupleIsSeq, OneCheck DEF annotationChecks
  <2>3. q = [i \in 1..Len(st) |-> q[i]] /\ \A i \in 1..Len(st) : AreChecks(q[i])
    BY <2>1, <2>2
  <2>4. Each(Setting(b, "annotation"), annotationChecks) = FlattenSeq(q)
    BY DEF Each
  <2> HIDE DEF q, st
  <2> QED
    BY <2>1, <2>3, <2>4, AreChecksFlattened
<1>4. AreChecks(Each(Setting(b, "label"), labelChecks))
  <2> DEFINE st == Setting(b, "label")
             q == [i \in DOMAIN st |-> labelChecks(st[i])]
  <2>1. Len(st) \in Nat /\ DOMAIN st = 1..Len(st)
    BY <1>0
  <2>2. ASSUME NEW s PROVE AreChecks(labelChecks(s))
    BY OnlineNames, OfflineIsCheck, TupleIsSeq, OneCheck DEF labelChecks
  <2>3. q = [i \in 1..Len(st) |-> q[i]] /\ \A i \in 1..Len(st) : AreChecks(q[i])
    BY <2>1, <2>2
  <2>4. Each(Setting(b, "label"), labelChecks) = FlattenSeq(q)
    BY DEF Each
  <2> HIDE DEF q, st
  <2> QED
    BY <2>1, <2>3, <2>4, AreChecksFlattened
<1>5. AreChecks(Each(Setting(b, "alerts"), alertsChecks))
  <2> DEFINE st == Setting(b, "alerts")
             q == [i \in DOMAIN st |-> alertsChecks(st[i])]
  <2>1. Len(st) \in Nat /\ DOMAIN st = 1..Len(st)
    BY <1>0
  <2>2. ASSUME NEW s PROVE AreChecks(alertsChecks(s))
    <3> DEFINE f == alertsChecks(s)
    <3>1. /\ Len(proms) \in Nat /\ f = [i \in 1..Len(proms) |-> f[i]]
          /\ \A i \in 1..Len(proms) : IsCheck(f[i])
      <4>1. DOMAIN proms = 1..Len(proms) /\ Len(proms) \in Nat
        BY ServersAreSeq
      <4>2. ASSUME NEW i \in 1..Len(proms)
            PROVE  IsCheck(Online("alerts/count", proms[i], <<>>, s))
        BY OnlineNames, OnlineIsCheck, TupleIsSeq
      <4> QED
        BY <4>1, <4>2 DEF alertsChecks
    <3> HIDE DEF f
    <3> QED
      BY <3>1, AreChecksMapped DEF f
  <2>3. q = [i \in 1..Len(st) |-> q[i]] /\ \A i \in 1..Len(st) : AreChecks(q[i])
    BY <2>1, <2>2
  <2>4. Each(Setting(b, "alerts"), alertsChecks) = FlattenSeq(q)
    BY DEF Each
  <2> HIDE DEF q, st
  <2> QED
    BY <2>1, <2>3, <2>4, AreChecksFlattened
<1>6. AreChecks(Each(Setting(b, "reject"), rejectChecks))
  <2> DEFINE st == Setting(b, "reject")
             q == [i \in DOMAIN st |-> rejectChecks(st[i])]
  <2>1. Len(st) \in Nat /\ DOMAIN st = 1..Len(st)
    BY <1>0
  <2>2. ASSUME NEW i \in 1..Len(st) PROVE AreChecks(rejectChecks(st[i]))
    <3> DEFINE s == st[i]
               f == rejectChecks(s)
    <3>1. IsSeq(s.what)
      <4>1. "reject" \in DOMAIN b
        BY <2>1 DEF Setting
      <4>2. s \in Range(b["reject"])
        BY <2>1, <4>1 DEF Setting, Range
      <4> QED
        BY <4>1, <4>2 DEF BlockOK
    <3>2. \A x, y, z : IsCheck(Offline("rule/reject", <<x, y>>, z))
      BY OnlineNames, OfflineIsCheck, TupleIsSeq
    <3>3. /\ Len(s.what) \in Nat /\ f = [j \in 1..Len(s.what) |-> f[j]]
          /\ \A j \in 1..Len(s.what) : IsCheck(f[j])
      BY <3>1, <3>2, SeqIsMapping DEF rejectChecks
    <3> HIDE DEF f
    <3> QED
      BY <3>3, AreChecksMapped DEF f
  <2>3. q = [i \in 1..Len(st) |-> q[i]] /\ \A i \in 1..Len(st) : AreChecks(q[i])
    BY <2>1, <2>2
  <2>4. Each(Setting(b, "reject"), rejectChecks) = FlattenSeq(q)
    BY DEF Each
  <2> HIDE DEF q, st
  <2> QED
    BY <2>1, <2>3, <2>4, AreChecksFlattened
<1>7. AreChecks(Each(Setting(b, "link"), linkChecks))
  <2> DEFINE st == Setting(b, "link")
             q == [i \in DOMAIN st |-> linkChecks(st[i])]
  <2>1. Len(st) \in Nat /\ DOMAIN st = 1..Len(st)
    BY <1>0
  <2>2. ASSUME NEW s PROVE AreChecks(linkChecks(s))
    BY OnlineNames, CheckIsCheck, TupleIsSeq, OneCheck DEF linkChecks
  <2>3. q = [i \in 1..Len(st) |-> q[i]] /\ \A i \in 1..Len(st) : AreChecks(q[i])
    BY <2>1, <2>2
  <2>4. Each(Setting(b, "link"), linkChecks) = FlattenSeq(q)
    BY DEF Each
  <2> HIDE DEF q, st
  <2> QED
    BY <2>1, <2>3, <2>4, AreChecksFlattened
<1> QED
  BY <1>1, <1>2, <1>3, <1>4, <1>5, <1>6, <1>7, AreChecksJoined DEF settingsChecks

LEMMA AllAreChecks ==
    ASSUME config \in Configs, NEW i
    PROVE  AreChecks(allChecks(i))
<1>1. AreChecks(builtinChecks)
  <2> DEFINE f == builtinChecks
  <2>1. 6 \in Nat /\ f = [n \in 1..6 |-> f[n]] /\ \A n \in 1..6 : IsCheck(f[n])
    <3>1. DOMAIN Builtin = 1..6
      BY DEF Builtin
    <3>2. ASSUME NEW n \in 1..6 PROVE IsCheck(Offline(Builtin[n], <<>>, {}))
      BY <3>1, OnlineNames, OfflineIsCheck, TupleIsSeq
    <3> QED
      BY <3>1, <3>2 DEF builtinChecks
  <2> HIDE DEF f
  <2> QED
    BY <2>1, AreChecksMapped DEF f
<1>2. ASSUME NEW p PROVE AreChecks(serverChecks(p))
  <2> DEFINE f == serverChecks(p)
  <2>1. 6 \in Nat /\ f = [n \in 1..6 |-> f[n]] /\ \A n \in 1..6 : IsCheck(f[n])
    <3>1. DOMAIN PerServer = 1..6
      BY DEF PerServer
    <3>2. ASSUME NEW n \in 1..6 PROVE IsCheck(Online(PerServer[n], p, <<>>, {}))
      BY <3>1, OnlineNames, OnlineIsCheck, TupleIsSeq
    <3> QED
      BY <3>1, <3>2 DEF serverChecks
  <2> HIDE DEF f
  <2> QED
    BY <2>1, AreChecksMapped DEF f
<1>3. AreChecks(Each(proms, serverChecks))
  <2> DEFINE q == [j \in DOMAIN proms |-> serverChecks(proms[j])]
  <2>1. /\ Len(proms) \in Nat /\ q = [j \in 1..Len(proms) |-> q[j]]
        /\ \A j \in 1..Len(proms) : AreChecks(q[j])
    BY <1>2, ServersAreSeq
  <2>2. Each(proms, serverChecks) = FlattenSeq(q)
    BY DEF Each
  <2> HIDE DEF q
  <2> QED
    BY <2>1, <2>2, AreChecksFlattened
<1> DEFINE blocks == config.rules
           q == [j \in DOMAIN blocks |-> resolveChecks(blocks[j], Verdict(i), Rule(i))]
<1>4. AreChecks(FlattenSeq(q))
  <2>1. /\ IsSeq(blocks) /\ Len(blocks) \in Nat /\ DOMAIN blocks = 1..Len(blocks)
    BY ConfigsHaveLists, SeqIsMapping
  <2>2. \A j \in 1..Len(blocks) : BlockOK(blocks[j])
    BY <2>1, ConfigsHaveLists DEF Range
  <2>3. AreChecks(<<>>)
    BY TupleIsSeq DEF AreChecks, Range
  <2>4. ASSUME NEW j \in 1..Len(blocks)
        PROVE  AreChecks(resolveChecks(blocks[j], Verdict(i), Rule(i)))
    BY <2>2, <2>3, SettingsAreChecks DEF resolveChecks
  <2>5. q = [j \in 1..Len(blocks) |-> q[j]] /\ \A j \in 1..Len(blocks) : AreChecks(q[j])
    BY <2>1, <2>4
  <2> HIDE DEF q, blocks
  <2> QED
    BY <2>1, <2>5, AreChecksFlattened
<1>5. allChecks(i) = builtinChecks \o Each(proms, serverChecks) \o FlattenSeq(q)
  BY DEF allChecks, Each
<1> HIDE DEF q
<1> QED
  BY <1>1, <1>3, <1>4, <1>5, AreChecksJoined
----------------------------------------------------------------------------
(* What disables a check.                                                  *)

LEMMA NameDesignates ==
    ASSUME NEW c, IsCheck(c), NEW n
    PROVE  <<n>> \in Designators(c) <=> n = c.name
<1>1. <<n>> = c.instance => n = c.name
  BY DEF IsCheck
<1>2. \A t : <<n>> # <<c.name, "+", t>>
  OBVIOUS
<1>3. <<n>> = <<c.name>> <=> n = c.name
  OBVIOUS
<1> QED
  BY <1>1, <1>2, <1>3 DEF Designators

LEMMA DisabledByConfig ==
    ASSUME NEW c, IsCheck(c)
    PROVE  NamedByConfig(c) <=> Designators(c) \cap Disabled # {}
<1>1. \A n : <<n>> \in Designators(c) <=> n = c.name
  BY NameDesignates
<1>2. c.online <=> c.name \in OnlineChecks
  BY DEF IsCheck
<1> DEFINE byFlag == UNION {{f.raw} \cup {<<n>> : n \in f.matches} : f \in config.flags}
           online == {<<n>> : n \in OnlineChecks}
<1>3. Designators(c) \cap byFlag # {} <=>
        \E f \in config.flags : f.raw \in Designators(c) \/ c.name \in f.matches
  <2>1. ASSUME NEW x \in Designators(c), x \in byFlag
        PROVE  \E f \in config.flags : f.raw \in Designators(c) \/ c.name \in f.matches
    <3>1. PICK f \in config.flags : x = f.raw \/ \E n \in f.matches : x = <<n>>
      BY <2>1
    <3> QED
      BY <1>1, <2>1, <3>1
  <2>2. ASSUME NEW f \in config.flags, f.raw \in Designators(c) \/ c.name \in f.matches
        PROVE  \E x \in Designators(c) : x \in byFlag
    <3>1. CASE f.raw \in Designators(c)
      BY <3>1
    <3>2. CASE c.name \in f.matches
      <4>1. <<c.name>> \in Designators(c) /\ <<c.name>> \in byFlag
        BY <1>1, <3>2
      <4> QED
        BY <4>1
    <3> QED
      BY <2>2, <3>1, <3>2
  <2> HIDE DEF byFlag
  <2> QED
    BY <2>1, <2>2
<1>4. Designators(c) \cap online # {} <=> c.online
  <2>1. ASSUME NEW x \in Designators(c), x \in online PROVE c.online
    <3>1. PICK n \in OnlineChecks : x = <<n>>
      BY <2>1
    <3> QED
      BY <1>1, <1>2, <2>1, <3>1
  <2>2. c.online => <<c.name>> \in Designators(c) /\ <<c.name>> \in online
    BY <1>1, <1>2
  <2> HIDE DEF online
  <2> QED
    BY <2>1, <2>2
<1>5. Disabled = (config.disabled \cup byFlag) \cup (IF config.offline THEN online ELSE {})
  BY DEF Disabled, SetDisabledChecks, DisableOnlineChecks
<1> HIDE DEF byFlag, online
<1> QED
  BY <1>3, <1>4, <1>5 DEF NamedByConfig

LEMMA DisabledByRule ==
    ASSUME NEW i, NEW c
    PROVE  Named(Comments(i), "disable", "snooze", c) <=> Designators(c) \cap RuleComments(i) # {}
<1>1. ASSUME NEW p \in Comments(i), p.key = "disable", p.value \in Designators(c)
      PROVE  Designators(c) \cap RuleComments(i) # {}
  <2>1. p.value \in GetComments(i, "disable")
    BY <1>1 DEF GetComments
  <2> QED
    BY <1>1, <2>1 DEF RuleComments
<1>2. ASSUME NEW p \in Comments(i), p.key = "snooze", Dated(p.value), p.value.until > Now,
             p.value.text \in Designators(c)
      PROVE  Designators(c) \cap RuleComments(i) # {}
  <2>1. p.value \in GetComments(i, "snooze")
    BY <1>2 DEF GetComments
  <2>2. p.value.text \in ParseSnooze(p.value)
    BY <1>2 DEF ParseSnooze
  <2> QED
    BY <1>2, <2>1, <2>2 DEF RuleComments
<1>3. ASSUME NEW x \in Designators(c), x \in RuleComments(i)
      PROVE  Named(Comments(i), "disable", "snooze", c)
  <2>1. CASE x \in GetComments(i, "disable")
    BY <1>3, <2>1 DEF GetComments, Named
  <2>2. ASSUME NEW s \in GetComments(i, "snooze"), x \in ParseSnooze(s)
        PROVE  Named(Comments(i), "disable", "snooze", c)
    <3>1. PICK p \in Comments(i) : p.key = "snooze" /\ p.value = s
      BY DEF GetComments
    <3>2. Dated(s) /\ s.until > Now /\ x = s.text
      BY <2>2 DEF ParseSnooze
    <3> QED
      BY <1>3, <3>1, <3>2 DEF Named
  <2> QED
    BY <1>3, <2>1, <2>2 DEF RuleComments
<1> QED
  BY <1>1, <1>2, <1>3 DEF Named

LEMMA DisabledByFile ==
    ASSUME NEW c
    PROVE  Named({l.pint : l \in Range(content.body)}, "file/disable", "file/snooze", c) <=>
             Designators(c) \cap disabledChecks # {}
<1> DEFINE all == {l.pint : l \in Range(content.body)}
<1>f. \A key : FileComments(key) = {p.value : p \in {p \in all : p.key = key}}
  BY DEF FileComments
<1>1. ASSUME NEW p \in all, p.key = "file/disable", p.value \in Designators(c)
      PROVE  Designators(c) \cap disabledChecks # {}
  <2>1. p.value \in FileComments("file/disable")
    BY <1>f, <1>1
  <2> QED
    BY <1>1, <2>1 DEF disabledChecks
<1>2. ASSUME NEW p \in all, p.key = "file/snooze", Dated(p.value), p.value.until > Now,
             p.value.text \in Designators(c)
      PROVE  Designators(c) \cap disabledChecks # {}
  <2>1. p.value \in FileComments("file/snooze")
    BY <1>f, <1>2
  <2>2. p.value.text \in ParseSnooze(p.value)
    BY <1>2 DEF ParseSnooze
  <2> QED
    BY <1>2, <2>1, <2>2 DEF disabledChecks
<1>3. ASSUME NEW x \in Designators(c), x \in disabledChecks
      PROVE  Named(all, "file/disable", "file/snooze", c)
  <2>1. CASE x \in FileComments("file/disable")
    BY <1>f, <1>3, <2>1 DEF Named
  <2>2. ASSUME NEW s \in FileComments("file/snooze"), x \in ParseSnooze(s)
        PROVE  Named(all, "file/disable", "file/snooze", c)
    <3>1. PICK p \in all : p.key = "file/snooze" /\ p.value = s
      BY <1>f
    <3>2. Dated(s) /\ s.until > Now /\ x = s.text
      BY <2>2 DEF ParseSnooze
    <3> QED
      BY <1>3, <3>1, <3>2 DEF Named
  <2> QED
    BY <1>3, <2>1, <2>2 DEF disabledChecks
<1> HIDE DEF all
<1> QED
  BY <1>1, <1>2, <1>3 DEF Named, all

(* Comments are read where they are written.                               *)
LEMMA CommentsAreRead ==
    ASSUME ReadInv
    PROVE  /\ {l.pint : l \in Range(content.body)} = Everywhere
           /\ \A i \in DOMAIN lines : Above(i) \subseteq Comments(i) /\ Comments(i) \subseteq Everywhere
           /\ DOMAIN content.body = DOMAIN lines
<1>1. /\ lines \in Seq(LineKinds) /\ content.body \in Seq(LineType)
      /\ Len(content.body) = Len(lines)
      /\ \A j \in DOMAIN lines : content.body[j] \in {lines[j], emptyLine(lines[j])}
  BY DEF ReadInv, BodyFollows, LineType
<1>2. DOMAIN lines = 1..Len(lines) /\ DOMAIN content.body = 1..Len(lines) /\ Len(lines) \in Nat
  BY <1>1
<1>3. ASSUME NEW j \in DOMAIN lines
      PROVE  /\ content.body[j].pint = lines[j].pint
             /\ lines[j].text = NoText => content.body[j].text = NoText
  <2>1. lines[j] \in LineKinds
    BY <1>1
  <2> QED
    BY <1>1, <2>1, LinesHaveParts, EmptyLineIsEmpty
<1>4. {l.pint : l \in Range(content.body)} = Everywhere
  <2>1. {l.pint : l \in Range(content.body)} = {content.body[j].pint : j \in DOMAIN lines}
    BY <1>2 DEF Range
  <2>2. Everywhere = {lines[j].pint : j \in DOMAIN lines}
    BY DEF Everywhere, Range
  <2> QED
    BY <1>3, <2>1, <2>2
<1>5. ASSUME NEW i \in DOMAIN lines
      PROVE  Above(i) \subseteq Comments(i) /\ Comments(i) \subseteq Everywhere
  <2>1. \A j \in 1..(i - 1) : j \in DOMAIN lines /\ \A k \in j..(i - 1) : k \in DOMAIN lines
    BY <1>2
  <2>2. ASSUME NEW j \in 1..(i - 1),
               \A k \in j..(i - 1) : lines[k].text = NoText /\ lines[k].pint # NoComment
        PROVE  lines[j].pint \in Comments(i)
    <3>1. \A k \in j..(i - 1) : Commented(k)
      BY <1>3, <2>1, <2>2 DEF Commented
    <3>2. content.body[j].pint = lines[j].pint
      BY <1>3, <2>1
    <3> QED
      BY <3>1, <3>2 DEF Comments
  <2>3. ASSUME NEW p \in Comments(i) PROVE p \in Everywhere
    <3>1. PICK j \in 1..(i - 1) : p = content.body[j].pint
      BY DEF Comments
    <3>2. content.body[j] \in Range(content.body)
      BY <1>2, <2>1 DEF Range
    <3> QED
      BY <1>4, <3>1, <3>2
  <2>4. Above(i) \subseteq Comments(i)
    BY <2>2 DEF Above
  <2> QED
    BY <2>3, <2>4
<1> QED
  BY <1>2, <1>4, <1>5

(* The two calls of isEnabled.                                             *)
On(i, c) ==
    /\ isEnabled(RuleComments(i), disabledChecks, c)
    /\ isEnabled(RuleComments(i), Disabled, c)

LEMMA FirstIsRun ==
    ASSUME config \in Configs, NEW i
    PROVE  /\ \A c \in GetChecksForRule(i) : c \in Range(allChecks(i)) /\ On(i, c)
           /\ \A c \in Range(allChecks(i)) : On(i, c) =>
                \E d \in GetChecksForRule(i) : d.instance = c.instance
<1> DEFINE all == allChecks(i)
           enabled == {n \in DOMAIN all : On(i, all[n])}
           first == {n \in enabled : \A m \in enabled : m < n => all[m].instance # all[n].instance}
<1>1. GetChecksForRule(i) = {all[n] : n \in first}
  BY DEF GetChecksForRule, On
<1>2. DOMAIN all = 1..Len(all) /\ Len(all) \in Nat
  BY AllAreChecks, SeqIsMapping DEF AreChecks
<1> HIDE DEF all
<1>3. \A c \in GetChecksForRule(i) : c \in Range(all) /\ On(i, c)
  BY <1>1 DEF Range
<1>4. ASSUME NEW c \in Range(all), On(i, c)
      PROVE  \E d \in GetChecksForRule(i) : d.instance = c.instance
  <2> DEFINE S == {n \in enabled : all[n].instance = c.instance}
  <2>1. PICK k \in DOMAIN all : c = all[k]
    BY DEF Range
  <2>2. k \in S
    BY <1>4, <2>1
  <2>3. S \subseteq Nat
    BY <1>2
  <2>4. PICK n \in S : \A m \in S : n <= m
    <3> HIDE DEF S
    <3> QED
      BY <2>2, <2>3, LeastExists
  <2>5. ASSUME NEW m \in enabled, m < n PROVE all[m].instance # all[n].instance
    <3>1. m \in Nat /\ n \in Nat
      BY <1>2, <2>3
    <3>2. ~(n <= m)
      BY <2>5, <3>1
    <3>3. m \notin S
      BY <2>4, <3>2
    <3> QED
      BY <3>3
  <2>6. n \in first
    BY <2>5
  <2> QED
    BY <1>1, <2>6
<1> QED
  BY <1>3, <1>4 DEF all

LEMMA SelectionInvariant == Spec => [](ReadInv /\ config \in Configs)
<1>1. Init => config \in Configs
  BY DEF Init
<1>2. config \in Configs /\ [Next]_vars => (config \in Configs)'
  BY DEF Next, Read, vars
<1> QED
  BY <1>1, <1>2, ReadInvariant, PTL DEF Spec

LEMMA RulesAreLines == ReadInv => \A i \in Rules : i \in DOMAIN lines
  BY CommentsAreRead DEF Rules, readRules, Kept

(* isEnabled, SetDisabledChecks, DisableOnlineChecks: what a comment, the  *)
(* configuration or a flag disables is not run, whatever else they say.    *)
THEOREM DisabledChecksStayOff == Spec => []DisabledStaysOff
<1>1. ReadInv /\ config \in Configs => DisabledStaysOff
  <2> SUFFICES ASSUME ReadInv, config \in Configs,
                      NEW i \in Rules, NEW c \in GetChecksForRule(i)
               PROVE  /\ ~Named(Above(i), "disable", "snooze", c)
                      /\ ~Named(Everywhere, "file/disable", "file/snooze", c)
                      /\ ~NamedByConfig(c)
    BY DEF DisabledStaysOff
  <2>1. i \in DOMAIN lines
    BY RulesAreLines
  <2>2. c \in Range(allChecks(i)) /\ On(i, c)
    BY FirstIsRun
  <2>3. IsCheck(c)
    BY <2>2, AllAreChecks DEF AreChecks
  <2>4. /\ Designators(c) \cap RuleComments(i) = {}
        /\ Designators(c) \cap disabledChecks = {}
        /\ Designators(c) \cap Disabled = {}
    BY <2>2 DEF On, isEnabled
  <2>5. ~Named(Above(i), "disable", "snooze", c)
    <3>1. ~Named(Comments(i), "disable", "snooze", c)
      BY <2>4, DisabledByRule
    <3>2. Above(i) \subseteq Comments(i)
      BY <2>1, CommentsAreRead
    <3> QED
      BY <3>1, <3>2 DEF Named
  <2>6. ~Named(Everywhere, "file/disable", "file/snooze", c)
    BY <2>4, CommentsAreRead, DisabledByFile
  <2> QED
    BY <2>3, <2>4, <2>5, <2>6, DisabledByConfig
<1> QED
  BY <1>1, SelectionInvariant, PTL

(* GetChecksForRule: a check that nothing disables is run, or one with the *)
(* same String() in its place.                                             *)
THEOREM OtherChecksRun == Spec => []OthersRun
<1>1. ReadInv /\ config \in Configs => OthersRun
  <2> SUFFICES ASSUME ReadInv, config \in Configs,
                      NEW i \in Rules, NEW c \in Range(allChecks(i)),
                      ~Named(Everywhere, "disable", "snooze", c),
                      ~Named(Everywhere, "file/disable", "file/snooze", c),
                      ~NamedByConfig(c),
                      config.enabled = {} \/ c.name \in config.enabled
               PROVE  c.instance \in {d.instance : d \in GetChecksForRule(i)}
    BY DEF OthersRun
  <2>1. i \in DOMAIN lines
    BY RulesAreLines
  <2>2. IsCheck(c)
    BY AllAreChecks DEF AreChecks
  <2>3. Designators(c) \cap RuleComments(i) = {}
    <3>1. Comments(i) \subseteq Everywhere
      BY <2>1, CommentsAreRead
    <3>2. ~Named(Comments(i), "disable", "snooze", c)
      BY <3>1 DEF Named
    <3> QED
      BY <3>2, DisabledByRule
  <2>4. Designators(c) \cap disabledChecks = {}
    BY CommentsAreRead, DisabledByFile
  <2>5. Designators(c) \cap Disabled = {}
    BY <2>2, DisabledByConfig
  <2>6. On(i, c)
    BY <2>3, <2>4, <2>5 DEF On, isEnabled
  <2>7. \E d \in GetChecksForRule(i) : d.instance = c.instance
    BY <2>6, FirstIsRun
  <2> QED
    BY <2>7
<1> QED
  BY <1>1, SelectionInvariant, PTL
----------------------------------------------------------------------------

(* resolveMapAlias: merged keys that the mapping does not write.           *)
LEMMA MissingKeysDef ==
    ASSUME NEW keys, IsSeq(keys), NEW mapping
    PROVE  /\ IsSeq(missingKeys(keys, mapping))
           /\ \A c : c \in Range(missingKeys(keys, mapping)) <=>
                       c \in Range(keys) /\ c \notin Explicit(mapping)
           /\ \A c : Twice(missingKeys(keys, mapping), c) <=>
                       Twice(keys, c) /\ c \notin Explicit(mapping)
<1> DEFINE n == Len(keys)
           q == [j \in DOMAIN keys |->
                   IF keys[j] \in Explicit(mapping) THEN <<>> ELSE <<keys[j]>>]
<1>1. n \in Nat /\ DOMAIN keys = 1..n
  BY SeqIsMapping
<1>2. IsSeq(q) /\ Len(q) = n
  <2>1. q = [i \in 1..n |-> q[i]]
    BY <1>1
  <2> HIDE DEF q
  <2> QED
    BY <1>1, <2>1, MappingIsSeq
<1>3. ASSUME NEW j \in 1..n
      PROVE  /\ IsSeq(q[j])
             /\ \A c : c \in Range(q[j]) <=> keys[j] = c /\ c \notin Explicit(mapping)
             /\ \A c : ~Twice(q[j], c)
  <2>1. q[j] = IF keys[j] \in Explicit(mapping) THEN <<>> ELSE <<keys[j]>>
    BY <1>1
  <2> HIDE DEF q
  <2>2. CASE keys[j] \in Explicit(mapping)
    <3>1. q[j] = <<>>
      BY <2>1, <2>2
    <3>2. Range(<<>>) = {} /\ DOMAIN <<>> = {}
      BY DEF Range
    <3> QED
      BY <2>2, <3>1, <3>2, TupleIsSeq, Zenon DEF Twice
  <2>3. CASE keys[j] \notin Explicit(mapping)
    <3>1. q[j] = <<keys[j]>>
      BY <2>1, <2>3
    <3>2. IsSeq(<<keys[j]>>) /\ Range(<<keys[j]>>) = {keys[j]}
      BY TupleIsSeq, Zenon
    <3>3. \A a, b \in DOMAIN <<keys[j]>> : ~(a < b)
      OBVIOUS
    <3> QED
      BY <2>3, <3>1, <3>2, <3>3, Zenon DEF Twice
  <2> QED
    BY <2>2, <2>3
<1>4. missingKeys(keys, mapping) = FlattenSeq(q)
  BY DEF missingKeys
<1> HIDE DEF q
<1>5. /\ IsSeq(FlattenSeq(q))
      /\ \A c : c \in Range(FlattenSeq(q)) <=> InLists(q, n, c)
      /\ \A c : Twice(FlattenSeq(q), c) <=> TwiceInLists(q, n, c)
  BY <1>2, <1>3, FlattenKeepsAll
<1>6. ASSUME NEW c
      PROVE  InLists(q, n, c) <=> c \in Range(keys) /\ c \notin Explicit(mapping)
  <2>1. c \in Range(keys) <=> \E j \in 1..n : keys[j] = c
    BY <1>1 DEF Range
  <2> QED
    BY <1>3, <2>1, Zenon DEF InLists
<1>7. ASSUME NEW c
      PROVE  TwiceInLists(q, n, c) <=> Twice(keys, c) /\ c \notin Explicit(mapping)
  BY <1>1, <1>3, Zenon DEF TwiceInLists, Twice
<1> QED
  BY <1>4, <1>5, <1>6, <1>7

(* unpackNodes: every key that is written and not lost, or merged, and     *)
(* which one is found twice.                                               *)
Merges(mapping) == {i \in DOMAIN mapping : IsMerge(mapping[i])}
WrittenKeys(mapping) == {mapping[i].key : i \in Written(mapping)}
MergedKeys(mapping) == UNION {Range(mapping[i].keys) : i \in Merges(mapping)}

LEMMA UnpackNodesDef ==
    ASSUME NEW mapping \in Mappings
    PROVE  /\ Range(unpackNodes(mapping))
                = WrittenKeys(mapping) \cup (MergedKeys(mapping) \ Explicit(mapping))
           /\ \A k \in Known : Twice(unpackNodes(mapping), k) <=>
                IF k \in Explicit(mapping) THEN ~WrittenOnce(mapping, k)
                ELSE ~MergedOnce(mapping, Merges(mapping), k)
<1> DEFINE n == Len(mapping)
           E == Explicit(mapping)
           q == [i \in DOMAIN mapping |->
                   IF IsMerge(mapping[i]) THEN missingKeys(mapping[i].keys, mapping)
                   ELSE IF Lost(mapping, i) THEN <<>> ELSE <<mapping[i].key>>]
<1>1. n \in Nat /\ DOMAIN mapping = 1..n
  BY MappingsAreKeys, SeqIsMapping
<1>2. IsSeq(q) /\ Len(q) = n
  <2>1. q = [i \in 1..n |-> q[i]]
    BY <1>1
  <2> HIDE DEF q
  <2> QED
    BY <1>1, <2>1, MappingIsSeq
<1>3. \A c : c \in E <=> \E i \in 1..n : mapping[i].key = c
  BY <1>1 DEF Explicit, Range
<1>4. /\ Merges(mapping) = {i \in 1..n : IsMerge(mapping[i])}
      /\ Written(mapping) = {i \in 1..n : ~IsMerge(mapping[i]) /\ ~Lost(mapping, i)}
  BY <1>1 DEF Merges, Written
<1>5. ASSUME NEW i \in Merges(mapping)
      PROVE  /\ IsSeq(mapping[i].keys) /\ IsSeq(q[i])
             /\ \A c : c \in Range(q[i]) <=> c \in Range(mapping[i].keys) /\ c \notin E
             /\ \A c : Twice(q[i], c) <=> Twice(mapping[i].keys, c) /\ c \notin E
  <2>1. mapping[i] \in Range(mapping) /\ IsMerge(mapping[i]) /\ i \in DOMAIN mapping
    BY DEF Merges, Range
  <2>2. IsSeq(mapping[i].keys)
    BY <2>1, MappingsAreKeys
  <2>3. q[i] = missingKeys(mapping[i].keys, mapping)
    BY <2>1
  <2> HIDE DEF q
  <2> QED
    BY <2>2, <2>3, MissingKeysDef
<1>6. ASSUME NEW i \in Written(mapping)
      PROVE  /\ IsSeq(q[i])
             /\ \A c : c \in Range(q[i]) <=> mapping[i].key = c
             /\ \A c : ~Twice(q[i], c)
  <2> DEFINE k == mapping[i].key
  <2>1. q[i] = <<k>>
    BY <1>1, <1>4, <1>6
  <2> HIDE DEF q, k
  <2>2. IsSeq(<<k>>) /\ Range(<<k>>) = {k}
    BY TupleIsSeq, Zenon
  <2>3. \A a, b \in DOMAIN <<k>> : ~(a < b)
    OBVIOUS
  <2>4. /\ IsSeq(q[i])
        /\ \A c : c \in Range(q[i]) <=> k = c
        /\ \A c : ~Twice(q[i], c)
    BY <2>1, <2>2, <2>3, Zenon DEF Twice
  <2> QED
    BY <2>4 DEF k
<1>l. ASSUME NEW i \in 1..n, i \notin Merges(mapping), i \notin Written(mapping)
      PROVE  IsSeq(q[i]) /\ \A c : c \notin Range(q[i]) /\ ~Twice(q[i], c)
  <2>1. q[i] = <<>>
    BY <1>1, <1>4, <1>l
  <2> HIDE DEF q
  <2>2. Range(<<>>) = {} /\ DOMAIN <<>> = {}
    BY DEF Range
  <2> QED
    BY <2>1, <2>2, TupleIsSeq, Zenon DEF Twice
<1>7. unpackNodes(mapping) = FlattenSeq(q)
  BY DEF unpackNodes
<1> HIDE DEF q, E
<1>8. /\ \A c : c \in Range(FlattenSeq(q)) <=> InLists(q, n, c)
      /\ \A c : Twice(FlattenSeq(q), c) <=> TwiceInLists(q, n, c)
  <2>1. \A i \in 1..n : IsSeq(q[i])
    BY <1>5, <1>6, <1>l
  <2> QED
    BY <1>2, <2>1, FlattenKeepsAll
<1>9. ASSUME NEW c
      PROVE  InLists(q, n, c) <=> c \in WrittenKeys(mapping) \cup (MergedKeys(mapping) \ E)
  <2>1. ASSUME InLists(q, n, c)
        PROVE  c \in WrittenKeys(mapping) \cup (MergedKeys(mapping) \ E)
    <3>1. PICK i \in 1..n : c \in Range(q[i])
      BY <2>1 DEF InLists
    <3>2. CASE i \in Merges(mapping)
      <4>1. c \in Range(mapping[i].keys) /\ c \notin E
        BY <1>5, <3>1, <3>2
      <4> QED
        BY <3>2, <4>1 DEF MergedKeys
    <3>3. CASE i \notin Merges(mapping)
      <4>1. i \in Written(mapping)
        BY <1>l, <3>1, <3>3
      <4>2. mapping[i].key = c
        BY <1>6, <3>1, <4>1
      <4> QED
        BY <4>1, <4>2 DEF WrittenKeys
    <3> QED
      BY <3>2, <3>3
  <2>2. ASSUME c \in WrittenKeys(mapping) PROVE InLists(q, n, c)
    <3>1. PICK i \in Written(mapping) : mapping[i].key = c
      BY <2>2 DEF WrittenKeys
    <3> QED
      BY <1>4, <1>6, <3>1 DEF InLists
  <2>3. ASSUME c \in MergedKeys(mapping), c \notin E PROVE InLists(q, n, c)
    <3>1. PICK i \in Merges(mapping) : c \in Range(mapping[i].keys)
      BY <2>3 DEF MergedKeys
    <3> QED
      BY <1>4, <1>5, <2>3, <3>1 DEF InLists
  <2> QED
    BY <2>1, <2>2, <2>3
<1>10. ASSUME NEW c \in Known, c \in E
       PROVE  TwiceInLists(q, n, c) <=> ~WrittenOnce(mapping, c)
  <2>1. \A i \in 1..n : c \in Range(q[i]) <=> i \in Written(mapping) /\ mapping[i].key = c
    BY <1>4, <1>5, <1>6, <1>l, <1>10
  <2>2. \A i \in 1..n : ~Twice(q[i], c)
    BY <1>5, <1>6, <1>l, <1>10
  <2>3. \A i, j \in 1..n : i # j <=> i < j \/ j < i
    BY <1>1
  <2>4. \A i \in Written(mapping) : i \in 1..n
    BY <1>4
  <2> QED
    BY <2>1, <2>2, <2>3, <2>4 DEF TwiceInLists, WrittenOnce
<1>11. ASSUME NEW c \in Known, c \notin E
       PROVE  TwiceInLists(q, n, c) <=> ~MergedOnce(mapping, Merges(mapping), c)
  <2>1. \A i \in 1..n : c \in Range(q[i]) <=>
          i \in Merges(mapping) /\ \E j \in DOMAIN mapping[i].keys : mapping[i].keys[j] = c
    <3>1. \A i \in 1..n : i \notin Merges(mapping) => c \notin Range(q[i])
      BY <1>3, <1>6, <1>l, <1>11
    <3>2. \A i \in Merges(mapping) : c \in Range(mapping[i].keys) <=>
            \E j \in DOMAIN mapping[i].keys : mapping[i].keys[j] = c
      BY DEF Range
    <3> QED
      BY <1>5, <1>11, <3>1, <3>2
  <2>2. \A i \in 1..n : Twice(q[i], c) <=> i \in Merges(mapping) /\ Twice(mapping[i].keys, c)
    BY <1>5, <1>6, <1>l, <1>11
  <2>3. \A i, j \in 1..n : i # j <=> i < j \/ j < i
    BY <1>1
  <2>4. \A i \in Merges(mapping) : Twice(mapping[i].keys, c) <=>
          \E j, m \in DOMAIN mapping[i].keys :
            j # m /\ mapping[i].keys[j] = c /\ mapping[i].keys[m] = c
    <3> SUFFICES ASSUME NEW i \in Merges(mapping)
                 PROVE  Twice(mapping[i].keys, c) <=>
                          \E j, m \in DOMAIN mapping[i].keys :
                            j # m /\ mapping[i].keys[j] = c /\ mapping[i].keys[m] = c
      OBVIOUS
    <3>1. IsSeq(mapping[i].keys)
      BY <1>5
    <3>2. \A j, m \in DOMAIN mapping[i].keys : j # m <=> j < m \/ m < j
      BY <3>1, SeqIsMapping
    <3> QED
      BY <3>2, Zenon DEF Twice
  <2>5. \A i \in Merges(mapping) : i \in 1..n
    BY <1>4
  <2>6. TwiceInLists(q, n, c) <=>
          \/ \E i \in Merges(mapping) : Twice(mapping[i].keys, c)
          \/ \E i, j \in Merges(mapping) : /\ i # j
               /\ \E l \in DOMAIN mapping[i].keys : mapping[i].keys[l] = c
               /\ \E m \in DOMAIN mapping[j].keys : mapping[j].keys[m] = c
    BY <2>1, <2>2, <2>3, <2>5, ZenonT(60) DEF TwiceInLists
  <2>7. ASSUME ~MergedOnce(mapping, Merges(mapping), c) PROVE TwiceInLists(q, n, c)
    <3>1. PICK i \in Merges(mapping), l \in Merges(mapping) :
            \E j \in DOMAIN mapping[i].keys, m \in DOMAIN mapping[l].keys :
              mapping[i].keys[j] = c /\ mapping[l].keys[m] = c /\ ~(i = l /\ j = m)
      BY <2>7, Zenon DEF MergedOnce
    <3>2. CASE i = l
      <4>1. Twice(mapping[i].keys, c)
        BY <2>4, <3>1, <3>2
      <4> QED
        BY <2>6, <4>1
    <3>3. CASE i # l
      BY <2>6, <3>1, <3>3, Zenon
    <3> QED
      BY <3>2, <3>3
  <2>8. ASSUME MergedOnce(mapping, Merges(mapping), c) PROVE ~TwiceInLists(q, n, c)
    <3>1. ASSUME NEW i \in Merges(mapping), Twice(mapping[i].keys, c) PROVE FALSE
      <4>1. PICK j \in DOMAIN mapping[i].keys, m \in DOMAIN mapping[i].keys :
              j # m /\ mapping[i].keys[j] = c /\ mapping[i].keys[m] = c
        BY <2>4, <3>1, Zenon
      <4> QED
        BY <2>8, <4>1, Zenon DEF MergedOnce
    <3> QED
      BY <2>6, <2>8, <3>1, Zenon DEF MergedOnce
  <2> QED
    BY <2>7, <2>8
<1> QED
  BY <1>7, <1>8, <1>9, <1>10, <1>11 DEF E

(* parseRule: the verdict on a mapping of any length, whichever anchored   *)
(* mappings it merges, is decided by the keys it ends up with.             *)
THEOREM KeysAreDecisive == Spec => []KeysDecide
<1>1. KeysDecide
  <2> SUFFICES ASSUME NEW mapping \in Mappings PROVE DecidedByKeys(mapping)
    BY DEF KeysDecide
  <2> DEFINE keys == unpackNodes(mapping)
             all == WrittenKeys(mapping) \cup (MergedKeys(mapping) \ Explicit(mapping))
             once == \A k \in Known : IF k \in Explicit(mapping) THEN WrittenOnce(mapping, k)
                                      ELSE MergedOnce(mapping, Merges(mapping), k)
             repeated == \E i, j \in DOMAIN keys :
                           i < j /\ keys[i] = keys[j] /\ keys[i] \in Known
  <2>1. Range(keys) = all
    BY UnpackNodesDef
  <2>2. repeated <=> \E k \in Known : Twice(keys, k)
    BY DEF Twice
  <2>3. repeated <=> ~once
    BY <2>2, UnpackNodesDef
  <2>4. parseRule(mapping) =
          IF repeated THEN "duplicated key"
          ELSE IF "record" \in all /\ "alert" \in all THEN "both record and alert"
          ELSE IF ("record" \in all \/ "alert" \in all) /\ "expr" \notin all
               THEN "missing expr"
          ELSE IF "expr" \in all /\ ~("record" \in all \/ "alert" \in all)
               THEN "incomplete rule"
          ELSE IF ("record" \in all \/ "alert" \in all) /\ ~(all \subseteq Known)
               THEN "invalid keys"
          ELSE IF "record" \in all THEN "recording"
          ELSE IF "alert" \in all THEN "alerting"
          ELSE "empty"
    BY <2>1, Zenon DEF parseRule
  <2>5. DecidedByKeys(mapping) <=>
          /\ parseRule(mapping) \in RuleTypes <=>
               /\ once /\ all \subseteq Known /\ "expr" \in all
               /\ "record" \in all <=> "alert" \notin all
          /\ all \cap {"record", "alert", "expr"} # {} => parseRule(mapping) # "empty"
    BY Zenon DEF DecidedByKeys, Merges, MergedKeys, WrittenKeys
  <2> HIDE DEF repeated, once, all, keys
  <2> QED
    BY <2>3, <2>4, <2>5 DEF RuleTypes
<1> QED
  BY <1>1, PTL
=============================================================================
