--------------------------- MODULE ReviewsProofs ---------------------------
(* Theorems of Reviews, for any summaries and any number of commits, runs  *)
(* and reviews by people: a run that gets through repairs the BitBucket    *)
(* report and the comments on GitHub, no run says again what another has   *)
(* said, and console, services and exit status agree.                      *)
EXTENDS Reviews, FiniteSetTheorems, SequenceTheorems, WellFoundedInduction, TLAPS

(* A finite set of line numbers has a last one: of the sets of what is     *)
(* above each of its lines, a least one is empty.  And it has a first one. *)
LEMMA MaxExists ==
  ASSUME NEW S, S \subseteq Nat, S # {}, IsFiniteSet(S)
  PROVE  Max(S) \in S
<1> DEFINE Above(x) == {y \in S : y > x}
           T == {Above(x) : x \in S}
<1>1. T \subseteq FiniteSubsetsOf(S)
  <2> SUFFICES ASSUME NEW x \in S PROVE Above(x) \in FiniteSubsetsOf(S)
    OBVIOUS
  <2>1. Above(x) \subseteq S
    OBVIOUS
  <2> QED BY <2>1, FS_Subset DEF FiniteSubsetsOf
<1>2. PICK t \in T : \A u \in T : ~(<<u, t>> \in StrictSubsetOrdering(S))
  <2>1. T # {}
    OBVIOUS
  <2> HIDE DEF T
  <2> QED BY <1>1, <2>1, WFMin, FS_StrictSubsetOrderingWellFounded
<1>3. PICK x \in S : t = Above(x)
  OBVIOUS
<1>4. \A y \in S : x >= y
  <2> SUFFICES ASSUME NEW y \in S, y > x PROVE FALSE
    OBVIOUS
  <2>0. y \in Nat /\ x \in Nat
    OBVIOUS
  <2>1. \A z \in S : z \in Nat /\ (z > y => z > x)
    BY <2>0
  <2>2. Above(y) \subseteq Above(x) /\ y \in Above(x) /\ y \notin Above(y)
    <3>1. ~(y > y)
      BY <2>0
    <3>2. Above(y) \subseteq Above(x)
      BY <2>1, Zenon
    <3> QED BY <3>1, <3>2, Zenon
  <2>3. <<Above(y), Above(x)>> \in StrictSubsetOrdering(S)
    BY <2>2 DEF StrictSubsetOrdering
  <2>4. Above(y) \in T
    OBVIOUS
  <2> HIDE DEF T, Above
  <2> QED BY <2>3, <2>4, <1>2, <1>3
<1> QED BY <1>4 DEF Max

LEMMA MinExists ==
  ASSUME NEW S, S \subseteq Nat, S # {}, IsFiniteSet(S)
  PROVE  Min(S) \in S
<1> DEFINE Below(x) == {y \in S : y < x}
           T == {Below(x) : x \in S}
<1>1. T \subseteq FiniteSubsetsOf(S)
  <2> SUFFICES ASSUME NEW x \in S PROVE Below(x) \in FiniteSubsetsOf(S)
    OBVIOUS
  <2>1. Below(x) \subseteq S
    OBVIOUS
  <2> QED BY <2>1, FS_Subset DEF FiniteSubsetsOf
<1>2. PICK t \in T : \A u \in T : ~(<<u, t>> \in StrictSubsetOrdering(S))
  <2>1. T # {}
    OBVIOUS
  <2> HIDE DEF T
  <2> QED BY <1>1, <2>1, WFMin, FS_StrictSubsetOrderingWellFounded
<1>3. PICK x \in S : t = Below(x)
  OBVIOUS
<1>4. \A y \in S : x =< y
  <2> SUFFICES ASSUME NEW y \in S, y < x PROVE FALSE
    OBVIOUS
  <2>0. y \in Nat /\ x \in Nat
    OBVIOUS
  <2>1. \A z \in S : z \in Nat /\ (z < y => z < x)
    BY <2>0
  <2>2. Below(y) \subseteq Below(x) /\ y \in Below(x) /\ y \notin Below(y)
    <3>1. ~(y < y)
      BY <2>0
    <3>2. Below(y) \subseteq Below(x)
      BY <2>1, Zenon
    <3> QED BY <3>1, <3>2, Zenon
  <2>3. <<Below(y), Below(x)>> \in StrictSubsetOrdering(S)
    BY <2>2 DEF StrictSubsetOrdering
  <2>4. Below(y) \in T
    OBVIOUS
  <2> HIDE DEF T, Below
  <2> QED BY <2>3, <2>4, <1>2, <1>3
<1> QED BY <1>4 DEF Min

(* Whatever a summary is, every annotation made of it has a line.          *)
LEMMA AnnotationsHaveLines ==
  ASSUME NEW S \in Summaries \cup {{}}, NEW a \in Annotations(S)
  PROVE  a.line > 0
<1>1. PICK r \in S : ShouldReport(r) /\ a = makeAnnotation(r)
  BY DEF Annotations
<1>2. /\ IsFiniteSet(r.lines) /\ r.lines # {} /\ r.lines \subseteq Nat \ {0}
      /\ IsFiniteSet(r.modified) /\ r.modified # {} /\ r.modified \subseteq Nat \ {0}
  BY ReviewsAssumption
<1> DEFINE both == r.lines \cap r.modified
<1>3. CASE both # {}
  <2>1. IsFiniteSet(both)
    BY <1>2, FS_Subset
  <2>2. Max(both) \in both
    BY <1>2, <1>3, <2>1, MaxExists
  <2> QED BY <1>1, <1>2, <1>3, <2>2 DEF makeAnnotation, moveReportedLine
<1>4. CASE both = {}
  <2>1. r.sev = Fatal
    BY <1>1, <1>4 DEF ShouldReport
  <2>2. Min(r.modified) \in r.modified
    BY <1>2, MinExists
  <2> QED BY <1>1, <1>2, <1>4, <2>1, <2>2 DEF makeAnnotation, moveReportedLine
<1> QED BY <1>3, <1>4

(* Counting by severity asks whether there is a problem to report.         *)
LEMMA BugsAreCounted ==
  ASSUME NEW S \in Summaries \cup {{}}, NEW min \in Severities
  PROVE  FoundBugOrHigher(S, min) <=>
           \E r \in S : r.sev >= Bug /\ r.sev >= min /\ ShouldReport(r)
<1> DEFINE Of(s) == {r \in S : r.sev = s /\ ShouldReport(r)}
<1>1. IsFiniteSet(S) /\ \A r \in S : r.sev \in Severities
  BY ReviewsAssumption, FS_EmptySet
<1>2. ASSUME NEW s \in Severities PROVE Cardinality(Of(s)) > 0 <=> Of(s) # {}
  <2>1. IsFiniteSet(Of(s))
    BY <1>1, FS_Subset
  <2> QED BY <2>1, FS_EmptySet, FS_CardinalityType
<1>3. \A s \in Severities : CountBySeverity(S)[s] = Cardinality(Of(s))
  BY DEF CountBySeverity
<1>4. FoundBugOrHigher(S, min) <=>
        \E s \in Severities : s >= Bug /\ s >= min /\ Of(s) # {}
  BY <1>2, <1>3 DEF FoundBugOrHigher
<1> QED BY <1>1, <1>4
----------------------------------------------------------------------------
LEMMA ReviewsInit == Init => ReviewsInv
<1> SUFFICES ASSUME Init PROVE ReviewsInv
  OBVIOUS
<1> USE ReviewsAssumption DEF Init, WholeRun, None
<1>1. TypeOK
  BY DEF TypeOK, Severities, Information, Fatal
<1>2. BitBucketSoFar /\ GitHubSoFar /\ ConsoleSoFar /\ ExitComesLast
  BY DEF BitBucketSoFar, GitHubSoFar, ConsoleSoFar, ExitComesLast
<1> QED BY <1>1, <1>2 DEF ReviewsInv

(* A run starts with nothing said, whatever the servers still hold.        *)
LEMMA StartKeepsInv ==
  ASSUME ReviewsInv, NEW S \in Summaries, NEW min \in Severities, NEW cmd,
         StartRun(cmd, S, min), cmd = "ci" => min = Information
  PROVE  ReviewsInv'
<1> USE DEF ReviewsInv, StartRun, Abort, WholeRun, None, remote
<1>1. TypeOK'
  BY DEF TypeOK, PintReview, formatGHReviewBody, CountBySeverity
<1>2. BitBucketSoFar' /\ GitHubSoFar' /\ ConsoleSoFar' /\ ExitComesLast'
  BY DEF BitBucketSoFar, GitHubSoFar, ConsoleSoFar, ExitComesLast
<1> QED BY <1>1, <1>2

(* The console reporter: it prints what it shows before anyone else runs.  *)
LEMMA ConsoleKeepsInv ==
  ASSUME ReviewsInv, SubmitConsole
  PROVE  ReviewsInv'
<1> USE DEF ReviewsInv, SubmitConsole, Abort, Goto, WholeRun, None, remote, AfterBitBucket
<1>1. TypeOK'
  BY DEF TypeOK, PintReview, formatGHReviewBody, CountBySeverity
<1>2. BitBucketSoFar' /\ GitHubSoFar'
  BY DEF BitBucketSoFar, GitHubSoFar
<1>3. ConsoleSoFar' /\ ExitComesLast'
  BY DEF ConsoleSoFar, ExitComesLast, ShouldReport
<1> QED BY <1>1, <1>2, <1>3

(* BitBucket: each request that succeeds repairs its part of the commit's  *)
(* state, and one that fails ends the run.                                 *)
LEMMA BitBucketKeepsInv ==
  ASSUME ReviewsInv, Blame \/ PutReport \/ DeleteAnnotations \/ CreateAnnotations
  PROVE  ReviewsInv'
<1> USE DEF ReviewsInv, Abort, Goto, Answered, BitBucketDone, AfterBitBucket,
            WholeRun, None, local
<1>0. /\ bbReport' \in [1..NumCommits -> {None, "PASS", "FAIL"}]
      /\ bbNotes' \in [1..NumCommits -> SUBSET UNION {Annotations(T) : T \in Summaries}]
  <2>1. /\ Result(Annotations(found)) \in {"PASS", "FAIL"}
        /\ Annotations(found) \subseteq UNION {Annotations(T) : T \in Summaries}
    BY DEF TypeOK, Result, Annotations
  <2> QED
    BY <2>1 DEF TypeOK, Blame, PutReport, DeleteAnnotations, CreateAnnotations, remote
<1>1. UNCHANGED <<head, uses, command, found, minimum, printed, review, reviews>>
  BY DEF Blame, PutReport, DeleteAnnotations, CreateAnnotations, remote
<1>2. TypeOK'
  BY <1>0, <1>1 DEF TypeOK, PintReview, formatGHReviewBody, CountBySeverity
<1>3. BitBucketSoFar'
  <2> USE <1>1 DEF BitBucketSoFar, TypeOK, ExitComesLast
  <2>1. CASE Blame
    BY <2>1 DEF Blame
  <2>2. CASE PutReport
    BY <2>2 DEF PutReport
  <2>3. CASE DeleteAnnotations
    BY <2>3 DEF DeleteAnnotations
  <2>4. CASE CreateAnnotations
    BY <2>4 DEF CreateAnnotations
  <2> QED BY <2>1, <2>2, <2>3, <2>4
<1>4. GitHubSoFar' /\ ConsoleSoFar' /\ ExitComesLast'
  BY <1>1 DEF GitHubSoFar, ConsoleSoFar, ExitComesLast, Blame, PutReport,
              DeleteAnnotations, CreateAnnotations
<1> QED BY <1>2, <1>3, <1>4

(* GitHub: the review that was found is one of the pull request's, and is  *)
(* the one that is written.                                                *)
LEMMA ReviewIsFound ==
  ASSUME ReviewsInv, findExistingReview
  PROVE  review' \in 0..Len(reviews)
<1> DEFINE own == {i \in DOMAIN FirstPage(reviews) : IsPintReview(reviews[i])}
<1>0. DOMAIN FirstPage(reviews) \subseteq 1..Len(reviews)
  <2>1. reviews \in Seq({Human} \cup {PintReview(S) : S \in Summaries \cup {{}}})
    BY DEF ReviewsInv, TypeOK
  <2> DEFINE n == IF Len(reviews) < PageSize THEN Len(reviews) ELSE PageSize
  <2>2. n \in 0..Len(reviews)
    BY <2>1, ReviewsAssumption
  <2>3. Len(SubSeq(reviews, 1, n)) = n /\ DOMAIN SubSeq(reviews, 1, n) = 1..n
    BY <2>1, <2>2, SubSeqProperties
  <2> QED BY <2>2, <2>3 DEF FirstPage
<1>1. CASE own = {}
  BY <1>1 DEF findExistingReview, ReviewsInv, TypeOK
<1>2. CASE own # {}
  <2>1. own \subseteq 1..Len(reviews) /\ own \subseteq Nat
    BY <1>0
  <2>2. IsFiniteSet(own)
    BY <2>1, FS_Interval, FS_Subset DEF ReviewsInv, TypeOK
  <2>3. Min(own) \in own
    BY <1>2, <2>1, <2>2, MinExists
  <2>4. review' \in {Min(own), review}
    BY <1>2 DEF findExistingReview
  <2> QED BY <2>1, <2>3, <2>4 DEF ReviewsInv, TypeOK
<1> QED BY <1>1, <1>2

LEMMA ReviewIsWritten ==
  ASSUME ReviewsInv, WriteReview
  PROVE  /\ reviews' \in Seq({Human} \cup {PintReview(S) : S \in Summaries \cup {{}}})
         /\ review' \in 0..Len(reviews')
         /\ step' = "comments" => \E i \in DOMAIN reviews' : reviews'[i] = PintReview(found)
<1> USE DEF ReviewsInv, TypeOK
<1>0. review' = review
  BY DEF WriteReview, local
<1>1. CASE UNCHANGED reviews /\ step' = "idle"
  BY <1>0, <1>1
<1>2. CASE review = 0 /\ reviews' = Append(reviews, PintReview(found))
  <2> DEFINE n == Len(reviews) + 1
  <2>1. Len(reviews') = n /\ reviews'[n] = PintReview(found) /\ n \in DOMAIN reviews'
    BY <1>2
  <2> QED BY <1>0, <1>2, <2>1
<1>3. CASE review # 0 /\ reviews' = [reviews EXCEPT ![review] = PintReview(found)]
  <2>1. review \in DOMAIN reviews /\ Len(reviews') = Len(reviews)
        /\ DOMAIN reviews' = DOMAIN reviews
    BY <1>3
  <2>2. reviews'[review] = PintReview(found)
    BY <1>3, <2>1
  <2> QED BY <1>0, <1>3, <2>1, <2>2
<1> QED BY <1>1, <1>2, <1>3 DEF WriteReview, PintReview, Abort

LEMMA GitHubKeepsInv ==
  ASSUME ReviewsInv,
         findExistingReview \/ WriteReview \/ getReviewComments \/ createComment
  PROVE  ReviewsInv'
<1> USE DEF ReviewsInv, Abort, Goto, Answered, WholeRun, None, local, remote
<1>1. UNCHANGED <<head, uses, command, found, minimum, printed, bbReport, bbNotes>>
  BY DEF findExistingReview, WriteReview, getReviewComments, createComment
<1>2. /\ step \in {"reviews", "review", "comments", "comment"}
      /\ \/ step' \in {"review", "comments", "comment"} /\ exit' = exit
         \/ step' = "idle" /\ exit' = "error"
  <2>1. CASE findExistingReview
    BY <2>1 DEF findExistingReview
  <2>2. CASE WriteReview
    BY <2>2 DEF WriteReview
  <2>3. CASE getReviewComments
    BY <2>3 DEF getReviewComments
  <2>4. CASE createComment
    BY <2>4 DEF createComment
  <2> QED BY <2>1, <2>2, <2>3, <2>4
<1>3. TypeOK'
  <2>1. /\ reviews' \in Seq({Human} \cup {PintReview(S) : S \in Summaries \cup {{}}})
        /\ review' \in 0..Len(reviews')
    <3>1. CASE findExistingReview
      BY <3>1, ReviewIsFound DEF findExistingReview, TypeOK
    <3>2. CASE WriteReview
      BY <3>2, ReviewIsWritten
    <3>3. CASE getReviewComments \/ createComment
      BY <3>3 DEF getReviewComments, createComment, TypeOK
    <3> QED BY <3>1, <3>2, <3>3
  <2> QED BY <1>1, <2>1 DEF TypeOK, PintReview, formatGHReviewBody, CountBySeverity
<1>4. BitBucketSoFar' /\ ConsoleSoFar' /\ ExitComesLast'
  BY <1>1, <1>2 DEF BitBucketSoFar, ConsoleSoFar, ExitComesLast
<1>5. GitHubSoFar'
  <2>1. exit' \in {None, "error"} /\ step' # "exit"
    BY <1>2 DEF ExitComesLast
  <2>2. CASE findExistingReview
    <3>1. step' \in {"review", "idle"}
      BY <2>2 DEF findExistingReview
    <3> QED BY <2>1, <3>1 DEF GitHubSoFar
  <2>3. CASE WriteReview
    <3>1. step' \in {"comments", "idle"}
      BY <2>3 DEF WriteReview
    <3>2. step' = "comments" => \E i \in DOMAIN reviews' : reviews'[i] = PintReview(found')
      BY <2>3, <1>1, ReviewIsWritten
    <3> QED BY <2>1, <3>1, <3>2 DEF GitHubSoFar
  <2>4. CASE getReviewComments \/ createComment
    <3>1. step \in {"comments", "comment"} /\ UNCHANGED <<reviews, uses>>
      BY <2>4 DEF getReviewComments, createComment
    <3> QED BY <2>1, <3>1, <1>1 DEF GitHubSoFar
  <2> QED BY <2>2, <2>3, <2>4
<1> QED BY <1>3, <1>4, <1>5

(* A run ends, somebody pushes, or people review: what was repaired stays. *)
LEMMA OthersKeepInv ==
  ASSUME ReviewsInv, Exit \/ Push \/ PeopleReview \/ UNCHANGED vars
  PROVE  ReviewsInv'
<1> USE DEF ReviewsInv, WholeRun, None, local, remote
<1>1. CASE Exit
  <2>1. TypeOK'
    BY <1>1 DEF Exit, TypeOK, PintReview, formatGHReviewBody, CountBySeverity
  <2>2. BitBucketSoFar' /\ GitHubSoFar' /\ ConsoleSoFar' /\ ExitComesLast'
    BY <1>1 DEF Exit, BitBucketSoFar, GitHubSoFar, ConsoleSoFar, ExitComesLast
  <2> QED BY <2>1, <2>2
<1>2. CASE Push
  <2>1. TypeOK'
    BY <1>2, ReviewsAssumption
       DEF Push, TypeOK, PintReview, formatGHReviewBody, CountBySeverity
  <2>2. BitBucketSoFar' /\ GitHubSoFar' /\ ConsoleSoFar' /\ ExitComesLast'
    BY <1>2 DEF Push, BitBucketSoFar, GitHubSoFar, ConsoleSoFar, ExitComesLast
  <2> QED BY <2>1, <2>2
<1>3. CASE PeopleReview
  <2>1. /\ reviews' \in Seq({Human} \cup {PintReview(S) : S \in Summaries \cup {{}}})
        /\ Len(reviews') = Len(reviews) + 1
        /\ \A i \in DOMAIN reviews : i \in DOMAIN reviews' /\ reviews'[i] = reviews[i]
    BY <1>3 DEF PeopleReview, TypeOK
  <2>2. UNCHANGED <<head, uses, step, exit, local, bbReport, bbNotes>>
    BY <1>3 DEF PeopleReview
  <2>3. TypeOK'
    BY <2>1, <2>2 DEF TypeOK, PintReview, formatGHReviewBody, CountBySeverity
  <2>4. GitHubSoFar'
    BY <2>1, <2>2 DEF GitHubSoFar
  <2>5. BitBucketSoFar' /\ ConsoleSoFar' /\ ExitComesLast'
    BY <2>2 DEF BitBucketSoFar, ConsoleSoFar, ExitComesLast
  <2> QED BY <2>3, <2>4, <2>5
<1>4. CASE UNCHANGED vars
  <2>1. TypeOK'
    BY <1>4 DEF vars, TypeOK, PintReview, formatGHReviewBody, CountBySeverity
  <2>2. BitBucketSoFar' /\ GitHubSoFar' /\ ConsoleSoFar' /\ ExitComesLast'
    BY <1>4 DEF vars, BitBucketSoFar, GitHubSoFar, ConsoleSoFar, ExitComesLast
  <2> QED BY <2>1, <2>2
<1> QED BY <1>1, <1>2, <1>3, <1>4

(* At every step of a run, the part of the remote state its requests have  *)
(* already repaired, and what the console and the exit status say.         *)
THEOREM ReviewsInvariant == Spec => []ReviewsInv
<1>1. ReviewsInv /\ [Next]_vars => ReviewsInv'
  <2> SUFFICES ASSUME ReviewsInv, [Next]_vars PROVE ReviewsInv'
    OBVIOUS
  <2>1. ASSUME NEW S \in Summaries, StartRun("ci", S, Information) PROVE ReviewsInv'
    BY <2>1, StartKeepsInv DEF Severities, Information, Fatal
  <2>2. ASSUME NEW S \in Summaries, NEW min \in Severities, StartRun("lint", S, min)
        PROVE  ReviewsInv'
    BY <2>2, StartKeepsInv
  <2> QED
    BY <2>1, <2>2, ConsoleKeepsInv, BitBucketKeepsInv, GitHubKeepsInv, OthersKeepInv
       DEF Next, Done
<1> QED BY <1>1, ReviewsInit, PTL DEF Spec

(* A run that gets through leaves BitBucket with the report and exactly    *)
(* the annotations of its own summary, each of them on a line of the file, *)
(* whatever earlier runs and lost requests had left there.                 *)
THEOREM BitBucketIsRepaired == Spec => []BitBucketRepaired
<1>1. ReviewsInv => BitBucketRepaired
  <2> SUFFICES ASSUME ReviewsInv, Submitted("bitbucket")
               PROVE  /\ bbNotes[head] = Annotations(found)
                      /\ bbReport[head] = Result(bbNotes[head])
                      /\ \A a \in bbNotes[head] : a.line > 0
    BY DEF BitBucketRepaired
  <2>1. bbNotes[head] = Annotations(found) /\ bbReport[head] = Result(Annotations(found))
    BY DEF ReviewsInv, BitBucketSoFar, Submitted, WholeRun
  <2> QED BY <2>1, AnnotationsHaveLines DEF ReviewsInv, TypeOK
<1> QED BY <1>1, ReviewsInvariant, PTL

(* The exit status, the console, the BitBucket report and the GitHub       *)
(* review of a run that gets through tell the same story.                  *)
THEOREM AllVerdictsAgree == Spec => []VerdictsAgree
<1>1. ReviewsInv => VerdictsAgree
  <2> SUFFICES ASSUME ReviewsInv, WholeRun PROVE VerdictsAgree
    BY DEF VerdictsAgree, WholeRun
  <2>0. found \in Summaries \cup {{}} /\ minimum \in Severities
    BY DEF ReviewsInv, TypeOK
  <2>1. exit = "problems" <=>
          \E r \in found : r.sev >= Bug /\ r.sev >= minimum /\ ShouldReport(r)
    BY <2>0, BugsAreCounted DEF ReviewsInv, ExitComesLast
  <2>2. printed = {r \in found : r.sev >= minimum /\ ShouldReport(r)}
    BY DEF ReviewsInv, ConsoleSoFar
  <2>3. (exit = "problems") <=> (\E r \in printed : r.sev >= Bug)
    BY <2>1, <2>2
  <2>4. Submitted("bitbucket") => (bbReport[head] = "FAIL" <=> exit = "problems")
    <3> SUFFICES ASSUME Submitted("bitbucket")
                 PROVE  bbReport[head] = "FAIL" <=> exit = "problems"
      OBVIOUS
    <3>1. bbReport[head] = Result(Annotations(found)) /\ minimum = Information
      BY DEF ReviewsInv, BitBucketSoFar, ConsoleSoFar, Submitted, WholeRun
    <3>2. \A r \in found : r.sev \in Severities
      BY <2>0, ReviewsAssumption
    <3>3. Result(Annotations(found)) = "FAIL" <=>
            \E r \in found : ShouldReport(r) /\ makeAnnotation(r).type = "BUG"
      BY DEF Result, Annotations
    <3>4. \A r \in found : makeAnnotation(r).type = "BUG" <=> r.sev >= Bug
      BY DEF makeAnnotation
    <3> QED BY <2>1, <3>1, <3>2, <3>3, <3>4 DEF Severities, Information, Fatal
  <2>5. Submitted("github") =>
          \E v \in Range(reviews) \ {Human} : v.body = formatGHReviewBody(found)
    <3> SUFFICES ASSUME Submitted("github")
                 PROVE  \E v \in Range(reviews) \ {Human} : v.body = formatGHReviewBody(found)
      OBVIOUS
    <3>1. PICK i \in DOMAIN reviews : reviews[i] = PintReview(found)
      BY DEF ReviewsInv, GitHubSoFar, Submitted, WholeRun
    <3>2. /\ PintReview(found).by = "pint" /\ Human.by = "human"
          /\ PintReview(found).body = formatGHReviewBody(found)
      BY DEF PintReview, Human
    <3> QED BY <3>1, <3>2 DEF Range
  <2> QED BY <2>3, <2>4, <2>5 DEF VerdictsAgree
<1> QED BY <1>1, ReviewsInvariant, PTL
----------------------------------------------------------------------------
(* The reports of a run are put in some order, each of them somewhere.     *)
LEMMA OrderHasAll ==
  ASSUME NEW S \in Summaries \cup {{}}, NEW q \in InOrder(S)
  PROVE  q \in Seq(S) /\ Range(q) = S
<1>1. Cardinality(S) \in Nat
  BY ReviewsAssumption, FS_EmptySet, FS_CardinalityType
<1>2. q \in [1..Cardinality(S) -> S] /\ Range(q) = S
  BY DEF InOrder
<1> DEFINE n == Cardinality(S)
<1> HIDE DEF n
<1> QED BY <1>1, <1>2

LEMMA RangeOfAppend ==
  ASSUME NEW S, NEW s \in Seq(S), NEW x \in S
  PROVE  Range(Append(s, x)) = Range(s) \cup {x}
<1>1. /\ Len(Append(s, x)) = Len(s) + 1 /\ Append(s, x)[Len(s) + 1] = x
      /\ \A i \in 1..Len(s) : Append(s, x)[i] = s[i]
      /\ DOMAIN Append(s, x) = 1..(Len(s) + 1) /\ DOMAIN s = 1..Len(s)
      /\ Len(s) \in Nat
  OBVIOUS
<1>2. 1..(Len(s) + 1) = 1..Len(s) \cup {Len(s) + 1}
  BY <1>1
<1> QED BY <1>1, <1>2, Zenon DEF Range

LEMMA RangeOfTail ==
  ASSUME NEW S, NEW s \in Seq(S), s # <<>>, NEW x \in Range(s), x # Head(s)
  PROVE  x \in Range(Tail(s))
<1>1. PICK i \in DOMAIN s : s[i] = x
  BY DEF Range
<1>2. i \in 2..Len(s)
  BY <1>1
<1>3. i - 1 \in DOMAIN Tail(s) /\ Tail(s)[i - 1] = x
  BY <1>1, <1>2
<1> QED BY <1>3, Zenon DEF Range

(* What the first page of a listing shows.                                 *)
LEMMA FirstPageShows ==
  ASSUME NEW S, NEW s \in Seq(S)
  PROVE  /\ Range(FirstPage(s)) \subseteq Range(s)
         /\ DOMAIN FirstPage(s) = {i \in DOMAIN s : i <= PageSize}
         /\ \A i \in DOMAIN s : i <= PageSize => s[i] \in Range(FirstPage(s))
<1> DEFINE n == IF Len(s) < PageSize THEN Len(s) ELSE PageSize
<1>1. n \in 0..Len(s) /\ n \in Nat /\ Len(s) \in Nat /\ DOMAIN s = 1..Len(s)
  BY ReviewsAssumption
<1>2. /\ Len(SubSeq(s, 1, n)) = n /\ DOMAIN SubSeq(s, 1, n) = 1..n
      /\ \A i \in 1..n : SubSeq(s, 1, n)[i] = s[i]
  BY <1>1, SubSeqProperties
<1>3. 1..n = {i \in 1..Len(s) : i <= PageSize}
  BY <1>1, ReviewsAssumption
<1>4. FirstPage(s) = SubSeq(s, 1, n)
  BY DEF FirstPage
<1> HIDE DEF n
<1> QED BY <1>1, <1>2, <1>3, <1>4, Zenon DEF Range

LEMMA CommentsInit == Init => CommentsInv
<1> SUFFICES ASSUME Init PROVE CommentsInv
  OBVIOUS
<1>1. ListsOK
  BY ReviewsAssumption DEF Init, ListsOK
<1>2. ReviewIsPints /\ ListedAreKnown /\ CommentsSoFar /\ NothingSaidTwice
  BY DEF Init, ReviewIsPints, ListedAreKnown, CommentsSoFar, NothingSaidTwice, Submitted,
         WholeRun, None
<1> QED BY <1>1, <1>2 DEF CommentsInv
----------------------------------------------------------------------------
(* The steps of a run that leave the lists on GitHub, and what is to do.   *)
SmallStep ==
    \/ Blame \/ PutReport \/ DeleteAnnotations \/ CreateAnnotations
    \/ findExistingReview \/ WriteReview \/ getReviewComments
    \/ Exit \/ Push \/ UNCHANGED vars

LEMMA NextCases ==
  ASSUME [Next]_vars
  PROVE  \/ \E cmd \in {"ci", "lint"}, S \in Summaries, min \in Severities :
              StartRun(cmd, S, min)
         \/ SubmitConsole \/ createComment \/ PeopleReview \/ SmallStep
  BY DEF Next, Done, SmallStep, Severities, Information, Fatal

LEMMA SmallStepsKeep ==
  ASSUME SmallStep
  PROVE  UNCHANGED <<comments, todo, found, runs>>
  BY DEF SmallStep, Blame, PutReport, DeleteAnnotations, CreateAnnotations,
         findExistingReview, WriteReview, getReviewComments, Exit, Push, local, remote, vars

LEMMA NewCommentIsPints ==
  ASSUME ReviewsInv, ListsOK, todo # <<>>
  PROVE  /\ Head(todo) \in found
         /\ reportToGitHubComment(Head(todo)) # Human
         /\ reportToGitHubComment(Head(todo)) \in
              {PintComment(r, c, n) :
                 r \in UNION Summaries, c \in 1..NumCommits, n \in 0..MaxRuns}
<1>1. Head(todo) \in found
  BY DEF ListsOK
<1>2. Head(todo) \in UNION Summaries /\ head \in 1..NumCommits /\ runs \in 0..MaxRuns
  BY <1>1 DEF ReviewsInv, TypeOK, ListsOK
<1>3. reportToGitHubComment(Head(todo)).by = "pint" /\ Human.by # "pint"
  BY DEF reportToGitHubComment, PintComment, Human
<1>4. reportToGitHubComment(Head(todo)) # Human
  BY <1>3
<1> QED BY <1>1, <1>2, <1>4 DEF reportToGitHubComment

LEMMA ListsPreserved == ReviewsInv /\ ListsOK /\ [Next]_vars => ListsOK'
<1> SUFFICES ASSUME ReviewsInv, ListsOK, [Next]_vars PROVE ListsOK'
  OBVIOUS
<1> DEFINE C == {Human} \cup
         {PintComment(r, c, n) :
            r \in UNION Summaries, c \in 1..NumCommits, n \in 0..MaxRuns}
<1>0. comments \in Seq(C) /\ todo \in Seq(found) /\ runs \in 0..MaxRuns
  BY DEF ListsOK
<1>a. Human \in C
  OBVIOUS
<1>b. todo # <<>> => reportToGitHubComment(Head(todo)) \in C
  BY NewCommentIsPints
<1>c. comments' \in Seq(C) /\ todo' \in Seq(found') /\ runs' \in 0..MaxRuns => ListsOK'
  BY DEF ListsOK
<1> HIDE DEF C
<1> SUFFICES comments' \in Seq(C) /\ todo' \in Seq(found') /\ runs' \in 0..MaxRuns
  BY <1>c
<1>1. ASSUME NEW cmd, NEW S, NEW min, StartRun(cmd, S, min)
      PROVE  comments' \in Seq(C) /\ todo' \in Seq(found') /\ runs' \in 0..MaxRuns
  BY <1>0, <1>1, ReviewsAssumption DEF StartRun, remote
<1>2. CASE SubmitConsole
  <2>1. todo' \in InOrder(found) /\ UNCHANGED <<found, runs, comments>>
    BY <1>2 DEF SubmitConsole, remote
  <2>2. todo' \in Seq(found)
    BY <2>1, OrderHasAll DEF ReviewsInv, TypeOK
  <2> QED BY <2>1, <2>2, <1>0
<1>3. CASE createComment
  <2>1. /\ UNCHANGED <<found, runs>> /\ todo # <<>>
        /\ todo' = Tail(todo) \/ todo' = todo
        /\ comments' = comments \/ comments' = Append(comments, reportToGitHubComment(Head(todo)))
    BY <1>3 DEF createComment
  <2>2. todo' \in Seq(found')
    <3>1. Tail(todo) \in Seq(found)
      BY <2>1, <1>0
    <3> QED BY <2>1, <3>1, <1>0
  <2>3. comments' \in Seq(C)
    BY <2>1, <1>0, <1>b, AppendProperties
  <2> QED BY <2>1, <2>2, <2>3, <1>0
<1>4. CASE PeopleReview
  <2>1. UNCHANGED <<todo, found, runs>> /\ comments' = Append(comments, Human)
    BY <1>4 DEF PeopleReview, local
  <2> QED BY <2>1, <1>0, <1>a
<1>5. CASE SmallStep
  BY <1>0, <1>5, SmallStepsKeep
<1> QED BY <1>1, <1>2, <1>3, <1>4, <1>5, NextCases

LEMMA ReviewPreserved == ReviewsInv /\ ReviewIsPints /\ [Next]_vars => ReviewIsPints'
<1> SUFFICES ASSUME ReviewsInv, ReviewIsPints, [Next]_vars, step' = "review"
             PROVE  /\ review' # 0 => IsPintReview(reviews'[review'])
                    /\ review' = 0 => \A i \in DOMAIN reviews' :
                                        i <= PageSize => ~IsPintReview(reviews'[i])
  BY DEF ReviewIsPints
<1> DEFINE R == {Human} \cup {PintReview(S) : S \in Summaries \cup {{}}}
<1>0. reviews \in Seq(R) /\ review \in 0..Len(reviews)
  BY DEF ReviewsInv, TypeOK
<1> HIDE DEF R
<1>1. CASE findExistingReview
  <2> DEFINE own == {i \in DOMAIN FirstPage(reviews) : IsPintReview(reviews[i])}
  <2>1. review' = (IF own = {} THEN 0 ELSE Min(own)) /\ reviews' = reviews
    BY <1>1 DEF findExistingReview, Abort, remote
  <2>2. own = {i \in DOMAIN reviews : i <= PageSize /\ IsPintReview(reviews[i])}
    BY <1>0, FirstPageShows
  <2>3. own \subseteq Nat /\ IsFiniteSet(own) /\ 0 \notin own
    <3>1. own \subseteq 1..Len(reviews) /\ Len(reviews) \in Nat
      BY <1>0, <2>2
    <3>2. IsFiniteSet(1..Len(reviews))
      BY <3>1, FS_Interval
    <3> HIDE DEF own
    <3>3. IsFiniteSet(own)
      BY <3>1, <3>2, FS_Subset
    <3>4. 0 \notin 1..Len(reviews) /\ 1..Len(reviews) \subseteq Nat
      BY <3>1
    <3> QED BY <3>1, <3>3, <3>4
  <2>4. own # {} => Min(own) \in own
    BY <2>3, MinExists
  <2> HIDE DEF own
  <2>5. CASE own = {}
    <3>1. review' = 0
      BY <2>1, <2>5
    <3> QED BY <3>1, <2>1, <2>2, <2>5
  <2>6. CASE own # {}
    <3>1. review' \in own /\ review' # 0
      BY <2>1, <2>3, <2>4, <2>6
    <3> QED BY <3>1, <2>1, <2>2
  <2> QED BY <2>5, <2>6
<1>2. CASE PeopleReview
  <2>1. /\ UNCHANGED <<step, review>> /\ reviews' = Append(reviews, Human)
        /\ ~IsPintReview(Human)
    BY <1>2 DEF PeopleReview, local, IsPintReview, Human
  <2>2. /\ \A i \in DOMAIN reviews : reviews'[i] = reviews[i] /\ i \in DOMAIN reviews'
        /\ \A i \in DOMAIN reviews' : i \in DOMAIN reviews \/ reviews'[i] = Human
        /\ review # 0 => review \in DOMAIN reviews
    <3>0. Human \in R
      BY DEF R
    <3> QED BY <2>1, <1>0, <3>0
  <2> QED BY <2>1, <2>2 DEF ReviewIsPints
<1>3. CASE UNCHANGED vars
  BY <1>3 DEF vars, local, remote, ReviewIsPints
<1>4. CASE ~(findExistingReview \/ PeopleReview \/ UNCHANGED vars)
  <2> USE DEF Abort, Goto, Answered, BitBucketDone, AfterBitBucket
  <2>1. \A cmd, S, min : StartRun(cmd, S, min) => step' # "review"
    BY DEF StartRun
  <2>2. SubmitConsole => step' # "review"
    BY DEF SubmitConsole
  <2>3. ~(Blame \/ PutReport \/ DeleteAnnotations \/ CreateAnnotations)
    BY DEF Blame, PutReport, DeleteAnnotations, CreateAnnotations
  <2>4. ~(WriteReview \/ getReviewComments \/ createComment \/ Exit)
    BY DEF WriteReview, getReviewComments, createComment, Exit
  <2>5. ~Push
    BY DEF Push
  <2> QED BY <1>4, <2>1, <2>2, <2>3, <2>4, <2>5, NextCases DEF SmallStep
<1> QED BY <1>1, <1>2, <1>3, <1>4

(* Where a run can come to its comments from, and to its end.              *)
LEMMA CommentSteps ==
  ASSUME [Next]_vars, step' = "comment"
  PROVE  getReviewComments \/ createComment \/ PeopleReview \/ UNCHANGED vars
<1> SUFFICES ASSUME ~(getReviewComments \/ createComment \/ PeopleReview \/ UNCHANGED vars)
             PROVE  FALSE
  OBVIOUS
<1> USE DEF Abort, Goto, Answered, BitBucketDone, AfterBitBucket
<1>1. \A cmd, S, min : ~StartRun(cmd, S, min)
  BY DEF StartRun
<1>2. ~SubmitConsole
  BY DEF SubmitConsole
<1>3. ~(Blame \/ PutReport \/ DeleteAnnotations \/ CreateAnnotations)
  BY DEF Blame, PutReport, DeleteAnnotations, CreateAnnotations
<1>4. ~(findExistingReview \/ WriteReview \/ Exit \/ Push)
  BY DEF findExistingReview, WriteReview, Exit, Push
<1> QED BY <1>1, <1>2, <1>3, <1>4, NextCases DEF SmallStep

LEMMA WholeRunSteps ==
  ASSUME ExitComesLast, [Next]_vars, WholeRun'
  PROVE  Exit \/ PeopleReview \/ UNCHANGED vars
<1> SUFFICES ASSUME ~(Exit \/ PeopleReview \/ UNCHANGED vars)
             PROVE  FALSE
  OBVIOUS
<1>0. exit' \notin {None, "error"} /\ (step # "idle" => exit \in {None, "error"})
  BY DEF WholeRun, None, ExitComesLast
<1> USE DEF Abort, Goto, Answered, BitBucketDone
<1>1. \A cmd, S, min : ~StartRun(cmd, S, min)
  BY <1>0 DEF StartRun
<1>2. ~SubmitConsole
  BY <1>0 DEF SubmitConsole
<1>3. ~(Blame \/ PutReport \/ DeleteAnnotations \/ CreateAnnotations)
  BY <1>0 DEF Blame, PutReport, DeleteAnnotations, CreateAnnotations
<1>4. ~(findExistingReview \/ WriteReview \/ getReviewComments \/ createComment)
  BY <1>0 DEF findExistingReview, WriteReview, getReviewComments, createComment
<1>5. ~Push
  BY <1>0 DEF Push
<1> QED BY <1>1, <1>2, <1>3, <1>4, <1>5, NextCases DEF SmallStep

(* Comments are only ever added, and each of a run says so.                *)
LEMMA CommentsGrow ==
  ASSUME ReviewsInv, ListsOK, createComment \/ PeopleReview
  PROVE  /\ Len(comments) \in Nat /\ DOMAIN comments = 1..Len(comments)
         /\ \/ UNCHANGED comments
            \/ LET n == Len(comments) + 1 IN
               /\ DOMAIN comments' = 1..n
               /\ \A i \in DOMAIN comments : comments'[i] = comments[i]
               /\ \/ PeopleReview /\ comments'[n] = Human
                  \/ /\ createComment /\ todo # <<>> /\ Head(todo) \in found
                     /\ ~AlreadySaid(reportToGitHubComment(Head(todo)))
                     /\ comments'[n] = reportToGitHubComment(Head(todo))
<1> DEFINE C == {Human} \cup
         {PintComment(r, c, n) :
            r \in UNION Summaries, c \in 1..NumCommits, n \in 0..MaxRuns}
<1>1. comments \in Seq(C)
  BY DEF ListsOK
<1>2. Human \in C
  OBVIOUS
<1>3. todo # <<>> => reportToGitHubComment(Head(todo)) \in C /\ Head(todo) \in found
  BY NewCommentIsPints
<1> HIDE DEF C
<1>4. Len(comments) \in Nat /\ DOMAIN comments = 1..Len(comments)
  BY <1>1
<1>5. ASSUME NEW x \in C, comments' = Append(comments, x)
      PROVE  /\ DOMAIN comments' = 1..(Len(comments) + 1)
             /\ \A i \in DOMAIN comments : comments'[i] = comments[i]
             /\ comments'[Len(comments) + 1] = x
  BY <1>1, <1>5
<1>6. CASE PeopleReview
  <2>1. comments' = Append(comments, Human)
    BY <1>6 DEF PeopleReview
  <2> QED BY <2>1, <1>2, <1>4, <1>5, <1>6
<1>7. CASE createComment
  <2>1. /\ todo # <<>>
        /\ \/ UNCHANGED comments
           \/ /\ ~AlreadySaid(reportToGitHubComment(Head(todo)))
              /\ comments' = Append(comments, reportToGitHubComment(Head(todo)))
    BY <1>7 DEF createComment
  <2>2. CASE UNCHANGED comments
    BY <2>2, <1>4
  <2>3. CASE ~UNCHANGED comments
    BY <2>1, <2>3, <1>3, <1>4, <1>5, <1>7
  <2> QED BY <2>2, <2>3
<1> QED BY <1>6, <1>7

LEMMA ListedPreserved ==
  ReviewsInv /\ ListsOK /\ ListedAreKnown /\ [Next]_vars => ListedAreKnown'
<1> SUFFICES ASSUME ReviewsInv, ListsOK, ListedAreKnown, [Next]_vars, step' = "comment"
             PROVE  /\ existing' \subseteq Range(comments') \ {Human}
                    /\ \A i \in DOMAIN comments' :
                         i <= PageSize /\ comments'[i] # Human /\ comments'[i].run # runs'
                         => comments'[i] \in existing'
  BY DEF ListedAreKnown
<1>1. CASE getReviewComments
  <2>1. UNCHANGED <<comments, runs>> /\ existing' = Range(FirstPage(comments)) \ {Human}
    BY <1>1 DEF getReviewComments, Abort, remote
  <2> DEFINE C == {Human} \cup
           {PintComment(r, c, n) :
              r \in UNION Summaries, c \in 1..NumCommits, n \in 0..MaxRuns}
  <2>2. comments \in Seq(C)
    BY DEF ListsOK
  <2> HIDE DEF C
  <2>3. /\ Range(FirstPage(comments)) \subseteq Range(comments)
        /\ \A i \in DOMAIN comments : i <= PageSize => comments[i] \in Range(FirstPage(comments))
    BY <2>2, FirstPageShows
  <2> QED BY <2>1, <2>3
<1>2. CASE createComment \/ PeopleReview
  <2>1. /\ step = "comment" /\ UNCHANGED <<existing, runs>>
    BY <1>2 DEF createComment, PeopleReview, local
  <2>2. /\ existing \subseteq Range(comments) \ {Human}
        /\ \A i \in DOMAIN comments :
             i <= PageSize /\ comments[i] # Human /\ comments[i].run # runs
             => comments[i] \in existing
    BY <2>1 DEF ListedAreKnown
  <2>3. CASE UNCHANGED comments
    BY <2>1, <2>2, <2>3
  <2>4. CASE ~UNCHANGED comments
    <3> DEFINE n == Len(comments) + 1
    <3>1. /\ DOMAIN comments' = 1..n /\ DOMAIN comments = 1..Len(comments)
          /\ Len(comments) \in Nat
          /\ \A i \in DOMAIN comments : comments'[i] = comments[i]
          /\ comments'[n] \in {Human, reportToGitHubComment(Head(todo))}
      BY <1>2, <2>4, CommentsGrow
    <3>2. reportToGitHubComment(Head(todo)).run = runs
      BY DEF reportToGitHubComment, PintComment
    <3>3. Range(comments) \subseteq Range(comments')
      BY <3>1 DEF Range
    <3>4. \A i \in DOMAIN comments' : i \in DOMAIN comments \/ i = n
      BY <3>1
    <3>5. comments'[n] = Human \/ comments'[n].run = runs
      BY <3>1, <3>2
    <3> QED BY <2>1, <2>2, <3>1, <3>3, <3>4, <3>5
  <2> QED BY <2>3, <2>4
<1>3. CASE UNCHANGED vars
  BY <1>3 DEF vars, local, remote, ListedAreKnown
<1> QED BY <1>1, <1>2, <1>3, CommentSteps

(* What has its comment keeps it while the run goes on, and after it.      *)
LEMMA RepairedStays ==
  ASSUME UNCHANGED <<head, runs, existing>>, Range(comments) \subseteq Range(comments'),
         NEW r, Repaired(r)
  PROVE  Repaired(r)'
<1>1. CommentsOn(r) \subseteq CommentsOn(r)'
  BY DEF CommentsOn, reportToGitHubComment
<1> QED BY <1>1 DEF Repaired, reportToGitHubComment

LEMMA MoreComments ==
  ASSUME ReviewsInv, ListsOK, createComment \/ PeopleReview
  PROVE  Range(comments) \subseteq Range(comments')
<1>1. CASE UNCHANGED comments
  BY <1>1
<1>2. CASE ~UNCHANGED comments
  <2>1. \A i \in DOMAIN comments : i \in DOMAIN comments' /\ comments'[i] = comments[i]
    BY <1>2, CommentsGrow
  <2> QED BY <2>1 DEF Range
<1> QED BY <1>1, <1>2

(* createComment: the report at the head of the list is said already, or   *)
(* gets its comment, unless the run ends.                                  *)
LEMMA HeadIsRepaired ==
  ASSUME ReviewsInv, ListsOK, ListedAreKnown, createComment, step' = "comment",
         NEW r, r = Head(todo)
  PROVE  todo # <<>> /\ todo' = Tail(todo) /\ Repaired(r)'
<1> DEFINE c == PintComment(r, head, runs)
           n == Len(comments) + 1
<1>1. /\ todo # <<>> /\ todo' = Tail(todo) /\ UNCHANGED <<head, runs, existing>>
      /\ \/ AlreadySaid(c) /\ UNCHANGED comments
         \/ ~AlreadySaid(c) /\ comments' = Append(comments, c)
  BY DEF createComment, Goto, Answered, Abort, reportToGitHubComment
<1>2. c.commit = head /\ reportToGitHubComment(r)' = c /\ reportToGitHubComment(r) = c
  BY <1>1 DEF reportToGitHubComment, PintComment
<1>3. existing \subseteq Range(comments) \ {Human}
  BY DEF ListedAreKnown, createComment
<1>4. c # Human /\ c \in {PintComment(q, d, m) :
                            q \in UNION Summaries, d \in 1..NumCommits, m \in 0..MaxRuns}
  BY <1>1, <1>2, NewCommentIsPints
<1> HIDE DEF c
<1>5. CASE AlreadySaid(c) /\ UNCHANGED comments
  <2>1. PICK e \in existing : e.body = c.body /\ e.commit = head
    BY <1>5, <1>2 DEF AlreadySaid
  <2>2. e \in CommentsOn(r)'
    BY <2>1, <1>1, <1>2, <1>3, <1>5 DEF CommentsOn
  <2> QED BY <2>1, <2>2, <1>1 DEF Repaired
<1>6. CASE ~AlreadySaid(c) /\ comments' = Append(comments, c)
  <2>1. c \in Range(comments')
    <3> DEFINE C == {Human} \cup
             {PintComment(q, d, m) :
                q \in UNION Summaries, d \in 1..NumCommits, m \in 0..MaxRuns}
    <3>1. comments \in Seq(C) /\ c \in C
      BY <1>4 DEF ListsOK
    <3> HIDE DEF C
    <3>2. n \in DOMAIN comments' /\ comments'[n] = c
      BY <3>1, <1>6
    <3> QED BY <3>2 DEF Range
  <2>2. c \in CommentsOn(r)'
    BY <2>1, <1>1, <1>2, <1>4 DEF CommentsOn
  <2> QED BY <2>2, <1>1, <1>2 DEF Repaired
<1> QED BY <1>1, <1>5, <1>6

LEMMA SoFarPreserved ==
  ReviewsInv /\ ListsOK /\ ListedAreKnown /\ CommentsSoFar /\ [Next]_vars => CommentsSoFar'
<1> SUFFICES ASSUME ReviewsInv, ListsOK, ListedAreKnown, CommentsSoFar, [Next]_vars
             PROVE  CommentsSoFar'
  OBVIOUS
<1>0. /\ step # "idle" => exit \in {None, "error"}
      /\ command = "ci" /\ "github" \in uses => step # "exit"
      /\ todo \in Seq(found) /\ found \in Summaries \cup {{}} /\ ExitComesLast
  BY DEF ReviewsInv, ExitComesLast, GitHubSoFar, ListsOK, TypeOK
<1> DEFINE Busy(s) == s \notin {"idle", "console", "comment"}
<1>1. Busy(step') => Range(todo') = found'
  <2> SUFFICES ASSUME Busy(step') PROVE Range(todo') = found'
    OBVIOUS
  <2> USE DEF Abort, Goto, Answered
  <2>1. \A cmd, S, min : ~StartRun(cmd, S, min)
    BY DEF StartRun
  <2>2. ~createComment
    BY DEF createComment
  <2>3. CASE SubmitConsole
    <3>1. todo' \in InOrder(found) /\ found' = found
      BY <2>3 DEF SubmitConsole
    <3> QED BY <3>1, <1>0, OrderHasAll
  <2>4. CASE PeopleReview
    <3>1. UNCHANGED <<step, todo, found>>
      BY <2>4 DEF PeopleReview, local
    <3> QED BY <3>1 DEF CommentsSoFar
  <2>5. CASE SmallStep
    <3>1. UNCHANGED <<todo, found>>
      BY <2>5, SmallStepsKeep
    <3>2. CASE Exit \/ Push \/ UNCHANGED vars
      <4>1. step' = "idle" \/ step' = step
        BY <3>2 DEF Exit, Push, vars
      <4> QED BY <3>1, <4>1 DEF CommentsSoFar
    <3>3. CASE Blame \/ PutReport \/ DeleteAnnotations \/ CreateAnnotations
      <4>1. Busy(step)
        BY <3>3 DEF Blame, PutReport, DeleteAnnotations, CreateAnnotations
      <4> QED BY <3>1, <4>1 DEF CommentsSoFar
    <3>4. CASE findExistingReview \/ WriteReview \/ getReviewComments
      <4>1. Busy(step)
        BY <3>4 DEF findExistingReview, WriteReview, getReviewComments
      <4> QED BY <3>1, <4>1 DEF CommentsSoFar
    <3> QED BY <2>5, <3>2, <3>3, <3>4 DEF SmallStep
  <2> QED BY <2>1, <2>2, <2>3, <2>4, <2>5, NextCases
<1>2. step' = "comment" \/ WholeRun' => \A r \in found' : r \in Range(todo') \/ Repaired(r)'
  <2> SUFFICES ASSUME step' = "comment" \/ WholeRun', NEW r \in found'
               PROVE  r \in Range(todo') \/ Repaired(r)'
    OBVIOUS
  <2>1. CASE getReviewComments /\ step' = "comment"
    <3>1. Busy(step) /\ UNCHANGED <<found, todo>>
      BY <2>1 DEF getReviewComments
    <3> QED BY <3>1 DEF CommentsSoFar
  <2>2. CASE createComment /\ step' = "comment"
    <3>1. step = "comment" /\ UNCHANGED <<found, head, runs, existing>>
      BY <2>2 DEF createComment
    <3>2. Range(comments) \subseteq Range(comments')
      BY <2>2, MoreComments
    <3>3. CASE r = Head(todo)
      BY <2>2, <3>3, HeadIsRepaired
    <3>4. CASE r # Head(todo)
      <4>1. r \in Range(todo) \/ Repaired(r)
        BY <3>1 DEF CommentsSoFar
      <4>2. todo # <<>> /\ todo' = Tail(todo)
        BY <2>2, HeadIsRepaired
      <4>3. r \in Range(todo) => r \in Range(Tail(todo))
        BY <1>0, <3>4, <4>2, RangeOfTail
      <4> QED BY <3>1, <3>2, <4>1, <4>2, <4>3, RepairedStays
    <3> QED BY <3>3, <3>4
  <2>3. CASE PeopleReview
    <3>1. UNCHANGED <<step, exit, found, todo, head, runs, existing>>
      BY <2>3 DEF PeopleReview, local
    <3>2. Range(comments) \subseteq Range(comments')
      BY <2>3, MoreComments
    <3>3. r \in Range(todo) \/ Repaired(r)
      BY <3>1 DEF CommentsSoFar, WholeRun
    <3> QED BY <3>1, <3>2, <3>3, RepairedStays
  <2>4. CASE Exit
    <3>1. /\ step \in {"exit", "comment"}
          /\ UNCHANGED <<found, todo, head, runs, existing, comments>>
      BY <2>4 DEF Exit, local, remote
    <3>2. r \in Range(todo) \/ Repaired(r)
      BY <3>1 DEF CommentsSoFar
    <3> QED BY <3>1, <3>2, RepairedStays
  <2>5. CASE UNCHANGED vars
    <3>1. UNCHANGED <<step, exit, found, todo, head, runs, existing, comments>>
      BY <2>5 DEF vars, local, remote
    <3>2. r \in Range(todo) \/ Repaired(r)
      BY <3>1 DEF CommentsSoFar, WholeRun
    <3> QED BY <3>1, <3>2, RepairedStays
  <2>6. CASE step' = "comment"
    BY <2>6, <2>1, <2>2, <2>3, <2>5, CommentSteps
  <2>7. CASE WholeRun'
    BY <2>7, <2>3, <2>4, <2>5, <1>0, WholeRunSteps
  <2> QED BY <2>6, <2>7
<1>3. Submitted("github")' => todo' = <<>>
  <2> SUFFICES ASSUME command' = "ci", "github" \in uses', WholeRun'
               PROVE  todo' = <<>>
    BY DEF Submitted, WholeRun
  <2>1. CASE Exit
    BY <2>1, <1>0 DEF Exit, local
  <2>2. CASE PeopleReview
    BY <2>2 DEF PeopleReview, local, CommentsSoFar, Submitted, WholeRun
  <2>3. CASE UNCHANGED vars
    BY <2>3 DEF vars, local, CommentsSoFar, Submitted, WholeRun
  <2> QED BY <2>1, <2>2, <2>3, <1>0, WholeRunSteps
<1> QED BY <1>1, <1>2, <1>3 DEF CommentsSoFar

(* One review by pint: the one it finds is its own, and it creates one     *)
(* only if the first page had none.                                        *)
OneReview ==
  \A i, j \in DOMAIN reviews :
    i < j /\ i <= PageSize => ~(IsPintReview(reviews[i]) /\ IsPintReview(reviews[j]))

LEMMA ReviewsOnce == ReviewsInv /\ ReviewIsPints /\ OneReview /\ [Next]_vars => OneReview'
<1> SUFFICES ASSUME ReviewsInv, ReviewIsPints, OneReview, [Next]_vars PROVE OneReview'
  OBVIOUS
<1> DEFINE R == {Human} \cup {PintReview(S) : S \in Summaries \cup {{}}}
<1>0. reviews \in Seq(R) /\ review \in 0..Len(reviews) /\ PageSize \in Nat
  BY ReviewsAssumption DEF ReviewsInv, TypeOK
<1>1. Human \in R /\ PintReview(found) \in R /\ ~IsPintReview(Human)
  BY DEF IsPintReview, Human, ReviewsInv, TypeOK
<1> HIDE DEF R
<1>2. ASSUME NEW x \in R, reviews' = Append(reviews, x),
             \/ ~IsPintReview(x)
             \/ \A i \in DOMAIN reviews : i <= PageSize => ~IsPintReview(reviews[i])
      PROVE  OneReview'
  <2>1. /\ DOMAIN reviews = 1..Len(reviews) /\ DOMAIN reviews' = 1..(Len(reviews) + 1)
        /\ Len(reviews) \in Nat
        /\ \A i \in DOMAIN reviews : reviews'[i] = reviews[i]
        /\ reviews'[Len(reviews) + 1] = x
    BY <1>0, <1>2
  <2> SUFFICES ASSUME NEW i \in DOMAIN reviews', NEW j \in DOMAIN reviews',
                      i < j, i <= PageSize, IsPintReview(reviews'[i]), IsPintReview(reviews'[j])
               PROVE  FALSE
    BY DEF OneReview
  <2>2. i \in DOMAIN reviews /\ (j \in DOMAIN reviews \/ j = Len(reviews) + 1)
    BY <2>1
  <2>3. CASE j \in DOMAIN reviews
    BY <2>1, <2>2, <2>3 DEF OneReview
  <2>4. CASE j = Len(reviews) + 1
    BY <2>1, <2>2, <2>4, <1>2
  <2> QED BY <2>2, <2>3, <2>4
<1>3. CASE WriteReview
  <2>1. /\ step = "review"
        /\ \/ UNCHANGED reviews
           \/ review = 0 /\ reviews' = Append(reviews, PintReview(found))
           \/ review # 0 /\ reviews' = [reviews EXCEPT ![review] = PintReview(found)]
    BY <1>3 DEF WriteReview, PintReview
  <2>2. CASE UNCHANGED reviews
    BY <2>2 DEF OneReview
  <2>3. CASE review = 0 /\ reviews' = Append(reviews, PintReview(found))
    BY <2>1, <2>3, <1>1, <1>2 DEF ReviewIsPints
  <2>4. CASE review # 0 /\ reviews' = [reviews EXCEPT ![review] = PintReview(found)]
    <3>1. IsPintReview(reviews[review]) /\ review \in DOMAIN reviews
      BY <2>1, <2>4, <1>0 DEF ReviewIsPints
    <3>2. DOMAIN reviews' = DOMAIN reviews
          /\ \A i \in DOMAIN reviews : i # review => reviews'[i] = reviews[i]
      BY <2>4, <1>0
    <3>3. \A i \in DOMAIN reviews : IsPintReview(reviews'[i]) => IsPintReview(reviews[i])
      BY <3>1, <3>2
    <3> QED BY <3>2, <3>3 DEF OneReview
  <2> QED BY <2>1, <2>2, <2>3, <2>4
<1>4. CASE PeopleReview
  <2>1. reviews' = Append(reviews, Human)
    BY <1>4 DEF PeopleReview
  <2> QED BY <2>1, <1>1, <1>2
<1>5. CASE UNCHANGED reviews
  BY <1>5 DEF OneReview
<1>6. WriteReview \/ PeopleReview \/ UNCHANGED reviews
  <2>1. ASSUME NEW cmd, NEW S, NEW min, StartRun(cmd, S, min) PROVE UNCHANGED reviews
    BY <2>1 DEF StartRun, remote
  <2>2. SubmitConsole \/ createComment => UNCHANGED reviews
    BY DEF SubmitConsole, createComment, remote
  <2>3. SmallStep => WriteReview \/ UNCHANGED reviews
    BY DEF SmallStep, Blame, PutReport, DeleteAnnotations, CreateAnnotations,
           findExistingReview, getReviewComments, Exit, Push, remote, vars
  <2> QED BY <2>1, <2>2, <2>3, NextCases
<1> QED BY <1>3, <1>4, <1>5, <1>6

(* A comment that another run wrote on the first page is one this run has  *)
(* listed, so it is not written again.                                     *)
Same(c, d) == \A f \in {"commit", "path", "line", "body"} : c[f] = d[f]
OneComment ==
  \A i, j \in DOMAIN comments :
    LET c == comments[i]  d == comments[j] IN
    i < j /\ i <= PageSize /\ c # Human /\ d # Human /\ Same(c, d) => c.run = d.run

LEMMA CommentsOnce ==
  ReviewsInv /\ ListsOK /\ ListedAreKnown /\ OneComment /\ [Next]_vars => OneComment'
<1> SUFFICES ASSUME ReviewsInv, ListsOK, ListedAreKnown, OneComment, [Next]_vars
             PROVE  OneComment'
  OBVIOUS
<1>1. CASE createComment \/ PeopleReview
  <2>1. CASE UNCHANGED comments
    BY <2>1 DEF OneComment
  <2>2. CASE ~UNCHANGED comments
    <3> DEFINE n == Len(comments) + 1
               new == reportToGitHubComment(Head(todo))
    <3>1. /\ DOMAIN comments' = 1..n /\ DOMAIN comments = 1..Len(comments)
          /\ Len(comments) \in Nat
          /\ \A i \in DOMAIN comments : comments'[i] = comments[i]
          /\ \/ comments'[n] = Human
             \/ createComment /\ ~AlreadySaid(new) /\ comments'[n] = new
      BY <1>1, <2>2, CommentsGrow
    <3>2. new.run = runs
      BY DEF reportToGitHubComment, PintComment
    <3> HIDE DEF new
    <3> SUFFICES ASSUME NEW i \in DOMAIN comments', NEW j \in DOMAIN comments',
                        i < j, i <= PageSize, comments'[i] # Human, comments'[j] # Human,
                        Same(comments'[i], comments'[j])
                 PROVE  comments'[i].run = comments'[j].run
      BY DEF OneComment
    <3>3. i \in DOMAIN comments /\ (j \in DOMAIN comments \/ j = n)
      BY <3>1
    <3>4. CASE j \in DOMAIN comments
      BY <3>1, <3>3, <3>4 DEF OneComment
    <3>5. CASE j = n
      <4>1. createComment /\ ~AlreadySaid(new) /\ comments'[j] = new
        BY <3>1, <3>5
      <4>2. comments'[i] = comments[i] /\ Same(comments[i], new)
        BY <3>1, <3>3, <4>1
      <4>3. comments[i] \notin existing
        BY <4>1, <4>2 DEF AlreadySaid, Same
      <4>4. step = "comment"
        BY <4>1 DEF createComment
      <4>5. comments[i].run = runs
        BY <3>3, <4>2, <4>3, <4>4 DEF ListedAreKnown
      <4> QED BY <3>2, <4>1, <4>2, <4>5
    <3> QED BY <3>3, <3>4, <3>5
  <2> QED BY <2>1, <2>2
<1>2. CASE UNCHANGED comments
  BY <1>2 DEF OneComment
<1>3. createComment \/ PeopleReview \/ UNCHANGED comments
  <2>1. ASSUME NEW cmd, NEW S, NEW min, StartRun(cmd, S, min) PROVE UNCHANGED comments
    BY <2>1 DEF StartRun, remote
  <2>2. SubmitConsole => UNCHANGED comments
    BY DEF SubmitConsole, remote
  <2> QED BY <2>1, <2>2, NextCases, SmallStepsKeep
<1> QED BY <1>1, <1>2, <1>3

(* What the lists on GitHub hold, at every step of every run, whatever     *)
(* requests were lost and whatever people write meanwhile.                 *)
THEOREM CommentsInvariant == Spec => []CommentsInv
<1>1. ReviewsInv /\ CommentsInv /\ [Next]_vars => CommentsInv'
  <2>1. NothingSaidTwice <=> OneReview /\ OneComment
    BY DEF NothingSaidTwice, OneReview, OneComment, Same
  <2>2. NothingSaidTwice' <=> OneReview' /\ OneComment'
    BY DEF NothingSaidTwice, OneReview, OneComment, Same
  <2> QED
    BY <2>1, <2>2, ListsPreserved, ReviewPreserved, ListedPreserved, SoFarPreserved,
       ReviewsOnce, CommentsOnce DEF CommentsInv
<1> QED BY <1>1, CommentsInit, ReviewsInvariant, PTL DEF Spec

(* After a run that got through, every report of its summary has a comment *)
(* on the commit, and one of its own if pint had none there, for any       *)
(* summaries, any order of their reports and any failed runs before.       *)
THEOREM CommentsAreRepaired == Spec => []CommentsRepaired
<1>1. CommentsInv => CommentsRepaired
  <2> SUFFICES ASSUME CommentsInv, Submitted("github"), NEW r \in found
               PROVE  Repaired(r)
    BY DEF CommentsRepaired
  <2>1. todo = <<>> /\ (r \in Range(todo) \/ Repaired(r))
    BY DEF CommentsInv, CommentsSoFar, Submitted, WholeRun
  <2> QED BY <2>1 DEF Range
<1> QED BY <1>1, CommentsInvariant, PTL

(* No second review, and no comment repeated by another run, of those that *)
(* the first page of the listings shows: findExistingReview and            *)
(* addReviewComments find what runs whose replies were lost left behind.   *)
THEOREM NothingIsSaidTwice == Spec => []NothingSaidTwice
<1>1. CommentsInv => NothingSaidTwice
  BY DEF CommentsInv
<1> QED BY <1>1, CommentsInvariant, PTL
============================================================================
