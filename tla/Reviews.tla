------------------------------ MODULE Reviews ------------------------------
(***************************************************************************)
(* From a summary to the exit status: submitReports of cmd/pint, the       *)
(* console, BitBucket and GitHub reporters of internal/reporter, and the   *)
(* exits of actionCI and actionLint.                                       *)
(*                                                                         *)
(* pint keeps nothing between runs.  What it left on the servers is all    *)
(* the next run has: CI runs again on the same commit, or after a push,    *)
(* and may find other problems, since online checks depend on Prometheus.  *)
(* A request fails before it had its effect, or after it (a timeout).      *)
(* Reports of one summary are sets of records; the tables, wording and     *)
(* statistics of a report are left out.                                    *)
(***************************************************************************)
EXTENDS Integers, Sequences, SequencesExt, FiniteSets, FiniteSetsExt

CONSTANTS Summaries,   \* sets of reports a run can end with
          NumCommits,  \* bound: commits pushed to the branch
          MaxRuns,     \* bound: runs of pint
          MaxOthers,   \* bound: reviews and comments written by people
          PageSize     \* items on the first page of a GitHub listing

(* checks.Severity.                                                        *)
Information == 0
Warning == 1
Bug == 2
Fatal == 3
Severities == Information..Fatal

ASSUME ReviewsAssumption ==
    /\ NumCommits \in Nat \ {0}
    /\ MaxRuns \in Nat /\ MaxOthers \in Nat /\ PageSize \in Nat
    /\ \A S \in Summaries : IsFiniteSet(S) /\ \A r \in S :
         /\ r.sev \in Severities
         /\ \A L \in {r.lines, r.modified} :
              IsFiniteSet(L) /\ L # {} /\ L \subseteq Nat \ {0}

None == "none"
Human == [by |-> "human"]

VARIABLES
    head,      \* the commit pint runs on
    uses,      \* the repository reporters that are configured
    command,   \* the command of the last run
    step,      \* where that run is; "idle" when it has exited
    found,     \* its summary
    minimum,   \* minSeverity of its console reporter
    exit,      \* how it ended: "ok", "problems" (found), "error"
    printed,   \* reports on its console
    review,    \* findExistingReview: index in reviews, 0 for none
    existing,  \* the comments it listed
    todo,      \* reports it has still to comment on
    runs,      \* runs so far
    bbReport, bbNotes,  \* BitBucket: report and annotations of each commit
    reviews, comments   \* GitHub: of the pull request, oldest first

local == <<command, found, minimum, printed, review, existing, todo, runs>>
remote == <<bbReport, bbNotes, reviews, comments>>
vars == <<head, uses, step, exit, local, remote>>
----------------------------------------------------------------------------
(* reporter.go.                                                            *)

ShouldReport(r) == r.sev = Fatal \/ r.lines \cap r.modified # {}

CountBySeverity_All(S) == [s \in Severities |-> Cardinality({r \in S : r.sev = s})]

CountBySeverity(S) ==
    [s \in Severities |-> Cardinality({r \in S : r.sev = s /\ ShouldReport(r)})]

HasFatalProblems(S) == \E r \in S : r.sev = Fatal

(* The order in which the console reporter leaves the shared slice.        *)
Before(q, r) ==
    LET key(x) == <<x.source, Min(x.lines), x.reporter, x.text>>
        k == key(q)  l == key(r)
    IN \E i \in 1..4 : k[i] < l[i] /\ \A j \in 1..(i - 1) : k[j] = l[j]

(* sort.Slice is not stable: reports that are equal to it end in any order. *)
InOrder(S) ==
    {q \in [1..Cardinality(S) -> S] :
        Range(q) = S /\ \A i, j \in DOMAIN q : i < j => ~Before(q[j], q[i])}
----------------------------------------------------------------------------
(* bitbucket.go: where an annotation goes, <<reported, original>>.         *)
moveReportedLine(r) ==
    LET both == r.lines \cap r.modified IN
    IF both # {} THEN <<Max(both), Max(both)>>
    ELSE <<IF r.sev = Fatal THEN Min(r.modified) ELSE -1, Min(r.lines)>>

makeAnnotation(r) ==
    LET at == moveReportedLine(r) IN
    [path |-> r.path, line |-> at[1], moved |-> at[1] # at[2],
     source |-> r.source, reporter |-> r.reporter, text |-> r.text,
     type |-> IF r.sev >= Bug THEN "BUG" ELSE "CODE_SMELL"]

Annotations(S) == {makeAnnotation(r) : r \in {q \in S : ShouldReport(q)}}

Result(notes) == IF \E a \in notes : a.type = "BUG" THEN "FAIL" ELSE "PASS"

(* github.go: a comment, and the body of the review.                       *)
PintComment(r, commit, run) ==
    [by |-> "pint", commit |-> commit, path |-> r.path,
     body |-> <<r.reporter, r.text>>, line |-> Max(r.modified), run |-> run]
reportToGitHubComment(r) == PintComment(r, head, runs)

formatGHReviewBody(S) == [counts |-> CountBySeverity(S), total |-> Cardinality(S)]

FirstPage(s) == SubSeq(s, 1, IF Len(s) < PageSize THEN Len(s) ELSE PageSize)
----------------------------------------------------------------------------
(* actionCI and actionLint.                                                *)

FoundBugOrHigher(S, min) ==
    \E s \in Severities : s >= Bug /\ s >= min /\ CountBySeverity(S)[s] > 0

Init ==
    /\ head = 1 /\ uses \in SUBSET {"bitbucket", "github"}
    /\ step = "idle" /\ exit = None
    /\ command = None /\ found = {} /\ minimum = Information /\ printed = {}
    /\ review = 0 /\ existing = {} /\ todo = <<>> /\ runs = 0
    /\ bbReport = [c \in 1..NumCommits |-> None]
    /\ bbNotes = [c \in 1..NumCommits |-> {}]
    /\ reviews = <<>> /\ comments = <<>>

Goto(s) == step' = s /\ UNCHANGED exit
Abort == step' = "idle" /\ exit' = "error"

(* The reply arrives, or pint gives up on it.                              *)
Answered(next) == Goto(next) \/ Abort

AfterBitBucket == IF "github" \in uses THEN "reviews" ELSE "exit"

(* A CI run whose environment lacks a token ends before it reports at all. *)
StartRun(cmd, S, min) ==
    /\ step = "idle"
    /\ runs < MaxRuns
    /\ command' = cmd /\ found' = S /\ minimum' = min /\ runs' = runs + 1
    /\ printed' = {} /\ review' = 0 /\ existing' = {} /\ todo' = <<>>
    /\ \/ step' = "console" /\ exit' = None
       \/ cmd = "ci" /\ uses # {} /\ Abort
    /\ UNCHANGED <<head, uses, remote>>

(* Everything is printed at the end, so nothing if a file cannot be read.  *)
SubmitConsole ==
    LET shown == {r \in found : r.sev >= minimum /\ ShouldReport(r)} IN
    /\ step = "console"
    /\ \/ /\ printed' = shown
          /\ Goto(CASE command = "lint" -> "exit"
                    [] "bitbucket" \in uses -> "blame"
                    [] OTHER -> AfterBitBucket)
       \/ shown # {} /\ Abort /\ UNCHANGED printed
    /\ todo' \in InOrder(found)
    /\ UNCHANGED <<head, uses, command, found, minimum, review, existing, runs, remote>>

(* HeadCommit and blameReports only read the repository.                   *)
Blame ==
    /\ step = "blame"
    /\ Answered("put")
    /\ UNCHANGED <<head, uses, local, remote>>

PutReport ==
    /\ step = "put"
    /\ \/ /\ bbReport' = [bbReport EXCEPT ![head] = Result(Annotations(found))]
          /\ Answered("delete")
       \/ Abort /\ UNCHANGED bbReport
    /\ UNCHANGED <<head, uses, local, bbNotes, reviews, comments>>

(* postReport has returned nil: a fatal problem still fails the reporter.  *)
BitBucketDone ==
    IF HasFatalProblems(found) THEN Abort ELSE Answered(AfterBitBucket)

DeleteAnnotations_IfAny ==
    /\ step = "delete"
    /\ IF Annotations(found) = {} THEN BitBucketDone /\ UNCHANGED bbNotes
       ELSE bbNotes' = [bbNotes EXCEPT ![head] = {}] /\ Answered("post")
    /\ UNCHANGED <<head, uses, local, bbReport, reviews, comments>>

DeleteAnnotations ==
    /\ step = "delete"
    /\ \/ /\ bbNotes' = [bbNotes EXCEPT ![head] = {}]
          /\ IF Annotations(found) = {} THEN BitBucketDone ELSE Answered("post")
       \/ Abort /\ UNCHANGED bbNotes
    /\ UNCHANGED <<head, uses, local, bbReport, reviews, comments>>

CreateAnnotations ==
    /\ step = "post"
    /\ \/ /\ bbNotes' = [bbNotes EXCEPT ![head] = @ \cup Annotations(found)]
          /\ BitBucketDone
       \/ Abort /\ UNCHANGED bbNotes
    /\ UNCHANGED <<head, uses, local, bbReport, reviews, comments>>

IsPintReview(v) == v.by = "pint"

(* The first review on the first page that pint wrote.                     *)
findExistingReview_Newest ==
    LET page == FirstPage(reviews) IN
    /\ step = "reviews"
    /\ \/ /\ review' = IF page # <<>> /\ IsPintReview(Last(page)) THEN Len(page) ELSE 0
          /\ Goto("review")
       \/ Abort /\ UNCHANGED review
    /\ UNCHANGED <<head, uses, command, found, minimum, printed, existing, todo, runs, remote>>

findExistingReview ==
    LET own == {i \in DOMAIN FirstPage(reviews) : IsPintReview(reviews[i])} IN
    /\ step = "reviews"
    /\ \/ review' = (IF own = {} THEN 0 ELSE Min(own)) /\ Goto("review")
       \/ Abort /\ UNCHANGED review
    /\ UNCHANGED <<head, uses, command, found, minimum, printed, existing, todo, runs, remote>>

(* updateReview or createReview.                                           *)
WriteReview ==
    LET v == [by |-> "pint", body |-> formatGHReviewBody(found)] IN
    /\ step = "review"
    /\ \/ /\ reviews' = IF review = 0 THEN Append(reviews, v)
                        ELSE [reviews EXCEPT ![review] = v]
          /\ Answered("comments")
       \/ Abort /\ UNCHANGED reviews
    /\ UNCHANGED <<head, uses, local, bbReport, bbNotes, comments>>

getReviewComments ==
    /\ step = "comments"
    /\ \/ existing' = Range(FirstPage(comments)) \ {Human} /\ Goto("comment")
       \/ Abort /\ UNCHANGED existing
    /\ UNCHANGED <<head, uses, command, found, minimum, printed, review, todo, runs, remote>>

(* addReviewComments skips what one of the listed comments says.           *)
AlreadySaid_AnyCommit(c) == \E e \in existing : e.body = c.body

AlreadySaid(c) == \E e \in existing : e.body = c.body /\ e.commit = c.commit

createComment ==
    LET c == reportToGitHubComment(Head(todo)) IN
    /\ step = "comment"
    /\ todo # <<>>
    /\ \/ /\ AlreadySaid(c)
          /\ todo' = Tail(todo) /\ Goto("comment") /\ UNCHANGED comments
       \/ /\ ~AlreadySaid(c)
          /\ \/ /\ comments' = Append(comments, c)
                /\ todo' = Tail(todo)
                /\ Answered("comment")
             \/ Abort /\ UNCHANGED <<todo, comments>>
    /\ UNCHANGED <<head, uses, command, found, minimum, printed, review, existing,
                   runs, bbReport, bbNotes, reviews>>

Exit ==
    /\ step = "exit" \/ (step = "comment" /\ todo = <<>>)
    /\ step' = "idle"
    /\ exit' = IF FoundBugOrHigher(found, minimum) THEN "problems" ELSE "ok"
    /\ UNCHANGED <<head, uses, local, remote>>

(* Somebody pushes.  (A run already going is not told.)                    *)
Push ==
    /\ step = "idle"
    /\ head < NumCommits
    /\ head' = head + 1
    /\ exit' = None
    /\ UNCHANGED <<uses, step, local, remote>>

(* People review the same pull request, at any time.                       *)
PeopleReview ==
    /\ Cardinality({i \in DOMAIN reviews : reviews[i] = Human}) < MaxOthers
    /\ reviews' = Append(reviews, Human)
    /\ comments' = Append(comments, Human)
    /\ UNCHANGED <<head, uses, step, exit, local, bbReport, bbNotes>>

Done ==
    /\ step = "idle" /\ runs = MaxRuns /\ head = NumCommits
    /\ UNCHANGED vars

Next ==
    \/ \E S \in Summaries :
         \/ StartRun("ci", S, Information)
         \/ \E min \in Severities : StartRun("lint", S, min)
    \/ SubmitConsole
    \/ Blame \/ PutReport \/ DeleteAnnotations \/ CreateAnnotations
    \/ findExistingReview \/ WriteReview \/ getReviewComments \/ createComment
    \/ Exit \/ Push \/ PeopleReview \/ Done

Spec == Init /\ [][Next]_vars
----------------------------------------------------------------------------
(* A CI run that got through all of its reporters.                         *)
Submitted(r) == command = "ci" /\ r \in uses /\ exit \in {"ok", "problems"}

(* Whatever earlier runs left behind, half done or for other problems,     *)
(* after a run that got through, BitBucket has the report of this run's    *)
(* summary and exactly its annotations; a failed report has some           *)
(* (postReport's PUT, DELETE and POST; moveReportedLine's promise).        *)
BitBucketRepaired ==
    Submitted("bitbucket") =>
        /\ bbNotes[head] = Annotations(found)
        /\ bbReport[head] = Result(bbNotes[head])
        /\ \A a \in bbNotes[head] : a.line > 0

(* After a run that got through, the text of each of its reports is in a   *)
(* comment on this commit; if pint had no comment there yet, each report   *)
(* has one at its own place (addReviewComments after lost requests).       *)
CommentsOn(r) ==
    {c \in Range(comments) \ {Human} :
        c.commit = head /\ c.body = reportToGitHubComment(r).body}
Repaired(r) ==
    LET wanted == reportToGitHubComment(r) IN
    /\ CommentsOn(r) # {}
    /\ (\A e \in existing : e.commit # head)
       => \E c \in CommentsOn(r) : c.path = wanted.path /\ c.line = wanted.line
CommentsRepaired == Submitted("github") => \A r \in found : Repaired(r)

(* A later run never says again what the first page of the listing shows,  *)
(* even if the reply to the request that created it was lost: no second    *)
(* review, no comment repeated by another run.                             *)
NothingSaidTwice ==
    /\ \A i, j \in DOMAIN reviews :
         i < j /\ i <= PageSize => ~(IsPintReview(reviews[i]) /\ IsPintReview(reviews[j]))
    /\ \A i, j \in DOMAIN comments :
         LET c == comments[i]  d == comments[j] IN
         i < j /\ i <= PageSize /\ c # Human /\ d # Human
            /\ (\A f \in {"commit", "path", "line", "body"} : c[f] = d[f])
         => c.run = d.run

(* The exit status, the console, the BitBucket report and the GitHub       *)
(* review are computed from the summary in four ways and must tell the     *)
(* same story (CountBySeverity, shouldReport, makeAnnotation).             *)
VerdictsAgree ==
    exit \in {"ok", "problems"} =>
        /\ (exit = "problems") <=> (\E r \in printed : r.sev >= Bug)
        /\ Submitted("bitbucket") => (bbReport[head] = "FAIL" <=> exit = "problems")
        /\ Submitted("github") =>
             \E v \in Range(reviews) \ {Human} : v.body = formatGHReviewBody(found)

(* Contradicted by the code (README, section 5).  docs/index.md: "each     *)
(* issue will appear as a comment on your pull request".                   *)
EveryIssueCommented ==
    Submitted("github") => \A r \in found : ShouldReport(r) =>
        \E c \in Range(comments) \ {Human} :
            /\ c.commit = head /\ c.path = r.path
            /\ c.line = Max(r.modified) /\ c.body = <<r.reporter, r.text>>
----------------------------------------------------------------------------
(* The inductive invariant of ReviewsProofs.                               *)
PintReview(S) == [by |-> "pint", body |-> formatGHReviewBody(S)]
WholeRun == exit \in {"ok", "problems"}

(* The types of what the other parts speak of.                             *)
TypeOK ==
    /\ head \in 1..NumCommits
    /\ found \in Summaries \cup {{}}
    /\ minimum \in Severities
    /\ review \in 0..Len(reviews)
    /\ bbReport \in [1..NumCommits -> {None, "PASS", "FAIL"}]
    /\ bbNotes \in [1..NumCommits -> SUBSET UNION {Annotations(S) : S \in Summaries}]
    /\ reviews \in Seq({Human} \cup {PintReview(S) : S \in Summaries \cup {{}}})

(* What each request of a run of ci has already repaired, step by step.    *)
BitBucketSoFar ==
    LET past == step \in {"reviews", "review", "comments", "comment", "exit"} \/ WholeRun IN
    command = "ci" /\ "bitbucket" \in uses =>
        /\ step \in {"delete", "post"} \/ past => bbReport[head] = Result(Annotations(found))
        /\ step = "post" => bbNotes[head] = {}
        /\ past => bbNotes[head] = Annotations(found)

GitHubSoFar ==
    command = "ci" /\ "github" \in uses =>
        /\ step # "exit"
        /\ step \in {"comments", "comment"} \/ WholeRun =>
             \E i \in DOMAIN reviews : reviews[i] = PintReview(found)

(* The console comes first, and the exit status last.                      *)
ConsoleSoFar ==
    /\ command = "ci" => minimum = Information
    /\ step \notin {"idle", "console"} \/ WholeRun =>
         printed = {r \in found : r.sev >= minimum /\ ShouldReport(r)}

ExitComesLast ==
    /\ step # "idle" => exit = None
    /\ WholeRun => (exit = "problems" <=> FoundBugOrHigher(found, minimum))

ReviewsInv == TypeOK /\ BitBucketSoFar /\ GitHubSoFar /\ ConsoleSoFar /\ ExitComesLast

(* The second invariant of ReviewsProofs: what the lists on GitHub hold.   *)
ListsOK ==
    /\ comments \in Seq({Human} \cup
         {PintComment(r, c, n) : r \in UNION Summaries, c \in 1..NumCommits, n \in 0..MaxRuns})
    /\ todo \in Seq(found) /\ runs \in 0..MaxRuns

(* The review to update is pint's, and one is created only if the first    *)
(* page had none; people may have added to it since.                       *)
ReviewIsPints ==
    step = "review" =>
        /\ review # 0 => IsPintReview(reviews[review])
        /\ review = 0 => \A i \in DOMAIN reviews : i <= PageSize => ~IsPintReview(reviews[i])

(* A comment on the first page is listed, or of this run.                  *)
ListedAreKnown ==
    step = "comment" =>
        /\ existing \subseteq Range(comments) \ {Human}
        /\ \A i \in DOMAIN comments :
             i <= PageSize /\ comments[i] # Human /\ comments[i].run # runs
             => comments[i] \in existing

(* A report is still to be commented on, or has its comment.               *)
CommentsSoFar ==
    /\ step \notin {"idle", "console", "comment"} => Range(todo) = found
    /\ step = "comment" \/ WholeRun => \A r \in found : r \in Range(todo) \/ Repaired(r)
    /\ Submitted("github") => todo = <<>>

CommentsInv == ListsOK /\ ReviewIsPints /\ ListedAreKnown /\ CommentsSoFar /\ NothingSaidTwice
============================================================================
