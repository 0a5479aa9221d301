------------------------------ MODULE Learning ------------------------------
(***************************************************************************)
(* CoursesService and CertificatesService: the progress of one learner in  *)
(* one course.                                                             *)
(*                                                                         *)
(* Watching, passed quizzes and approved assignments complete lessons;     *)
(* every such request then recomputes the learner's progress and, at 100   *)
(* percent, issues a certificate.  A request is a chain of queries without *)
(* a transaction: those of two devices and of an instructor interleave     *)
(* between any two queries, and any query may fail and cut its request     *)
(* short.  What the learner may open next is in Curriculum.                *)
(***************************************************************************)
EXTENDS Course

CONSTANTS Request,      \* requests being served at the same time
          QuizLessons,  \* the lessons with a quiz
          MaxAttempts,  \* Quiz.maxAttempts; 0 is unlimited
          Full,         \* a lesson's progress is counted in 1/Full of it
          Reports,      \* progress values the players report
          MaxClock,     \* bound: instants told apart
          MaxManual,    \* bound: certificates issued by hand
          NoLesson

ASSUME LearningAssumption ==
    /\ IsFiniteSet(Request) /\ Request # {}
    /\ MaxAttempts \in Nat /\ MaxClock \in Nat /\ MaxManual \in Nat
    /\ Full \in Nat \ {0} /\ Reports \subseteq 0..Full
    /\ QuizLessons \subseteq Lessons \ Tasks
    /\ NoLesson \notin Lessons

Times == 0..MaxClock

VARIABLES completion,    \* LessonCompletion: progress and completedAt, per lesson
          enrolled,      \* there is an Enrollment row
          percent,       \* Enrollment.percentComplete
          certificates,  \* Certificate rows: earned by completion, issued by hand
          attempts,      \* QuizAttempt rows, per lesson with a quiz
          now,           \* the clock, in hours
          request,       \* what each request is doing
          peak,          \* history: the best progress ever saved, per lesson
          cut            \* history: a request failed before the first certificate

rows == <<completion, enrolled, percent, certificates, attempts, now, peak, cut>>
vars == <<rows, request>>

\* Mutant of Percent: lessons that were started count whole.
PercentStarted(progress) ==
    (100 * Cardinality({l \in Lessons : progress[l] > 0})) \div Cardinality(Lessons)

\* recomputeProgress: the watched share of the course, rounded, at most 100.
Percent(progress) ==
    LET sum == MapThenSumSet(LAMBDA l : progress[l], Lessons)
        whole == Cardinality(Lessons) * Full
    IN  IF whole = 0 THEN 0 ELSE Min({100, (200 * sum + whole) \div (2 * whole)})

\* What Enrollment.percentComplete can be.
Shares == {0} \cup {Percent(progress) : progress \in [Lessons -> 0..Full]}

Row == [progress : 0..Full, doneAt : Times \cup {Never}]
NoRow == [progress |-> 0, doneAt |-> Never]

Pcs == {"idle", "find", "save", "aggregate", "update", "lookup", "issue", "attempt"}

\* value: the progress to save, or Full for a passed quiz; seen: the row read before;
\* share: the new percent.
NoRequest == [pc |-> "idle", lesson |-> NoLesson, value |-> 0, seen |-> NoRow, share |-> 0]

Progressing == [pc : Pcs, lesson : Lessons \cup {NoLesson}, value : 0..Full,
                seen : Row, share : Shares]

TypeOK ==
    /\ completion \in [Lessons -> Row]
    /\ enrolled \in BOOLEAN
    /\ percent \in Shares
    /\ certificates \in [earned : Nat, manual : 0..MaxManual]
    /\ attempts \in [QuizLessons -> Nat]
    /\ now \in Times
    /\ request \in [Request -> Progressing]
    /\ peak \in [Lessons -> 0..Full]
    /\ cut \in BOOLEAN

Init ==
    /\ completion = [l \in Lessons |-> NoRow]
    /\ enrolled = FALSE
    /\ percent = 0
    /\ certificates = [earned |-> 0, manual |-> 0]
    /\ attempts = [l \in QuizLessons |-> 0]
    /\ now = 0
    /\ request = [r \in Request |-> NoRequest]
    /\ peak = [l \in Lessons |-> 0]
    /\ cut = FALSE

-----------------------------------------------------------------------------
Doing(r, pc) == request[r].pc = pc

\* Continue with the next query, keeping what was read.
Continue(r, pc) == request' = [request EXCEPT ![r].pc = pc]

Answer(r) == request' = [request EXCEPT ![r] = NoRequest]

\* The row is read now and written by a later query.
Save(r, l, value) ==
    request' = [request EXCEPT ![r] =
        [pc |-> "save", lesson |-> l, value |-> value, seen |-> completion[l], share |-> 0]]

\* The next query needs nothing that was read.
Go(r, pc, l, value) ==
    request' = [request EXCEPT ![r] =
        [pc |-> pc, lesson |-> l, value |-> value, seen |-> NoRow, share |-> 0]]

\* updateLessonProgress; from 95 percent on the lesson counts as watched.
Watch(r, l, p) ==
    /\ Doing(r, "idle")
    /\ Save(r, l, IF 100 * p >= 95 * Full THEN Full ELSE p)
    /\ UNCHANGED rows

\* markLessonComplete, asked by the learner or by a passed quiz or an approval.
MarkComplete(r) ==
    /\ \/ \E l \in Lessons : Doing(r, "idle") /\ Save(r, l, Full)
       \/ Doing(r, "find") /\ Save(r, request[r].lesson, Full)
    /\ UNCHANGED rows

\* Mutant of SavedRow: the last report wins.
LastRow(r) ==
    [progress |-> request[r].value,
     doneAt |-> IF request[r].value < Full THEN Never ELSE now]

\* Never below what was read, and the first completion keeps its time.
SavedRow(r) ==
    LET next == Max({request[r].seen.progress, request[r].value})
    IN  [progress |-> next,
         doneAt |-> IF next < Full THEN Never
                    ELSE IF request[r].seen.doneAt # Never THEN request[r].seen.doneAt ELSE now]

SaveCompletion(r) ==
    LET l == request[r].lesson IN
    /\ Doing(r, "save")
    /\ completion' = [completion EXCEPT ![l] = SavedRow(r)]
    /\ peak' = [peak EXCEPT ![l] = Max({@, SavedRow(r).progress})]
    /\ Continue(r, "aggregate")
    /\ UNCHANGED <<enrolled, percent, certificates, attempts, now, cut>>

\* Without an enrolment there is nothing to recompute.
Aggregate(r) ==
    /\ Doing(r, "aggregate")
    /\ IF ~enrolled THEN Answer(r)
       ELSE request' = [request EXCEPT ![r] =
               [pc |-> "update", lesson |-> NoLesson, value |-> 0, seen |-> NoRow,
                share |-> Percent([l \in Lessons |-> completion[l].progress])]]
    /\ UNCHANGED rows

\* Mutant of UpdateProgress: completing the course issues nothing.
UpdateProgressOnly(r) ==
    /\ Doing(r, "update")
    /\ percent' = request[r].share
    /\ Answer(r)
    /\ UNCHANGED <<completion, enrolled, certificates, attempts, now, peak, cut>>

\* updateProgress
UpdateProgress(r) ==
    /\ Doing(r, "update")
    /\ percent' = request[r].share
    /\ IF request[r].share >= 100 THEN Continue(r, "lookup") ELSE Answer(r)
    /\ UNCHANGED <<completion, enrolled, certificates, attempts, now, peak, cut>>

\* issueForUser: the learner asks for the certificate of a completed course.
AskForCertificate(r) ==
    /\ Doing(r, "idle")
    /\ enrolled /\ percent >= 100
    /\ Go(r, "lookup", NoLesson, 0)
    /\ UNCHANGED rows

\* Mutant of LookUpCertificate: an earlier certificate is not looked for.
LookUpNothing(r) ==
    /\ Doing(r, "lookup")
    /\ Continue(r, "issue")
    /\ UNCHANGED rows

\* ensureForCompletion returns the certificate there is.
LookUpCertificate(r) ==
    /\ Doing(r, "lookup")
    /\ IF certificates.earned + certificates.manual > 0 THEN Answer(r) ELSE Continue(r, "issue")
    /\ UNCHANGED rows

IssueCertificate(r) ==
    /\ Doing(r, "issue")
    /\ certificates' = [certificates EXCEPT !.earned = @ + 1]
    /\ cut' = FALSE
    /\ Answer(r)
    /\ UNCHANGED <<completion, enrolled, percent, attempts, now, peak>>

\* CoursesService.issueCertificate asks for nothing.
IssueByHand ==
    /\ certificates.manual < MaxManual
    /\ certificates' = [certificates EXCEPT !.manual = @ + 1]
    /\ cut' = FALSE
    /\ UNCHANGED <<completion, enrolled, percent, attempts, now, request, peak>>

-----------------------------------------------------------------------------
\* Mutant of CountAttempts: one attempt too many.
CountAttemptsLoosely(r, l, passed) ==
    /\ Doing(r, "idle")
    /\ MaxAttempts = 0 \/ attempts[l] <= MaxAttempts
    /\ Go(r, "attempt", l, IF passed THEN Full ELSE 0)
    /\ UNCHANGED rows

\* submitQuiz counts the attempts first and refuses one past the limit.
CountAttempts(r, l, passed) ==
    /\ Doing(r, "idle")
    /\ MaxAttempts = 0 \/ attempts[l] < MaxAttempts
    /\ Go(r, "attempt", l, IF passed THEN Full ELSE 0)
    /\ UNCHANGED rows

\* A passed quiz completes its lesson; any other only refreshes the progress.
RecordAttempt(r) ==
    /\ Doing(r, "attempt")
    /\ attempts' = [attempts EXCEPT ![request[r].lesson] = @ + 1]
    /\ Continue(r, IF request[r].value = Full THEN "find" ELSE "aggregate")
    /\ UNCHANGED <<completion, enrolled, percent, certificates, now, peak, cut>>

\* gradeSubmission: an approval completes the linked lesson.
Approve(r, t) ==
    /\ Doing(r, "idle")
    /\ Go(r, "find", t, Full)
    /\ UNCHANGED rows

\* enroll, grantAccess, grantOfferAccess: the upsert keeps the progress.
Enrol ==
    /\ enrolled' = TRUE
    /\ UNCHANGED <<completion, percent, certificates, attempts, now, request, peak, cut>>

\* A query fails: the request ends with an error, what it wrote stays.
Fail(r) ==
    /\ ~Doing(r, "idle")
    /\ cut' = (cut \/ (/\ request[r].pc \in {"lookup", "issue"}
                       /\ certificates.earned + certificates.manual = 0))
    /\ Answer(r)
    /\ UNCHANGED <<completion, enrolled, percent, certificates, attempts, now, peak>>

Tick ==
    /\ now < MaxClock
    /\ now' = now + 1
    /\ UNCHANGED <<completion, enrolled, percent, certificates, attempts, request,
                   peak, cut>>

Next ==
    \/ \E r \in Request :
          \/ \E l \in Lessons, p \in Reports : Watch(r, l, p)
          \/ \E l \in QuizLessons, passed \in BOOLEAN : CountAttempts(r, l, passed)
          \/ \E t \in Tasks : Approve(r, t)
          \/ MarkComplete(r) \/ SaveCompletion(r) \/ Aggregate(r) \/ UpdateProgress(r)
          \/ AskForCertificate(r) \/ LookUpCertificate(r) \/ IssueCertificate(r)
          \/ RecordAttempt(r) \/ Fail(r)
    \/ Enrol \/ IssueByHand \/ Tick

Spec == Init /\ [][Next]_vars

-----------------------------------------------------------------------------
\* ensureForCompletion finds before it creates and nothing makes the pair unique:
\* only requests that overlap can earn a second certificate, one each.
CertificatesWithinOverlap == certificates.earned <= Cardinality(Request)

\* submitQuiz counts before it creates: the limit is passed by at most one attempt
\* for every other request served at the same time.
AttemptsWithinOverlap ==
    MaxAttempts > 0 =>
        \A l \in QuizLessons : attempts[l] <= MaxAttempts - 1 + Cardinality(Request)

\* The progress bar never shows more than the learner's best work is worth, and a
\* certificate is only earned by work worth the whole course, up to rounding.
ProgressIsEarned ==
    LET best == MapThenSumSet(LAMBDA l : peak[l], Lessons)
        whole == Cardinality(Lessons) * Full
    IN  /\ 2 * percent * whole <= 200 * best + whole
        /\ certificates.earned > 0 => 200 * best >= 199 * whole

\* A course shown as completed has its certificate, or a request is about to issue
\* it, unless a query failed on the way (the learner can then ask for it).
CompletedIsCertified ==
    percent >= 100 => \/ certificates.earned + certificates.manual > 0
                      \/ \E r \in Request : request[r].pc \in {"lookup", "issue"}
                      \/ cut

\* A step that takes back a lesson's progress, or the time of its completion.
Undone(l) ==
    \/ completion'[l].progress < completion[l].progress
    \/ completion[l].doneAt \notin {Never, completion'[l].doneAt}

\* It comes only from a request that read the lesson before another one saved it.
UndoneByOverlap ==
    \A l \in Lessons : Undone(l) =>
        \E r \in Request : /\ Doing(r, "save") /\ request[r].lesson = l
                            /\ request[r].seen # completion[l]

\* "Progress only ever moves forward", "a drip countdown never restarts": a save
\* takes back progress, or the time of completion, only when it overlapped another.
ForwardUnlessOverlapped == [][UndoneByOverlap]_completion
=============================================================================
