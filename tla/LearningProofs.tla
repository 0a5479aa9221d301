--------------------------- MODULE LearningProofs ---------------------------
(***************************************************************************)
(* Learning for any number of lessons and of requests at once.             *)
(*                                                                         *)
(* Each bound counts, next to the rows, the requests past their check: a   *)
(* check that passes sees few rows, and whoever passed it before is one of *)
(* the requests.  That progress moves forward needs that a completed       *)
(* lesson is watched in full.  That progress is earned needs the sum over  *)
(* the lessons to grow with each of them.  The locks that the lessons are  *)
(* under (Curriculum) come last.                                           *)
(***************************************************************************)
EXTENDS Learning, Curriculum, FiniteSetTheorems, WellFoundedInduction, TLAPS

\* A request that is about to look a lesson up has one, and an attempt is at a quiz.
RequestsFit ==
    \A r \in Request : /\ request[r].pc = "find" => request[r].lesson \in Lessons
                       /\ request[r].pc = "attempt" => request[r].lesson \in QuizLessons

\* A lesson that was completed was watched in full.
DoneIsFull ==
    \A l \in Lessons : completion[l].doneAt # Never => completion[l].progress = Full

Issuing == {r \in Request : request[r].pc = "issue"}
Attempting(l) == {r \in Request : request[r].pc = "attempt" /\ request[r].lesson = l}

CertificatesCounted ==
    certificates.earned + Cardinality(Issuing) <= Cardinality(Request)

AttemptsCounted ==
    MaxAttempts > 0 =>
        \A l \in QuizLessons :
            attempts[l] + Cardinality(Attempting(l)) <= MaxAttempts - 1 + Cardinality(Request)

LearningInv ==
    /\ TypeOK
    /\ RequestsFit
    /\ DoneIsFull
    /\ CertificatesCounted
    /\ AttemptsCounted
    /\ CompletedIsCertified

-----------------------------------------------------------------------------
\* Requests can be counted, and no set of them outnumbers all.
LEMMA RequestsAreCounted ==
    ASSUME NEW S \in SUBSET Request, NEW T \in SUBSET S
    PROVE  /\ IsFiniteSet(S)
           /\ Cardinality(S) \in Nat /\ Cardinality(T) \in Nat
           /\ Cardinality(Request) \in Nat
           /\ Cardinality(T) <= Cardinality(S)
           /\ Cardinality(S) <= Cardinality(Request)
  <1>1. IsFiniteSet(S) /\ Cardinality(S) <= Cardinality(Request)
    BY LearningAssumption, FS_Subset
  <1>2. IsFiniteSet(T) /\ Cardinality(T) <= Cardinality(S)
    BY <1>1, FS_Subset
  <1> QED
    BY <1>1, <1>2, LearningAssumption, FS_CardinalityType

\* A request that moves on from a set of requests leaves one less in it.
LEMMA OneLess ==
    ASSUME NEW S \in SUBSET Request, NEW r \in S, NEW T \in SUBSET (S \ {r})
    PROVE  Cardinality(T) <= Cardinality(S) - 1
  <1>1. IsFiniteSet(S)
    BY RequestsAreCounted
  <1>2. IsFiniteSet(S \ {r}) /\ Cardinality(S \ {r}) = Cardinality(S) - 1
    BY <1>1, FS_RemoveElement
  <1> QED
    BY <1>2, FS_Subset

\* The larger of two numbers.
LEMMA MaxOfTwo ==
    ASSUME NEW a \in Int, NEW b \in Int
    PROVE  Max({a, b}) = IF a >= b THEN a ELSE b
  BY DEF Max

-----------------------------------------------------------------------------
\* Nothing was watched at first, and nothing is being served.
LEMMA LearningInitInv == Init => LearningInv
  <1> SUFFICES ASSUME Init PROVE LearningInv
    OBVIOUS
  <1>1. NoRow \in Row
    BY LearningAssumption DEF NoRow, Row, Times
  <1>2. NoRequest \in Progressing
    BY <1>1, LearningAssumption DEF NoRequest, Progressing, Pcs, Shares
  <1>3. TypeOK
    <2>1. now \in Times /\ percent \in Shares /\ certificates \in [earned : Nat, manual : 0..MaxManual]
      BY LearningAssumption DEF Init, Shares, Times
    <2>2. peak \in [Lessons -> 0..Full]
      BY LearningAssumption DEF Init
    <2> QED
      BY <1>1, <1>2, <2>1, <2>2 DEF Init, TypeOK
  <1>4. RequestsFit /\ DoneIsFull
    BY DEF Init, RequestsFit, DoneIsFull, NoRequest, NoRow
  <1>5. Issuing = {} /\ \A l \in QuizLessons : Attempting(l) = {}
    BY DEF Init, Issuing, Attempting, NoRequest
  <1>6. Cardinality({}) = 0 /\ Cardinality(Request) >= 1
    <2>1. Cardinality(Request) \in Nat /\ Cardinality(Request) # 0
      BY LearningAssumption, FS_EmptySet, FS_CardinalityType
    <2> QED
      BY <2>1, FS_EmptySet
  <1>7. CertificatesCounted
    BY <1>5, <1>6, LearningAssumption, FS_CardinalityType DEF Init, CertificatesCounted
  <1>8. AttemptsCounted
    <2> SUFFICES ASSUME MaxAttempts > 0, NEW l \in QuizLessons
                 PROVE  attempts[l] + Cardinality(Attempting(l))
                            <= MaxAttempts - 1 + Cardinality(Request)
      BY DEF AttemptsCounted
    <2>1. attempts[l] = 0
      BY DEF Init
    <2>2. Cardinality(Attempting(l)) = 0
      BY <1>5, <1>6
    <2> QED
      BY <1>6, <2>1, <2>2, LearningAssumption, FS_CardinalityType
  <1>9. CompletedIsCertified
    BY DEF Init, CompletedIsCertified
  <1> QED
    BY <1>3, <1>4, <1>7, <1>8, <1>9 DEF LearningInv

-----------------------------------------------------------------------------
\* The next-state relation, one disjunct for each action.
LEMMA LearningSteps ==
    ASSUME Next
    PROVE  \/ \E r \in Request, l \in Lessons, p \in Reports : Watch(r, l, p)
           \/ \E r \in Request, l \in QuizLessons, passed \in BOOLEAN : CountAttempts(r, l, passed)
           \/ \E r \in Request, t \in Tasks : Approve(r, t)
           \/ \E r \in Request : MarkComplete(r)
           \/ \E r \in Request : SaveCompletion(r)
           \/ \E r \in Request : Aggregate(r)
           \/ \E r \in Request : UpdateProgress(r)
           \/ \E r \in Request : AskForCertificate(r)
           \/ \E r \in Request : LookUpCertificate(r)
           \/ \E r \in Request : IssueCertificate(r)
           \/ \E r \in Request : RecordAttempt(r)
           \/ \E r \in Request : Fail(r)
           \/ Enrol
           \/ IssueByHand
           \/ Tick
  BY DEF Next

\* Only the request that takes a step changes.
Others(r) ==
    /\ request' \in [Request -> Progressing]
    /\ \A g \in Request : g # r => request'[g] = request[g]

\* The request goes on with the lesson it has.
LEMMA Continued ==
    ASSUME TypeOK, NEW r \in Request, NEW pc \in Pcs, Continue(r, pc)
    PROVE  /\ Others(r)
           /\ request'[r].pc = pc
           /\ request'[r].lesson = request[r].lesson
  BY DEF TypeOK, Progressing, Continue, Others

\* The request is answered and gone.
LEMMA Answered ==
    ASSUME TypeOK, NEW r \in Request, Answer(r)
    PROVE  Others(r) /\ request'[r].pc = "idle"
  <1>1. NoRow \in Row /\ 0 \in 0..Full
    BY LearningAssumption DEF NoRow, Row, Times
  <1>2. NoRequest \in Progressing
    BY <1>1 DEF NoRequest, Progressing, Pcs, Shares
  <1> QED
    BY <1>2 DEF TypeOK, Answer, Others, NoRequest

\* The request goes on with what is given.
LEMMA Gone ==
    ASSUME TypeOK, NEW r \in Request, NEW pc \in Pcs, NEW l \in Lessons \cup {NoLesson},
           NEW value \in 0..Full, Go(r, pc, l, value)
    PROVE  Others(r) /\ request'[r].pc = pc /\ request'[r].lesson = l
  <1>1. NoRow \in Row
    BY LearningAssumption DEF NoRow, Row, Times
  <1>2. [pc |-> pc, lesson |-> l, value |-> value, seen |-> NoRow, share |-> 0] \in Progressing
    BY <1>1 DEF Progressing, Shares
  <1> QED
    BY <1>2 DEF TypeOK, Go, Others

\* The request has read a row, and goes on to save it.
LEMMA Saving ==
    ASSUME TypeOK, NEW r \in Request, NEW l \in Lessons, NEW value \in 0..Full, Save(r, l, value)
    PROVE  Others(r) /\ request'[r].pc = "save"
  <1>1. completion[l] \in Row
    BY DEF TypeOK
  <1>2. [pc |-> "save", lesson |-> l, value |-> value, seen |-> completion[l], share |-> 0]
            \in Progressing
    BY <1>1 DEF Progressing, Shares, Pcs
  <1> QED
    BY <1>2 DEF TypeOK, Save, Others

\* Where nobody passes the check, the certificates and their issuers do not grow.
LEMMA CertificatesKept ==
    ASSUME LearningInv, certificates' = certificates, Issuing' \subseteq Issuing
    PROVE  CertificatesCounted'
  <1>1. Issuing' \in SUBSET Issuing /\ Issuing \in SUBSET Request
    BY DEF Issuing
  <1>2. Cardinality(Issuing') <= Cardinality(Issuing)
        /\ Cardinality(Issuing') \in Nat /\ Cardinality(Issuing) \in Nat
    BY <1>1, RequestsAreCounted
  <1>3. Cardinality(Request) \in Nat /\ certificates.earned \in Nat
    BY LearningAssumption, FS_CardinalityType DEF LearningInv, TypeOK
  <1> QED
    BY <1>2, <1>3 DEF LearningInv, CertificatesCounted

\* Without a new attempt, and with no more requests about to make one, the count holds.
LEMMA AttemptsKept ==
    ASSUME LearningInv, attempts' = attempts,
           \A l \in QuizLessons : Attempting(l)' \subseteq Attempting(l)
    PROVE  AttemptsCounted'
  <1> SUFFICES ASSUME MaxAttempts > 0, NEW l \in QuizLessons
               PROVE  attempts[l] + Cardinality(Attempting(l)')
                          <= MaxAttempts - 1 + Cardinality(Request)
    BY DEF AttemptsCounted
  <1>1. Attempting(l)' \in SUBSET Attempting(l) /\ Attempting(l) \in SUBSET Request
    BY DEF Attempting
  <1>2. Cardinality(Attempting(l)') <= Cardinality(Attempting(l))
        /\ Cardinality(Attempting(l)') \in Nat /\ Cardinality(Attempting(l)) \in Nat
    BY <1>1, RequestsAreCounted
  <1>3. attempts[l] \in Nat /\ Cardinality(Request) \in Nat
    BY LearningAssumption, FS_CardinalityType DEF LearningInv, TypeOK
  <1>4. attempts[l] + Cardinality(Attempting(l)) <= MaxAttempts - 1 + Cardinality(Request)
    BY DEF LearningInv, AttemptsCounted
  <1> QED
    BY <1>2, <1>3, <1>4, LearningAssumption

\* A step that lets no request past a check keeps both counts.
LEMMA CountsKept ==
    ASSUME LearningInv, NEW r \in Request, Others(r),
           request'[r].pc \notin {"issue", "attempt"},
           UNCHANGED <<certificates, attempts>>
    PROVE  CertificatesCounted' /\ AttemptsCounted'
  <1>1. Issuing' \subseteq Issuing
    BY DEF Issuing, Others
  <1>2. \A l \in QuizLessons : Attempting(l)' \subseteq Attempting(l)
    BY DEF Attempting, Others
  <1> QED
    BY <1>1, <1>2, CertificatesKept, AttemptsKept

\* A step of a request that is not about a certificate, and passes no check.
LEMMA QuietStep ==
    ASSUME LearningInv, NEW r \in Request, Others(r),
           request[r].pc \notin {"lookup", "issue"},
           request'[r].pc \notin {"issue", "attempt"},
           request'[r].pc = "find" => request'[r].lesson \in Lessons,
           UNCHANGED <<completion, enrolled, percent, certificates, attempts, now, peak, cut>>
    PROVE  LearningInv'
  <1>1. TypeOK'
    BY DEF LearningInv, TypeOK, Others
  <1>2. RequestsFit' /\ DoneIsFull'
    BY DEF LearningInv, RequestsFit, DoneIsFull, Others
  <1>3. CompletedIsCertified'
    BY DEF LearningInv, CompletedIsCertified, Others
  <1> QED
    BY <1>1, <1>2, <1>3, CountsKept DEF LearningInv

-----------------------------------------------------------------------------
\* What a save writes, whatever was read.
LEMMA SavedRowFits ==
    ASSUME TypeOK, NEW r \in Request
    PROVE  /\ SavedRow(r) \in Row
           /\ SavedRow(r).doneAt # Never => SavedRow(r).progress = Full
           /\ SavedRow(r).progress >= request[r].seen.progress
           /\ (/\ request[r].seen.doneAt # Never
               /\ request[r].seen.progress = Full) => SavedRow(r).doneAt = request[r].seen.doneAt
  <1> DEFINE seen == request[r].seen
             value == request[r].value
             next == Max({seen.progress, value})
  <1>1. seen \in Row /\ value \in 0..Full
    BY DEF TypeOK, Progressing
  <1>2. seen.progress \in 0..Full /\ seen.doneAt \in Times \cup {Never}
    BY <1>1 DEF Row
  <1>3. next = IF seen.progress >= value THEN seen.progress ELSE value
    BY <1>1, <1>2, MaxOfTwo, LearningAssumption
  <1>4. next \in 0..Full /\ next >= seen.progress
    BY <1>1, <1>2, <1>3, LearningAssumption
  <1>5. now \in Times /\ now # Never
    BY LearningAssumption DEF TypeOK, Times, Never
  <1>6. SavedRow(r) = [progress |-> next,
                       doneAt |-> IF next < Full THEN Never
                                  ELSE IF seen.doneAt # Never THEN seen.doneAt ELSE now]
    BY DEF SavedRow
  <1> HIDE DEF seen, value, next
  <1>7. next < Full \/ next = Full
    BY <1>4, LearningAssumption
  <1>8. seen.progress = Full => next = Full
    BY <1>2, <1>4, LearningAssumption
  <1>9. SavedRow(r).progress = next
        /\ SavedRow(r).doneAt = IF next < Full THEN Never
                                ELSE IF seen.doneAt # Never THEN seen.doneAt ELSE now
    BY <1>6
  <1>10. SavedRow(r).doneAt \in Times \cup {Never}
    BY <1>2, <1>5, <1>9
  <1>11. SavedRow(r) \in Row
    BY <1>4, <1>6, <1>9, <1>10 DEF Row
  <1>12. SavedRow(r).doneAt # Never => SavedRow(r).progress = Full
    BY <1>7, <1>9
  <1>13. (seen.doneAt # Never /\ seen.progress = Full) => SavedRow(r).doneAt = seen.doneAt
    BY <1>8, <1>9, LearningAssumption
  <1> QED
    BY <1>4, <1>9, <1>11, <1>12, <1>13 DEF seen

\* The row is saved, in full when it is completed.
LEMMA SaveCompletionStep ==
    ASSUME LearningInv, NEW r \in Request, SaveCompletion(r)
    PROVE  LearningInv'
  <1>1. Others(r) /\ request'[r].pc = "aggregate"
    BY Continued DEF SaveCompletion, LearningInv, Pcs
  <1>2. SavedRow(r) \in Row /\ (SavedRow(r).doneAt # Never => SavedRow(r).progress = Full)
    BY SavedRowFits DEF LearningInv
  <1>3. completion' = [completion EXCEPT ![request[r].lesson] = SavedRow(r)]
        /\ UNCHANGED <<enrolled, percent, certificates, attempts, now, cut>>
    BY DEF SaveCompletion
  <1>4. completion' \in [Lessons -> Row]
    BY <1>2, <1>3 DEF LearningInv, TypeOK
  <1>5. peak' \in [Lessons -> 0..Full]
    <2>1. ASSUME NEW l \in Lessons
          PROVE  Max({peak[l], SavedRow(r).progress}) \in 0..Full
      <3>1. peak[l] \in 0..Full /\ SavedRow(r).progress \in 0..Full
        BY <1>2 DEF LearningInv, TypeOK, Row
      <3> QED
        BY <3>1, MaxOfTwo, LearningAssumption
    <2>2. peak' = [peak EXCEPT ![request[r].lesson] = Max({@, SavedRow(r).progress})]
      BY DEF SaveCompletion
    <2> QED
      BY <2>1, <2>2 DEF LearningInv, TypeOK
  <1>6. TypeOK'
    BY <1>1, <1>3, <1>4, <1>5 DEF LearningInv, TypeOK, Others
  <1>7. RequestsFit'
    BY <1>1 DEF LearningInv, RequestsFit, Others
  <1>8. DoneIsFull'
    BY <1>2, <1>3 DEF LearningInv, TypeOK, DoneIsFull
  <1>9. CertificatesCounted' /\ AttemptsCounted'
    BY <1>1, <1>3, CountsKept
  <1>10. CompletedIsCertified'
    BY <1>1, <1>3 DEF LearningInv, CompletedIsCertified, Others, SaveCompletion, Doing
  <1> QED
    BY <1>6, <1>7, <1>8, <1>9, <1>10 DEF LearningInv

\* The percentage is written; at 100 the request goes on to the certificate.
LEMMA UpdateProgressStep ==
    ASSUME LearningInv, NEW r \in Request, UpdateProgress(r)
    PROVE  LearningInv'
  <1>1. Others(r) /\ request'[r].pc \in {"idle", "lookup"}
        /\ (request[r].share >= 100 => request'[r].pc = "lookup")
    BY Continued, Answered DEF UpdateProgress, LearningInv, Pcs
  <1>2. percent' = request[r].share /\ request[r].share \in Shares
        /\ UNCHANGED <<completion, enrolled, certificates, attempts, now, peak, cut>>
    BY DEF UpdateProgress, LearningInv, TypeOK, Progressing
  <1>3. TypeOK'
    BY <1>1, <1>2 DEF LearningInv, TypeOK, Others
  <1>4. RequestsFit' /\ DoneIsFull'
    BY <1>1, <1>2 DEF LearningInv, RequestsFit, DoneIsFull, Others
  <1>5. CompletedIsCertified'
    BY <1>1, <1>2 DEF CompletedIsCertified
  <1> QED
    BY <1>1, <1>2, <1>3, <1>4, <1>5, CountsKept DEF LearningInv

\* Whoever goes on to issue saw no certificate.
LEMMA LookUpStep ==
    ASSUME LearningInv, NEW r \in Request, LookUpCertificate(r)
    PROVE  LearningInv'
  <1>1. Others(r) /\ request'[r].pc \in {"idle", "issue"}
    BY Continued, Answered DEF LookUpCertificate, LearningInv, Pcs
  <1>2. UNCHANGED <<completion, enrolled, percent, certificates, attempts, now, peak, cut>>
    BY DEF LookUpCertificate, rows
  <1>3. TypeOK'
    BY <1>1, <1>2 DEF LearningInv, TypeOK, Others
  <1>4. RequestsFit' /\ DoneIsFull'
    BY <1>1, <1>2 DEF LearningInv, RequestsFit, DoneIsFull, Others
  <1>5. CASE certificates.earned + certificates.manual > 0
    <2>1. request'[r].pc = "idle"
      BY <1>5, Answered DEF LookUpCertificate, LearningInv
    <2>2. CompletedIsCertified'
      BY <1>2, <1>5 DEF CompletedIsCertified
    <2> QED
      BY <1>1, <1>2, <1>3, <1>4, <2>1, <2>2, CountsKept DEF LearningInv
  <1>6. CASE ~ (certificates.earned + certificates.manual > 0)
    <2>1. request'[r].pc = "issue"
      BY <1>6, Continued DEF LookUpCertificate, LearningInv, Pcs
    <2>2. CompletedIsCertified'
      BY <2>1 DEF CompletedIsCertified
    <2>3. certificates.earned = 0
      BY <1>6, LearningAssumption DEF LearningInv, TypeOK
    <2>4. Issuing' \in SUBSET Request
      BY DEF Issuing
    <2>5. Cardinality(Issuing') \in Nat /\ Cardinality(Issuing') <= Cardinality(Request)
      BY <2>4, RequestsAreCounted
    <2>6. CertificatesCounted'
      BY <1>2, <2>3, <2>5 DEF CertificatesCounted
    <2>7. \A l : Attempting(l)' \subseteq Attempting(l)
      BY <1>1, <2>1 DEF Attempting, Others
    <2>8. AttemptsCounted'
      BY <1>2, <2>7, AttemptsKept
    <2> QED
      BY <1>3, <1>4, <2>2, <2>6, <2>8 DEF LearningInv
  <1> QED
    BY <1>5, <1>6

\* Issuing trades an issuer for a certificate.
LEMMA IssueStep ==
    ASSUME LearningInv, NEW r \in Request, IssueCertificate(r)
    PROVE  LearningInv'
  <1>1. Others(r) /\ request'[r].pc = "idle" /\ request[r].pc = "issue"
    BY Answered DEF IssueCertificate, LearningInv, Doing
  <1>2. UNCHANGED <<completion, enrolled, percent, attempts, now, peak>> /\ cut' = FALSE
    BY DEF IssueCertificate
  <1>3. certificates' \in [earned : Nat, manual : 0..MaxManual]
        /\ certificates.earned \in Nat
        /\ certificates'.earned = certificates.earned + 1
        /\ certificates'.manual = certificates.manual
    BY DEF IssueCertificate, LearningInv, TypeOK
  <1>4. TypeOK'
    BY <1>1, <1>2, <1>3 DEF LearningInv, TypeOK, Others
  <1>5. RequestsFit' /\ DoneIsFull'
    BY <1>1, <1>2 DEF LearningInv, RequestsFit, DoneIsFull, Others
  <1>6. CertificatesCounted'
    <2>1. Issuing \in SUBSET Request /\ r \in Issuing /\ Issuing' \in SUBSET (Issuing \ {r})
      BY <1>1 DEF Issuing, Others
    <2>2. Cardinality(Issuing') <= Cardinality(Issuing) - 1
      BY <2>1, OneLess
    <2>3. Cardinality(Issuing') \in Nat /\ Cardinality(Issuing) \in Nat
      BY <2>1, RequestsAreCounted
    <2> QED
      BY <1>3, <2>2, <2>3, LearningAssumption, FS_CardinalityType
      DEF LearningInv, CertificatesCounted
  <1>7. \A l \in QuizLessons : Attempting(l)' \subseteq Attempting(l)
    BY <1>1 DEF Attempting, Others
  <1>8. AttemptsCounted'
    BY <1>2, <1>7, AttemptsKept
  <1>9. CompletedIsCertified'
    <2>1. certificates'.manual \in Nat
      BY <1>3, LearningAssumption
    <2>2. certificates'.earned + certificates'.manual > 0
      BY <1>3, <2>1
    <2> QED
      BY <2>2 DEF CompletedIsCertified
  <1> QED
    BY <1>4, <1>5, <1>6, <1>8, <1>9 DEF LearningInv

\* Whoever goes on to attempt the quiz counted fewer attempts than the limit.
LEMMA CountAttemptsStep ==
    ASSUME LearningInv, NEW r \in Request, NEW l \in QuizLessons, NEW passed \in BOOLEAN,
           CountAttempts(r, l, passed)
    PROVE  LearningInv'
  <1>1. request[r].pc = "idle" /\ (MaxAttempts = 0 \/ attempts[l] < MaxAttempts)
        /\ UNCHANGED <<completion, enrolled, percent, certificates, attempts, now, peak, cut>>
    BY DEF CountAttempts, rows, Doing
  <1>2. l \in Lessons /\ (IF passed THEN Full ELSE 0) \in 0..Full
    BY LearningAssumption
  <1>3. Others(r) /\ request'[r].pc = "attempt" /\ request'[r].lesson = l
    BY <1>2, Gone DEF CountAttempts, LearningInv, Pcs
  <1>4. TypeOK'
    BY <1>1, <1>3 DEF LearningInv, TypeOK, Others
  <1>5. RequestsFit' /\ DoneIsFull'
    BY <1>1, <1>2, <1>3 DEF LearningInv, RequestsFit, DoneIsFull, Others
  <1>6. Issuing' \subseteq Issuing
    BY <1>1, <1>3 DEF Issuing, Others
  <1>7. CertificatesCounted'
    BY <1>1, <1>6, CertificatesKept
  <1>8. ASSUME MaxAttempts > 0, NEW k \in QuizLessons
        PROVE  attempts[k] + Cardinality(Attempting(k)') <= MaxAttempts - 1 + Cardinality(Request)
    <2>1. Attempting(k)' \in SUBSET Request /\ Attempting(k) \in SUBSET Request
      BY DEF Attempting
    <2>2. Cardinality(Attempting(k)') \in Nat /\ Cardinality(Attempting(k)) \in Nat
          /\ Cardinality(Request) \in Nat
          /\ Cardinality(Attempting(k)') <= Cardinality(Request)
      BY <2>1, RequestsAreCounted
    <2>3. attempts[k] \in Nat
      BY DEF LearningInv, TypeOK
    <2>4. CASE k = l
      BY <1>1, <1>8, <2>2, <2>3, <2>4, LearningAssumption
    <2>5. CASE k # l
      <3>1. Attempting(k)' \in SUBSET Attempting(k)
        BY <1>3, <2>5 DEF Attempting, Others
      <3>2. Cardinality(Attempting(k)') <= Cardinality(Attempting(k))
        BY <2>1, <3>1, RequestsAreCounted
      <3>3. attempts[k] + Cardinality(Attempting(k)) <= MaxAttempts - 1 + Cardinality(Request)
        BY <1>8 DEF LearningInv, AttemptsCounted
      <3> QED
        BY <2>2, <2>3, <3>2, <3>3, LearningAssumption
    <2> QED
      BY <2>4, <2>5
  <1>9. AttemptsCounted'
    BY <1>1, <1>8 DEF AttemptsCounted
  <1>10. CompletedIsCertified'
    BY <1>1, <1>3 DEF LearningInv, CompletedIsCertified, Others
  <1> QED
    BY <1>4, <1>5, <1>7, <1>9, <1>10 DEF LearningInv

\* Recording trades a request past its check for an attempt.
LEMMA RecordAttemptStep ==
    ASSUME LearningInv, NEW r \in Request, RecordAttempt(r)
    PROVE  LearningInv'
  <1>1. request[r].pc = "attempt" /\ request[r].lesson \in QuizLessons
        /\ UNCHANGED <<completion, enrolled, percent, certificates, now, peak, cut>>
        /\ attempts' = [attempts EXCEPT ![request[r].lesson] = @ + 1]
    BY DEF RecordAttempt, Doing, LearningInv, RequestsFit
  <1>2. Others(r) /\ request'[r].pc \in {"find", "aggregate"}
        /\ request'[r].lesson = request[r].lesson
    BY Continued DEF RecordAttempt, LearningInv, Pcs
  <1>3. attempts' \in [QuizLessons -> Nat]
    BY <1>1 DEF LearningInv, TypeOK
  <1>4. TypeOK'
    BY <1>1, <1>2, <1>3 DEF LearningInv, TypeOK, Others
  <1>5. RequestsFit' /\ DoneIsFull'
    BY <1>1, <1>2, LearningAssumption DEF LearningInv, RequestsFit, DoneIsFull, Others
  <1>6. Issuing' \subseteq Issuing
    BY <1>1, <1>2 DEF Issuing, Others
  <1>7. CertificatesCounted'
    BY <1>1, <1>6, CertificatesKept
  <1>8. ASSUME MaxAttempts > 0, NEW k \in QuizLessons
        PROVE  attempts'[k] + Cardinality(Attempting(k)') <= MaxAttempts - 1 + Cardinality(Request)
    <2>1. Attempting(k)' \in SUBSET Attempting(k) /\ Attempting(k) \in SUBSET Request
      BY <1>2 DEF Attempting, Others
    <2>2. Cardinality(Attempting(k)') \in Nat /\ Cardinality(Attempting(k)) \in Nat
          /\ Cardinality(Request) \in Nat
          /\ Cardinality(Attempting(k)') <= Cardinality(Attempting(k))
      BY <2>1, RequestsAreCounted
    <2>3. attempts[k] \in Nat
          /\ attempts[k] + Cardinality(Attempting(k)) <= MaxAttempts - 1 + Cardinality(Request)
      BY <1>8 DEF LearningInv, TypeOK, AttemptsCounted
    <2>4. CASE request[r].lesson = k
      <3>1. r \in Attempting(k) /\ Attempting(k)' \in SUBSET (Attempting(k) \ {r})
        BY <1>1, <1>2, <2>4 DEF Attempting, Others
      <3>2. Cardinality(Attempting(k)') <= Cardinality(Attempting(k)) - 1
        BY <2>1, <3>1, OneLess
      <3>3. attempts'[k] = attempts[k] + 1
        BY <1>1, <2>4 DEF LearningInv, TypeOK
      <3> QED
        BY <2>2, <2>3, <3>2, <3>3, LearningAssumption
    <2>5. CASE request[r].lesson # k
      <3>1. attempts'[k] = attempts[k]
        BY <1>1, <2>5 DEF LearningInv, TypeOK
      <3> QED
        BY <2>2, <2>3, <3>1, LearningAssumption
    <2> QED
      BY <2>4, <2>5
  <1>9. AttemptsCounted'
    BY <1>8 DEF AttemptsCounted
  <1>10. CompletedIsCertified'
    BY <1>1, <1>2 DEF LearningInv, CompletedIsCertified, Others
  <1> QED
    BY <1>4, <1>5, <1>7, <1>9, <1>10 DEF LearningInv

\* A failure before the first certificate is remembered.
LEMMA FailStep ==
    ASSUME LearningInv, NEW r \in Request, Fail(r)
    PROVE  LearningInv'
  <1>1. Others(r) /\ request'[r].pc = "idle"
    BY Answered DEF Fail, LearningInv
  <1>2. UNCHANGED <<completion, enrolled, percent, certificates, attempts, now, peak>>
        /\ cut' = (cut \/ (/\ request[r].pc \in {"lookup", "issue"}
                          /\ certificates.earned + certificates.manual = 0))
    BY DEF Fail
  <1>3. TypeOK'
    BY <1>1, <1>2 DEF LearningInv, TypeOK, Others
  <1>4. RequestsFit' /\ DoneIsFull'
    BY <1>1, <1>2 DEF LearningInv, RequestsFit, DoneIsFull, Others
  <1>5. CompletedIsCertified'
    <2>1. certificates.earned \in Nat /\ certificates.manual \in Nat
      BY LearningAssumption DEF LearningInv, TypeOK
    <2>2. certificates.earned + certificates.manual > 0
              \/ certificates.earned + certificates.manual = 0
      BY <2>1
    <2> QED
      BY <1>1, <1>2, <2>2 DEF LearningInv, CompletedIsCertified, Others
  <1> QED
    BY <1>1, <1>2, <1>3, <1>4, <1>5, CountsKept DEF LearningInv

-----------------------------------------------------------------------------
\* Steps that are no request's leave both counts alone.
LEMMA RequestsUntouched ==
    ASSUME LearningInv, request' = request, attempts' = attempts,
           certificates'.earned = certificates.earned
    PROVE  RequestsFit' /\ CertificatesCounted' /\ AttemptsCounted'
  <1>1. Issuing' = Issuing /\ \A l : Attempting(l)' = Attempting(l)
    BY DEF Issuing, Attempting
  <1>2. RequestsFit'
    BY DEF LearningInv, RequestsFit
  <1>3. CertificatesCounted'
    BY <1>1 DEF LearningInv, CertificatesCounted
  <1>4. \A l \in QuizLessons : Attempting(l)' \subseteq Attempting(l)
    BY <1>1
  <1>5. AttemptsCounted'
    BY <1>4, AttemptsKept
  <1> QED
    BY <1>2, <1>3, <1>5

\* Every step keeps the invariant.
LEMMA LearningStep == LearningInv /\ [Next]_vars => LearningInv'
  <1> SUFFICES ASSUME LearningInv, [Next]_vars PROVE LearningInv'
    OBVIOUS
  <1>1. ASSUME NEW r \in Request, NEW l \in Lessons, NEW p \in Reports, Watch(r, l, p)
        PROVE  LearningInv'
    <2>1. (IF 100 * p >= 95 * Full THEN Full ELSE p) \in 0..Full
      BY LearningAssumption
    <2>2. Others(r) /\ request'[r].pc = "save"
      BY <1>1, <2>1, Saving DEF Watch, LearningInv
    <2> QED
      BY <1>1, <2>2, QuietStep DEF Watch, rows, Doing
  <1>2. ASSUME NEW r \in Request, NEW t \in Tasks, Approve(r, t) PROVE LearningInv'
    <2>1. t \in Lessons /\ Full \in 0..Full
      BY LearningAssumption, CourseAssumption
    <2>2. Others(r) /\ request'[r].pc = "find" /\ request'[r].lesson = t
      BY <1>2, <2>1, Gone DEF Approve, LearningInv, Pcs
    <2> QED
      BY <1>2, <2>1, <2>2, QuietStep DEF Approve, rows, Doing
  <1>3. ASSUME NEW r \in Request, MarkComplete(r) PROVE LearningInv'
    <2>1. request[r].pc = "find" => request[r].lesson \in Lessons
      BY DEF LearningInv, RequestsFit
    <2>2. Full \in 0..Full
      BY LearningAssumption
    <2>3. Others(r) /\ request'[r].pc = "save"
      BY <1>3, <2>1, <2>2, Saving DEF MarkComplete, Doing, LearningInv
    <2> QED
      BY <1>3, <2>3, QuietStep DEF MarkComplete, rows, Doing
  <1>4. ASSUME NEW r \in Request, Aggregate(r) PROVE LearningInv'
    <2>1. Others(r) /\ request'[r].pc \in {"idle", "update"}
      <3>1. CASE ~ enrolled
        BY <1>4, <3>1, Answered DEF Aggregate, LearningInv
      <3>2. CASE enrolled
        <4> DEFINE progress == [l \in Lessons |-> completion[l].progress]
                   next == [pc |-> "update", lesson |-> NoLesson, value |-> 0, seen |-> NoRow,
                            share |-> Percent(progress)]
        <4>1. progress \in [Lessons -> 0..Full]
          BY DEF LearningInv, TypeOK, Row
        <4>2. Percent(progress) \in Shares
          BY <4>1 DEF Shares
        <4>3. NoRow \in Row /\ 0 \in 0..Full
          BY LearningAssumption DEF NoRow, Row, Times
        <4>4. next \in Progressing /\ next.pc = "update"
          BY <4>2, <4>3 DEF Progressing, Pcs
        <4>5. request' = [request EXCEPT ![r] = next]
          BY <1>4, <3>2 DEF Aggregate
        <4> HIDE DEF next
        <4> QED
          BY <4>4, <4>5 DEF LearningInv, TypeOK, Others
      <3> QED
        BY <3>1, <3>2
    <2> QED
      BY <1>4, <2>1, QuietStep DEF Aggregate, rows, Doing
  <1>5. ASSUME NEW r \in Request, AskForCertificate(r) PROVE LearningInv'
    <2>1. 0 \in 0..Full
      BY LearningAssumption
    <2>2. Others(r) /\ request'[r].pc = "lookup"
      BY <1>5, <2>1, Gone DEF AskForCertificate, LearningInv, Pcs
    <2> QED
      BY <1>5, <2>2, QuietStep DEF AskForCertificate, rows, Doing
  <1>6. CASE Enrol
    BY <1>6, RequestsUntouched DEF Enrol, LearningInv, TypeOK, DoneIsFull, CompletedIsCertified
  <1>7. CASE IssueByHand
    <2>1. certificates' \in [earned : Nat, manual : 0..MaxManual]
          /\ certificates'.earned = certificates.earned
          /\ certificates'.earned + certificates'.manual > 0
      BY <1>7, LearningAssumption DEF IssueByHand, LearningInv, TypeOK
    <2> QED
      BY <1>7, <2>1, RequestsUntouched
      DEF IssueByHand, LearningInv, TypeOK, DoneIsFull, CompletedIsCertified
  <1>8. CASE Tick
    <2>1. now' \in Times
      BY <1>8, LearningAssumption DEF Tick, LearningInv, TypeOK, Times
    <2> QED
      BY <1>8, <2>1, RequestsUntouched
      DEF Tick, LearningInv, TypeOK, DoneIsFull, CompletedIsCertified
  <1>9. CASE UNCHANGED vars
    BY <1>9, RequestsUntouched
    DEF vars, rows, LearningInv, TypeOK, DoneIsFull, CompletedIsCertified
  <1> QED
    BY <1>1, <1>2, <1>3, <1>4, <1>5, <1>6, <1>7, <1>8, <1>9, SaveCompletionStep,
       UpdateProgressStep, LookUpStep, IssueStep, CountAttemptsStep, RecordAttemptStep,
       FailStep, LearningSteps

\* The invariant holds however requests interleave and wherever they are cut short.
THEOREM LearningInvariant == Spec => []LearningInv
  <1> QED
    BY LearningInitInv, LearningStep, PTL DEF Spec

\* Every row, every percentage and every request has the shape the code gives it.
THEOREM LearningTypeCorrect == Spec => []TypeOK
  <1>1. LearningInv => TypeOK
    BY DEF LearningInv
  <1> QED
    BY <1>1, LearningInvariant, PTL

\* No more certificates are earned than requests can overlap, for any number of them.
THEOREM CertificatesStayWithinOverlap == Spec => []CertificatesWithinOverlap
  <1>1. LearningInv => CertificatesWithinOverlap
    <2> SUFFICES ASSUME LearningInv PROVE CertificatesWithinOverlap
      OBVIOUS
    <2>1. Issuing \in SUBSET Request
      BY DEF Issuing
    <2>2. Cardinality(Issuing) \in Nat /\ Cardinality(Request) \in Nat
      BY <2>1, RequestsAreCounted
    <2> QED
      BY <2>2 DEF LearningInv, TypeOK, CertificatesCounted, CertificatesWithinOverlap
  <1> QED
    BY <1>1, LearningInvariant, PTL

\* A limit on attempts is passed only by attempts that overlap, for any limit.
THEOREM AttemptsStayWithinOverlap == Spec => []AttemptsWithinOverlap
  <1>1. LearningInv => AttemptsWithinOverlap
    <2> SUFFICES ASSUME LearningInv, MaxAttempts > 0, NEW l \in QuizLessons
                 PROVE  attempts[l] <= MaxAttempts - 1 + Cardinality(Request)
      BY DEF AttemptsWithinOverlap
    <2>1. Attempting(l) \in SUBSET Request
      BY DEF Attempting
    <2>2. Cardinality(Attempting(l)) \in Nat /\ Cardinality(Request) \in Nat
      BY <2>1, RequestsAreCounted
    <2>3. attempts[l] \in Nat
          /\ attempts[l] + Cardinality(Attempting(l)) <= MaxAttempts - 1 + Cardinality(Request)
      BY DEF LearningInv, TypeOK, AttemptsCounted
    <2> QED
      BY <2>2, <2>3, LearningAssumption
  <1> QED
    BY <1>1, LearningInvariant, PTL

\* A completed course has its certificate, or gets it, unless a query failed.
THEOREM CompletedStaysCertified == Spec => []CompletedIsCertified
  <1>1. LearningInv => CompletedIsCertified
    BY DEF LearningInv
  <1> QED
    BY <1>1, LearningInvariant, PTL

\* A save that read the lesson as it still is takes nothing back.
THEOREM ProgressMovesForward == Spec => ForwardUnlessOverlapped
  <1>1. LearningInv /\ [Next]_vars => [UndoneByOverlap]_completion
    <2> SUFFICES ASSUME LearningInv, Next, completion' # completion,
                        NEW l \in Lessons, Undone(l)
                 PROVE  \E r \in Request : /\ Doing(r, "save") /\ request[r].lesson = l
                                           /\ request[r].seen # completion[l]
      BY DEF vars, rows, UndoneByOverlap
    <2>1. PICK r \in Request : SaveCompletion(r)
      BY LearningSteps DEF Watch, CountAttempts, Approve, MarkComplete, Aggregate,
         UpdateProgress, AskForCertificate, LookUpCertificate, IssueCertificate,
         RecordAttempt, Fail, Enrol, IssueByHand, Tick, rows
    <2>2. Doing(r, "save") /\ completion' = [completion EXCEPT ![request[r].lesson] = SavedRow(r)]
      BY <2>1 DEF SaveCompletion
    <2>3. completion[l] \in Row
      BY DEF LearningInv, TypeOK
    <2>4. completion[l].progress \in 0..Full /\ completion[l].doneAt \in Times \cup {Never}
      BY <2>3 DEF Row
    <2>5. request[r].lesson = l
      <3> SUFFICES ASSUME request[r].lesson # l PROVE FALSE
        OBVIOUS
      <3>1. completion'[l] = completion[l]
        BY <2>2 DEF LearningInv, TypeOK
      <3> QED
        BY <2>4, <3>1, LearningAssumption DEF Undone
    <2>6. request[r].seen # completion[l]
      <3> SUFFICES ASSUME request[r].seen = completion[l] PROVE FALSE
        OBVIOUS
      <3>1. completion'[l] = SavedRow(r)
        BY <2>2, <2>5 DEF LearningInv, TypeOK
      <3>2. completion[l].doneAt # Never => completion[l].progress = Full
        BY DEF LearningInv, DoneIsFull
      <3>3. SavedRow(r) \in Row /\ SavedRow(r).progress >= completion[l].progress
            /\ (completion[l].doneAt # Never => SavedRow(r).doneAt = completion[l].doneAt)
        BY <3>2, SavedRowFits DEF LearningInv
      <3>4. SavedRow(r).progress \in 0..Full
        BY <3>3 DEF Row
      <3> QED
        BY <2>4, <3>1, <3>3, <3>4, LearningAssumption DEF Undone
    <2> QED
      BY <2>2, <2>5, <2>6
  <1> QED
    BY <1>1, LearningInvariant, PTL DEF Spec, ForwardUnlessOverlapped

-----------------------------------------------------------------------------
(* What a percentage is worth: sums over the lessons of the course.        *)

\* A set of natural numbers has a least one.
LEMMA LeastNatural ==
    ASSUME NEW S \in SUBSET Nat, S # {}
    PROVE  \E x \in S : \A y \in S : x <= y
  <1>1. PICK x \in S : \A y \in S : <<y, x>> \notin OpToRel(<, Nat)
    BY NatLessThanWellFounded, WFMin
  <1>2. \A y \in S : ~(y < x)
    BY <1>1 DEF OpToRel
  <1> QED
    BY <1>2

\* The element of a set of lessons that is added last.
Last(S) == CHOOSE l \in S : TRUE

\* What a sum of p over a set of lessons is, by what sums gives for the smaller ones.
Sum(p, sums, S) == IF S = {} THEN 0 ELSE LET l == Last(S) IN p[l] + sums[S \ {l}]

\* The sums of p over all sets of lessons.
Sums(p) == CHOOSE sums : sums = [S \in SUBSET Lessons |-> Sum(p, sums, S)]

Total(p) == Sums(p)[Lessons]

\* Adding up over the lessons, as the library does it.
LEMMA TotalIsSum ==
    ASSUME NEW p
    PROVE  MapThenSumSet(LAMBDA l : p[l], Lessons) = Total(p)
  BY DEF MapThenSumSet, MapThenFoldSet, Total, Sums, Sum, Last

\* It is one of them.
LEMMA LastIsIn == \A S : S # {} => Last(S) \in S
  BY DEF Last

\* A set of lessons without its last one is smaller.
LEMMA LessOne ==
    ASSUME NEW S \in SUBSET Lessons
    PROVE  /\ IsFiniteSet(S) /\ Cardinality(S) \in Nat
           /\ Cardinality(S) <= Cardinality(Lessons) /\ Cardinality(Lessons) \in Nat
           /\ S # {} => /\ S \ {Last(S)} \in SUBSET Lessons
                        /\ Cardinality(S \ {Last(S)}) = Cardinality(S) - 1
           /\ S # {} => Cardinality(S) # 0
  <1>1. IsFiniteSet(S) /\ Cardinality(S) <= Cardinality(Lessons)
    BY CourseAssumption, FS_Subset
  <1>2. Cardinality(S) \in Nat /\ Cardinality(Lessons) \in Nat
    BY <1>1, CourseAssumption, FS_CardinalityType
  <1>3. S # {} => Cardinality(S) # 0
    BY <1>1, FS_EmptySet
  <1>4. S # {} => Cardinality(S \ {Last(S)}) = Cardinality(S) - 1
    BY <1>1, LastIsIn, FS_RemoveElement
  <1> QED
    BY <1>1, <1>2, <1>3, <1>4

\* The sums of p over the sets of at most n lessons.
SumUpTo(p, n, sums) ==
    \A S \in SUBSET Lessons : Cardinality(S) <= n => sums[S] = Sum(p, sums, S)

\* The recursion ends: what is added up is a smaller set each time.
LEMMA SumsExist ==
    ASSUME NEW p
    PROVE  \A S \in SUBSET Lessons : Sums(p)[S] = Sum(p, Sums(p), S)
  <1> DEFINE Without == {n \in Nat : \A sums : ~ SumUpTo(p, n, sums)}
  <1>1. Without = {}
    <2> SUFFICES ASSUME Without # {} PROVE FALSE
      OBVIOUS
    <2>1. PICK n \in Without : \A m \in Without : n <= m
      BY LeastNatural
    <2>2. n \in Nat
      OBVIOUS
    <2>3. \E sums : n # 0 => SumUpTo(p, n - 1, sums)
      BY <2>1, <2>2
    <2>4. PICK sums : n # 0 => SumUpTo(p, n - 1, sums)
      BY <2>3
    <2> DEFINE more == [S \in SUBSET Lessons |-> Sum(p, sums, S)]
    <2>5. ASSUME NEW S \in SUBSET Lessons, Cardinality(S) <= n
          PROVE  more[S] = Sum(p, more, S)
      <3>1. CASE S = {}
        BY <3>1 DEF Sum
      <3>2. CASE S # {}
        <4>1. PICK T \in SUBSET Lessons : T = S \ {Last(S)}
          OBVIOUS
        <4>2. n # 0 /\ Cardinality(T) <= n - 1
          BY <2>2, <2>5, <3>2, <4>1, LessOne
        <4>3. sums[T] = Sum(p, sums, T)
          BY <2>4, <4>2 DEF SumUpTo
        <4>4. more[T] = sums[T]
          BY <4>3
        <4>5. more[S] = p[Last(S)] + sums[T]
          BY <3>2, <4>1 DEF Sum
        <4>6. Sum(p, more, S) = p[Last(S)] + more[T]
          BY <3>2, <4>1 DEF Sum
        <4> QED
          BY <4>4, <4>5, <4>6
      <3> QED
        BY <3>1, <3>2
    <2> HIDE DEF more
    <2>6. SumUpTo(p, n, more)
      BY <2>5 DEF SumUpTo
    <2> QED
      BY <2>1, <2>6
  <1>2. Cardinality(Lessons) \in Nat
    BY LessOne
  <1>3. PICK sums : SumUpTo(p, Cardinality(Lessons), sums)
    BY <1>1, <1>2
  <1>4. \A S \in SUBSET Lessons : sums[S] = Sum(p, sums, S)
    BY <1>3, LessOne DEF SumUpTo
  <1> DEFINE all == [S \in SUBSET Lessons |-> Sum(p, sums, S)]
  <1>5. ASSUME NEW S \in SUBSET Lessons PROVE Sum(p, sums, S) = Sum(p, all, S)
    <2>1. CASE S = {}
      BY <2>1 DEF Sum
    <2>2. CASE S # {}
      <3>1. PICK T \in SUBSET Lessons : T = S \ {Last(S)}
        OBVIOUS
      <3>2. all[T] = sums[T]
        BY <1>4
      <3> HIDE DEF all
      <3> QED
        BY <2>2, <3>1, <3>2 DEF Sum
    <2> QED
      BY <2>1, <2>2
  <1>6. all = [S \in SUBSET Lessons |-> Sum(p, all, S)]
    BY <1>5
  <1> HIDE DEF all
  <1>7. Sums(p) = [S \in SUBSET Lessons |-> Sum(p, Sums(p), S)]
    BY <1>6 DEF Sums
  <1> QED
    BY <1>7

\* Sums of natural numbers are natural numbers, and grow with what is added up.
LEMMA TotalGrows ==
    ASSUME NEW p \in [Lessons -> Nat], NEW q \in [Lessons -> Nat],
           \A l \in Lessons : p[l] <= q[l]
    PROVE  Total(p) \in Nat /\ Total(q) \in Nat /\ Total(p) <= Total(q)
  <1> DEFINE Fits(S) == Sums(p)[S] \in Nat /\ Sums(q)[S] \in Nat /\ Sums(p)[S] <= Sums(q)[S]
             Bad == {n \in Nat : \E S \in SUBSET Lessons : Cardinality(S) = n /\ ~ Fits(S)}
  <1>1. Bad = {}
    <2> SUFFICES ASSUME Bad # {} PROVE FALSE
      OBVIOUS
    <2>1. PICK n \in Bad : \A m \in Bad : n <= m
      BY LeastNatural
    <2>2. PICK S \in SUBSET Lessons : Cardinality(S) = n /\ ~ Fits(S)
      OBVIOUS
    <2>3. /\ Sums(p)[S] = Sum(p, Sums(p), S)
          /\ Sums(q)[S] = Sum(q, Sums(q), S)
      BY SumsExist
    <2>4. CASE S = {}
      BY <2>2, <2>3, <2>4 DEF Sum
    <2>5. CASE S # {}
      <3>1. PICK T \in SUBSET Lessons : T = S \ {Last(S)}
        OBVIOUS
      <3>2. Cardinality(T) \in Nat /\ Cardinality(T) < n /\ Last(S) \in Lessons
        BY <2>2, <2>5, <3>1, LessOne, LastIsIn
      <3>3. Fits(T)
        BY <2>1, <3>2
      <3>4. /\ Sums(p)[S] = p[Last(S)] + Sums(p)[T]
            /\ Sums(q)[S] = q[Last(S)] + Sums(q)[T]
        BY <2>3, <2>5, <3>1 DEF Sum
      <3>5. p[Last(S)] \in Nat /\ q[Last(S)] \in Nat /\ p[Last(S)] <= q[Last(S)]
        BY <3>2
      <3> QED
        BY <2>2, <3>3, <3>4, <3>5
    <2> QED
      BY <2>4, <2>5
  <1>2. Fits(Lessons)
    BY <1>1, LessOne
  <1> QED
    BY <1>2 DEF Total

-----------------------------------------------------------------------------
Whole == Cardinality(Lessons) * Full

\* The percentage is no more than the best work is worth, up to rounding.
Worth(share) == 2 * share * Whole <= 200 * Total(peak) + Whole

\* The best work is worth the whole course, up to rounding.
WholeCourse == 200 * Total(peak) >= 199 * Whole

\* At each query: what was saved is no more than the best; a percentage on its way to the
\* row is earned, and a request on its way to a certificate saw a whole course.
EarnedInv ==
    /\ \A l \in Lessons : completion[l].progress <= peak[l]
    /\ Worth(percent)
    /\ \A r \in Request : /\ request[r].pc = "update" => Worth(request[r].share)
                          /\ request[r].pc \in {"lookup", "issue"} => WholeCourse
    /\ certificates.earned > 0 => WholeCourse

\* Division by a number that is not zero rounds down.
LEMMA Division ==
    ASSUME NEW a \in Nat, NEW b \in Nat, b > 0
    PROVE  a \div b \in Nat /\ (a \div b) * b <= a
  OBVIOUS

\* A larger factor makes a larger product.
LEMMA LargerFactor ==
    ASSUME NEW a \in Nat, NEW b \in Nat, NEW c \in Nat, a <= b
    PROVE  a * c <= b * c
  OBVIOUS

\* Doubling commutes with the factor.
LEMMA Twice ==
    ASSUME NEW a \in Nat, NEW b \in Nat
    PROVE  2 * a * b = a * (2 * b) /\ a * b \in Nat /\ 2 * a * b \in Nat
  OBVIOUS

\* The course is worth a natural number.
LEMMA WholeIsNatural == Whole \in Nat
  <1>1. Cardinality(Lessons) \in Nat /\ Full \in Nat
    BY LearningAssumption, CourseAssumption, FS_CardinalityType
  <1> QED
    BY <1>1 DEF Whole

\* The percentage computed from what was watched is worth no more than that.
LEMMA PercentWorth ==
    ASSUME NEW p \in [Lessons -> 0..Full]
    PROVE  Percent(p) \in 0..100 /\ 2 * Percent(p) * Whole <= 200 * Total(p) + Whole
  <1>1. p \in [Lessons -> Nat]
    BY LearningAssumption
  <1>2. Total(p) \in Nat
    BY <1>1, TotalGrows
  <1>3. PICK w \in Nat : w = Whole
    BY WholeIsNatural
  <1>4. PICK t \in Nat : t = Total(p)
    BY <1>2
  <1>5. Percent(p) = IF w = 0 THEN 0 ELSE Min({100, (200 * t + w) \div (2 * w)})
    BY <1>3, <1>4, TotalIsSum DEF Percent, Whole
  <1>6. CASE w = 0
    BY <1>3, <1>4, <1>5, <1>6
  <1>7. CASE w # 0
    <2> DEFINE a == 200 * t + w
               b == 2 * w
    <2>1. PICK q : q = a \div b
      OBVIOUS
    <2>2. q \in Nat /\ q * (2 * w) <= 200 * t + w
      <3>1. a \in Nat /\ b \in Nat /\ b > 0
        BY <1>7
      <3> HIDE DEF a, b
      <3>2. a \div b \in Nat /\ (a \div b) * b <= a
        BY <3>1, Division
      <3>3. q \in Nat /\ q * b <= a
        BY <2>1, <3>2
      <3> QED
        BY <3>3 DEF a, b
    <2>3. Percent(p) = IF 100 <= q THEN 100 ELSE q
      BY <1>5, <1>7, <2>1, <2>2 DEF Min
    <2>4. PICK s \in 0..100 : s = Percent(p) /\ s <= q
      BY <2>2, <2>3
    <2>5. s * (2 * w) <= q * (2 * w)
      BY <2>2, <2>4, LargerFactor
    <2>6. 2 * s * w = s * (2 * w) /\ s * w \in Nat /\ q * w \in Nat
      BY <2>2, Twice
    <2> QED
      BY <1>3, <1>4, <2>2, <2>4, <2>5, <2>6
  <1> QED
    BY <1>6, <1>7

\* A percentage is one of 0 to 100.
LEMMA SharesAreSmall == \A share \in Shares : share \in 0..100
  BY PercentWorth DEF Shares

\* The best work only grows, and what was earned stays so.
LEMMA EarnedStays ==
    ASSUME TypeOK, TypeOK', \A l \in Lessons : peak[l] <= peak'[l]
    PROVE  /\ \A share \in 0..100 : Worth(share) => Worth(share)'
           /\ WholeCourse => WholeCourse'
  <1>1. peak \in [Lessons -> Nat] /\ peak' \in [Lessons -> Nat]
    BY LearningAssumption DEF TypeOK
  <1>2. PICK best \in Nat : best = Total(peak)
    BY <1>1, TotalGrows
  <1>3. PICK new \in Nat : new = Total(peak')
    BY <1>1, TotalGrows
  <1>4. best <= new
    BY <1>1, <1>2, <1>3, TotalGrows
  <1>5. PICK w \in Nat : w = Whole
    BY WholeIsNatural
  <1>6. Whole' = Whole
    BY DEF Whole
  <1>7. ASSUME NEW share \in 0..100, Worth(share) PROVE Worth(share)'
    <2>1. PICK x \in Nat : x = 2 * share * w
      <3>1. share \in Nat
        OBVIOUS
      <3> QED
        BY <3>1, Twice
    <2>2. x <= 200 * best + w
      BY <1>2, <1>5, <1>7, <2>1 DEF Worth
    <2>3. x <= 200 * new + w
      BY <1>4, <2>2
    <2> QED
      BY <1>3, <1>5, <1>6, <2>1, <2>3 DEF Worth
  <1>8. WholeCourse => WholeCourse'
    BY <1>2, <1>3, <1>4, <1>5, <1>6 DEF WholeCourse
  <1> QED
    BY <1>7, <1>8

\* At 100 percent the work is worth the whole course.
LEMMA FullShare ==
    ASSUME TypeOK, NEW share \in 0..100, share >= 100, Worth(share)
    PROVE  WholeCourse
  <1>1. peak \in [Lessons -> Nat]
    BY LearningAssumption DEF TypeOK
  <1>2. PICK best \in Nat : best = Total(peak)
    BY <1>1, TotalGrows
  <1>3. PICK w \in Nat : w = Whole
    BY WholeIsNatural
  <1>4. share = 100
    OBVIOUS
  <1>5. 200 * w <= 200 * best + w
    BY <1>2, <1>3, <1>4 DEF Worth
  <1> QED
    BY <1>2, <1>3, <1>5 DEF WholeCourse

\* A step that saves nothing, and puts no request on its way to a certificate unless the
\* course is whole.
LEMMA NothingSaved ==
    ASSUME LearningInv, LearningInv', EarnedInv, UNCHANGED <<completion, percent, peak>>,
           certificates'.earned > 0 => certificates.earned > 0 \/ WholeCourse,
           \A r \in Request :
              \/ request'[r] = request[r]
              \/ request'[r].pc \notin {"update", "lookup", "issue"}
              \/ request'[r].pc \in {"lookup", "issue"} /\ WholeCourse
    PROVE  EarnedInv'
  BY DEF EarnedInv, Worth, WholeCourse, Whole

\* A row is saved: the best work keeps up with it.
LEMMA SavingEarns ==
    ASSUME LearningInv, LearningInv', EarnedInv, NEW r \in Request, SaveCompletion(r)
    PROVE  EarnedInv'
  <1>1. Others(r) /\ request'[r].pc = "aggregate"
    BY Continued DEF SaveCompletion, LearningInv, Pcs
  <1>2. PICK l : l = request[r].lesson
    OBVIOUS
  <1>3. PICK row \in Row : row = SavedRow(r)
    BY SavedRowFits DEF LearningInv
  <1>4. /\ completion' = [completion EXCEPT ![l] = row]
        /\ peak' = [peak EXCEPT ![l] = Max({@, row.progress})]
        /\ UNCHANGED <<percent, certificates>>
    BY <1>2, <1>3 DEF SaveCompletion
  <1>5. ASSUME NEW k \in Lessons
        PROVE  peak[k] <= peak'[k] /\ completion'[k].progress <= peak'[k]
    <2>1. /\ peak[k] \in Int /\ row.progress \in Int /\ completion[k].progress <= peak[k]
          /\ completion[k].progress \in Int
      BY LearningAssumption DEF LearningInv, TypeOK, Row, EarnedInv
    <2>2. CASE k = l
      <3>1. completion'[k] = row
        BY <1>4, <2>2 DEF LearningInv, TypeOK
      <3>2. peak'[k] = Max({peak[k], row.progress})
        BY <1>4, <2>2 DEF LearningInv, TypeOK
      <3>3. PICK x \in Int, y \in Int : x = peak[k] /\ y = row.progress
        BY <2>1
      <3>4. x <= Max({x, y}) /\ y <= Max({x, y})
        BY MaxOfTwo
      <3> QED
        BY <3>1, <3>2, <3>3, <3>4
    <2>3. CASE k # l
      <3>1. completion'[k] = completion[k] /\ peak'[k] = peak[k]
        BY <1>4, <2>3 DEF LearningInv, TypeOK
      <3> QED
        BY <2>1, <3>1
    <2> QED
      BY <2>2, <2>3
  <1>6. TypeOK /\ TypeOK'
    BY DEF LearningInv
  <1>7. /\ \A share \in 0..100 : Worth(share) => Worth(share)'
        /\ WholeCourse => WholeCourse'
    BY <1>5, <1>6, EarnedStays
  <1>8. percent \in 0..100 /\ \A g \in Request : request[g].share \in 0..100
    BY <1>6, SharesAreSmall DEF TypeOK, Progressing
  <1>9. Worth(percent)'
    <2>1. PICK share \in 0..100 : share = percent
      BY <1>8
    <2>2. Worth(share)'
      BY <1>7, <2>1 DEF EarnedInv
    <2> QED
      BY <1>4, <2>1, <2>2 DEF Worth
  <1>10. ASSUME NEW g \in Request
         PROVE  /\ request'[g].pc = "update" => Worth(request[g].share)'
                /\ request'[g].pc \in {"lookup", "issue"} => WholeCourse'
    <2>1. CASE g = r
      BY <1>1, <2>1
    <2>2. CASE g # r
      <3>1. request'[g] = request[g]
        BY <1>1, <2>2 DEF Others
      <3>2. PICK share \in 0..100 : share = request[g].share
        BY <1>8
      <3>3. request'[g].pc = "update" => Worth(share)'
        BY <1>7, <3>1, <3>2 DEF EarnedInv
      <3>4. request'[g].pc \in {"lookup", "issue"} => WholeCourse'
        BY <1>7, <3>1 DEF EarnedInv
      <3> QED
        BY <3>1, <3>2, <3>3, <3>4 DEF Worth
    <2> QED
      BY <2>1, <2>2
  <1> QED
    BY <1>4, <1>5, <1>7, <1>9, <1>10 DEF EarnedInv

\* The percentage of what was watched is no more than the best is worth.
LEMMA AggregateEarns ==
    ASSUME LearningInv, LearningInv', EarnedInv, NEW r \in Request, Aggregate(r)
    PROVE  EarnedInv'
  <1>1. UNCHANGED <<completion, percent, peak, certificates>>
    BY DEF Aggregate, rows
  <1>2. CASE ~ enrolled
    <2>1. Others(r) /\ request'[r].pc = "idle"
      BY <1>2, Answered DEF Aggregate, LearningInv
    <2> QED
      BY <1>1, <2>1, NothingSaved DEF Others
  <1>3. CASE enrolled
    <2>1. PICK p : p = [l \in Lessons |-> completion[l].progress]
      OBVIOUS
    <2>2. request' = [request EXCEPT ![r] =
              [pc |-> "update", lesson |-> NoLesson, value |-> 0, seen |-> NoRow,
               share |-> Percent(p)]]
      BY <1>3, <2>1 DEF Aggregate
    <2>3. /\ request'[r].pc = "update" /\ request'[r].share = Percent(p)
          /\ \A g \in Request : g # r => request'[g] = request[g]
      BY <2>2 DEF LearningInv, TypeOK
    <2>4. p \in [Lessons -> 0..Full] /\ p \in [Lessons -> Nat] /\ peak \in [Lessons -> Nat]
      BY <2>1, LearningAssumption DEF LearningInv, TypeOK, Row
    <2>5. \A l \in Lessons : p[l] <= peak[l]
      BY <2>1 DEF EarnedInv
    <2>6. PICK worth \in Nat : worth = Total(p)
      BY <2>4, TotalGrows
    <2>7. PICK best \in Nat : best = Total(peak)
      BY <2>4, TotalGrows
    <2>8. worth <= best
      BY <2>4, <2>5, <2>6, <2>7, TotalGrows
    <2>9. PICK share \in 0..100 : share = Percent(p)
      BY <2>4, PercentWorth
    <2>10. PICK w \in Nat : w = Whole
      BY WholeIsNatural
    <2>11. PICK x \in Nat : x = 2 * share * w
      <3>1. share \in Nat
        OBVIOUS
      <3> QED
        BY <3>1, Twice
    <2>12. x <= 200 * worth + w
      BY <2>4, <2>6, <2>9, <2>10, <2>11, PercentWorth
    <2>13. x <= 200 * best + w
      BY <2>8, <2>12
    <2>14. Worth(share)
      BY <2>7, <2>10, <2>11, <2>13 DEF Worth
    <2>15. Worth(request[r].share)'
      BY <1>1, <2>3, <2>9, <2>14 DEF Worth, Whole
    <2> QED
      BY <1>1, <2>3, <2>15 DEF EarnedInv, Worth, WholeCourse, Whole
  <1> QED
    BY <1>2, <1>3

\* A row gets the percentage the request computed.
LEMMA UpdateEarns ==
    ASSUME LearningInv, LearningInv', EarnedInv, NEW r \in Request, UpdateProgress(r)
    PROVE  EarnedInv'
  <1>1. /\ request[r].pc = "update" /\ percent' = request[r].share
        /\ UNCHANGED <<completion, peak, certificates>>
    BY DEF UpdateProgress, Doing
  <1>2. PICK share \in 0..100 : share = request[r].share
    BY SharesAreSmall DEF LearningInv, TypeOK, Progressing
  <1>3. Worth(share)
    BY <1>1, <1>2 DEF EarnedInv
  <1>4. Others(r) /\ request'[r].pc # "update"
        /\ (request'[r].pc \in {"lookup", "issue"} => share >= 100)
    BY <1>2, Continued, Answered DEF UpdateProgress, LearningInv, Pcs
  <1>5. request'[r].pc \in {"lookup", "issue"} => WholeCourse
    BY <1>3, <1>4, FullShare DEF LearningInv
  <1>6. Worth(percent)'
    BY <1>1, <1>2, <1>3 DEF Worth, Whole
  <1> QED
    BY <1>1, <1>4, <1>5, <1>6 DEF EarnedInv, Worth, WholeCourse, Whole, Others

\* Whoever asks has a course at 100 percent; whoever issues was on the way to it.
LEMMA AskingEarns ==
    ASSUME LearningInv, LearningInv', EarnedInv, NEW r \in Request,
           AskForCertificate(r) \/ LookUpCertificate(r) \/ IssueCertificate(r)
    PROVE  EarnedInv'
  <1>1. CASE AskForCertificate(r)
    <2>1. UNCHANGED <<completion, percent, peak, certificates>> /\ percent >= 100
      BY <1>1 DEF AskForCertificate, rows
    <2>2. PICK share \in 0..100 : share = percent
      BY SharesAreSmall DEF LearningInv, TypeOK
    <2>3. WholeCourse
      BY <2>1, <2>2, FullShare DEF EarnedInv, LearningInv
    <2>4. 0 \in 0..Full
      BY LearningAssumption
    <2>5. Others(r) /\ request'[r].pc = "lookup"
      BY <1>1, <2>4, Gone DEF AskForCertificate, LearningInv, Pcs
    <2> QED
      BY <2>1, <2>3, <2>5, NothingSaved DEF Others
  <1>2. CASE LookUpCertificate(r)
    <2>1. UNCHANGED <<completion, percent, peak, certificates>> /\ WholeCourse
      BY <1>2 DEF LookUpCertificate, rows, Doing, EarnedInv
    <2>2. Others(r) /\ request'[r].pc \in {"idle", "issue"}
      BY <1>2, Continued, Answered DEF LookUpCertificate, LearningInv, Pcs
    <2> QED
      BY <2>1, <2>2, NothingSaved DEF Others
  <1>3. CASE IssueCertificate(r)
    <2>1. UNCHANGED <<completion, percent, peak>> /\ WholeCourse
      BY <1>3 DEF IssueCertificate, Doing, EarnedInv
    <2>2. Others(r) /\ request'[r].pc = "idle"
      BY <1>3, Answered DEF IssueCertificate, LearningInv
    <2> QED
      BY <2>1, <2>2, NothingSaved DEF Others
  <1> QED
    BY <1>1, <1>2, <1>3

\* A report, a completion or a quiz: nothing is saved yet.
LEMMA ReportingEarns ==
    ASSUME LearningInv, LearningInv', EarnedInv, NEW r \in Request,
           \/ \E l \in Lessons, p \in Reports : Watch(r, l, p)
           \/ \E l \in QuizLessons, passed \in BOOLEAN : CountAttempts(r, l, passed)
           \/ \E t \in Tasks : Approve(r, t)
           \/ MarkComplete(r) \/ RecordAttempt(r) \/ Fail(r)
    PROVE  EarnedInv'
  <1>1. UNCHANGED <<completion, percent, peak, certificates>>
    BY DEF Watch, CountAttempts, Approve, MarkComplete, RecordAttempt, Fail, rows
  <1>2. /\ \A g \in Request : g # r => request'[g] = request[g]
        /\ request'[r].pc \in {"idle", "save", "attempt", "find", "aggregate"}
    BY DEF Watch, CountAttempts, Approve, MarkComplete, RecordAttempt, Fail, Save, Go, Continue,
           Answer, NoRequest, LearningInv, TypeOK, Progressing
  <1> QED
    BY <1>1, <1>2, NothingSaved

\* Nothing is earned at first, and nothing shown.
LEMMA EarnedInit ==
    ASSUME Init PROVE EarnedInv
  <1>1. TypeOK
    BY LearningInitInv DEF LearningInv
  <1>2. peak \in [Lessons -> Nat]
    BY <1>1, LearningAssumption DEF TypeOK
  <1>3. PICK best \in Nat : best = Total(peak)
    BY <1>2, TotalGrows
  <1>4. PICK w \in Nat : w = Whole
    BY WholeIsNatural
  <1>5. Worth(0)
    BY <1>3, <1>4 DEF Worth
  <1> QED
    BY <1>5, LearningAssumption DEF Init, EarnedInv, NoRow, NoRequest

\* Every step.
LEMMA EarnedStep ==
    ASSUME LearningInv, LearningInv', EarnedInv, [Next]_vars PROVE EarnedInv'
  <1>1. CASE Enrol \/ IssueByHand \/ Tick \/ UNCHANGED vars
    <2>1. UNCHANGED <<completion, percent, peak, request>>
          /\ certificates'.earned = certificates.earned
      BY <1>1 DEF Enrol, IssueByHand, Tick, vars, rows, LearningInv, TypeOK
    <2> QED
      BY <2>1, NothingSaved
  <1> QED
    BY <1>1, SavingEarns, AggregateEarns, UpdateEarns, AskingEarns, ReportingEarns, LearningSteps

\* For any number of lessons and of requests at once: the progress bar never shows more
\* than the learner's best work is worth, and a certificate is only earned by work worth
\* the whole course, up to rounding.
THEOREM ProgressWasEarned == Spec => []ProgressIsEarned
  <1>1. ASSUME LearningInv, EarnedInv PROVE ProgressIsEarned
    <2>1. MapThenSumSet(LAMBDA l : peak[l], Lessons) = Total(peak)
      BY TotalIsSum
    <2> QED
      BY <1>1, <2>1 DEF ProgressIsEarned, EarnedInv, Worth, WholeCourse, Whole
  <1>2. Init => EarnedInv
    BY EarnedInit
  <1>3. LearningInv /\ LearningInv' /\ EarnedInv /\ [Next]_vars => EarnedInv'
    BY EarnedStep
  <1> QED
    BY <1>1, <1>2, <1>3, LearningInvariant, PTL DEF Spec

-----------------------------------------------------------------------------
(* The locks of the course (Curriculum), over the same lessons.            *)

\* The least of a set of natural numbers.
LEMMA MinIsLeast ==
    ASSUME NEW S \in SUBSET Nat, S # {}
    PROVE  Min(S) \in S /\ \A y \in S : Min(S) <= y
  <1>1. PICK x \in S : \A y \in S : x <= y
    BY LeastNatural
  <1> QED
    BY <1>1 DEF Min

\* A finite set of natural numbers has a greatest one.
LEMMA GreatestNatural ==
    ASSUME NEW S \in SUBSET Nat, IsFiniteSet(S), S # {}
    PROVE  \E x \in S : \A y \in S : x >= y
  <1> DEFINE Bad == {n \in Nat : \E T \in SUBSET Nat :
                        /\ IsFiniteSet(T) /\ T # {} /\ Cardinality(T) = n
                        /\ \A x \in T : \E y \in T : ~(x >= y)}
  <1>1. Bad = {}
    <2> SUFFICES ASSUME Bad # {} PROVE FALSE
      OBVIOUS
    <2>1. PICK n \in Bad : \A m \in Bad : n <= m
      BY LeastNatural
    <2>2. PICK T \in SUBSET Nat : /\ IsFiniteSet(T) /\ T # {} /\ Cardinality(T) = n
                                  /\ \A x \in T : \E y \in T : ~(x >= y)
      OBVIOUS
    <2>3. PICK x \in T : TRUE
      BY <2>2
    <2>4. PICK U \in SUBSET Nat : U = T \ {x}
      OBVIOUS
    <2>5. IsFiniteSet(U) /\ Cardinality(U) = n - 1 /\ Cardinality(U) \in Nat
      BY <2>2, <2>3, <2>4, FS_RemoveElement, FS_CardinalityType
    <2>6. n \in Nat /\ Cardinality(U) \notin Bad
      BY <2>1, <2>5
    <2>7. CASE U = {}
      <3>1. \A y \in T : y = x
        BY <2>4, <2>7
      <3> QED
        BY <2>2, <2>3, <3>1
    <2>8. CASE U # {}
      <3>1. PICK y \in U : \A z \in U : y >= z
        BY <2>5, <2>6, <2>8
      <3>2. x \in Nat /\ y \in Nat /\ y \in T
        BY <2>3, <2>4
      <3>3. CASE x >= y
        <4>1. \A z \in T : x >= z
          BY <2>4, <3>1, <3>2, <3>3
        <4> QED
          BY <2>2, <2>3, <4>1
      <3>4. CASE y >= x
        <4>1. \A z \in T : y >= z
          BY <2>4, <3>1, <3>2, <3>4
        <4> QED
          BY <2>2, <3>2, <4>1
      <3> QED
        BY <3>2, <3>3, <3>4
    <2> QED
      BY <2>7, <2>8
  <1>2. Cardinality(S) \in Nat /\ Cardinality(S) \notin Bad
    BY <1>1, FS_CardinalityType
  <1> QED
    BY <1>2

\* The lesson before another one is a lesson of the course.
LEMMA PreviousIsLesson ==
    ASSUME NEW S \in SUBSET Lessons, S # {}
    PROVE  Max(S) \in S
  <1>1. IsFiniteSet(S) /\ S \in SUBSET Nat
    BY CourseAssumption, CurriculumAssumption, FS_Subset
  <1>2. PICK x \in S : \A y \in S : x >= y
    BY <1>1, GreatestNatural
  <1> QED
    BY <1>2 DEF Max

-----------------------------------------------------------------------------
\* What waits for its review is not done: an approval counts as a change only when it is one
\* more.
LocksInv == LocksTypeOK /\ \A t \in pending : ~Done(t)

\* Edits, reviews, retakes and the clock keep it.
LEMMA LocksStep ==
    ASSUME LocksInv, [LocksNext]_locksVars
    PROVE  LocksInv'
  <1> USE DEF LocksInv, LocksTypeOK, Done, Never
  <1>1. /\ 0 \in 0..Longest /\ Longest \in Nat /\ MaxEdits \in Nat
        /\ \A t \in Tasks : t \in Lessons
    BY CurriculumAssumption, CourseAssumption
  <1>2. ASSUME NEW l \in Lessons, Complete(l) PROVE LocksInv'
    BY <1>1, <1>2 DEF Complete
  <1>3. ASSUME NEW t \in Tasks, Submit(t) PROVE LocksInv'
    BY <1>1, <1>3 DEF Submit
  <1>4. ASSUME NEW t \in Tasks, ApproveTask(t) PROVE LocksInv'
    <2>1. t \in Lessons /\ hours' = [hours EXCEPT ![t] = 0] /\ pending' = pending \ {t}
          /\ UNCHANGED <<modules, group, assigned, access>>
      BY <1>1, <1>4 DEF ApproveTask
    <2>2. edits' \in 0..MaxEdits
      BY <1>1, <1>4 DEF ApproveTask
    <2>3. hours' \in [Lessons -> {-1} \cup 0..Longest]
      BY <1>1, <2>1
    <2>4. \A u \in pending' : hours'[u] = -1
      BY <1>1, <2>1
    <2> QED
      BY <2>1, <2>2, <2>3, <2>4
  <1>5. ASSUME NEW t \in Tasks, Reject(t) PROVE LocksInv'
    BY <1>1, <1>5 DEF Reject
  <1>6. ASSUME NEW a \in {"active", "ended"}, ChangeAccess(a) PROVE LocksInv'
    BY <1>1, <1>6 DEF ChangeAccess, Edit
  <1>7. ASSUME NEW l \in Lessons, NEW g \in modules \cup {Ungrouped}, MoveLesson(l, g)
        PROVE  LocksInv'
    BY <1>1, <1>7 DEF MoveLesson, Edit
  <1>8. ASSUME NEW m \in ModuleIds, CreateModule(m) PROVE LocksInv'
    BY <1>1, <1>8 DEF CreateModule, Edit
  <1>9. ASSUME NEW t \in Tasks, CreateAssignment(t) PROVE LocksInv'
    BY <1>1, <1>9 DEF CreateAssignment, Edit
  <1>10. ASSUME NEW t \in Tasks, RemoveAssignment(t) PROVE LocksInv'
    BY <1>1, <1>10 DEF RemoveAssignment, Edit
  <1>11. ASSUME NEW m \in modules, RemoveModule(m) PROVE LocksInv'
    BY <1>1, <1>11 DEF RemoveModule, Edit
  <1>12. ASSUME HourPasses PROVE LocksInv'
    BY <1>1, <1>12 DEF HourPasses
  <1>13. CASE UNCHANGED locksVars
    BY <1>13 DEF locksVars
  <1> QED
    BY <1>2, <1>3, <1>4, <1>5, <1>6, <1>7, <1>8, <1>9, <1>10, <1>11, <1>12, <1>13
    DEF LocksNext

\* The invariant of the course and the learner's completions.
THEOREM LocksInvariant ==
    LocksSpec => []LocksInv
  <1>1. ASSUME LocksInit PROVE LocksInv
    BY <1>1, CurriculumAssumption DEF LocksInit, LocksTypeOK, LocksInv
  <1>2. LocksInv /\ [LocksNext]_locksVars => LocksInv'
    BY LocksStep
  <1> QED
    BY <1>1, <1>2, PTL DEF LocksSpec

\* However the course is edited, each lesson is in a module of the course or in none, and
\* each completion has its time.
THEOREM LocksTypeCorrect ==
    LocksSpec => []LocksTypeOK
  <1>1. LocksInv => LocksTypeOK
    BY DEF LocksInv
  <1> QED
    BY <1>1, LocksInvariant, PTL

\* What the learner did, and what time adds to it, is not taken back.
Later ==
    \A l \in Lessons : Done(l) => hours'[l] \in 0..Longest /\ hours[l] <= hours'[l]

\* No step but a review or a retake takes it back.
LEMMA LaterUnlessReviewed ==
    ASSUME LocksTypeOK, LocksTypeOK', [LocksNext]_locksVars,
           \A t \in Tasks : Done(t) =>
               hours'[t] \notin {Never, 0} \/ hours'[t] = hours[t]
    PROVE  Later
  <1> SUFFICES ASSUME NEW l \in Lessons, hours[l] # -1
               PROVE  hours'[l] \in 0..Longest /\ hours[l] <= hours'[l]
    BY DEF Later, Done, Never
  <1>1. hours \in [Lessons -> {-1} \cup 0..Longest] /\ hours' \in [Lessons -> {-1} \cup 0..Longest]
        /\ Longest \in Nat /\ hours[l] \in 0..Longest
    BY CurriculumAssumption DEF LocksTypeOK, Never
  <1>2. l \in Tasks => hours'[l] \notin {-1, 0} \/ hours'[l] = hours[l]
    BY DEF Done, Never
  <1>3. \/ hours'[l] = hours[l]
        \/ hours'[l] = hours[l] + 1
        \/ l \in Tasks /\ hours'[l] \in {-1, 0}
    BY <1>1 DEF LocksNext, locksVars, Complete, Submit, ApproveTask, Reject,
                ChangeAccess, MoveLesson, CreateModule, CreateAssignment,
                RemoveAssignment, RemoveModule, HourPasses, Done, Never
  <1> QED
    BY <1>1, <1>2, <1>3

\* A wait that is over stays over.
LEMMA WaitsEnd ==
    ASSUME NEW a \in Nat, NEW b \in Nat, NEW delay \in Nat, a <= b, Waits(b, delay)
    PROVE  Waits(a, delay)
  BY DEF Waits, Never

\* The lessons of a module, and those before a lesson, are lessons of the course.
LEMMA LessonsOfGroup ==
    \A g, x : In(g) \subseteq Lessons /\ Before(x, In(g)) \subseteq Lessons
  BY DEF In, Before

\* While the course is as it is and nothing is taken back, a module that is open stays so.
LEMMA ModuleStaysOpen ==
    ASSUME LocksTypeOK, Later, UNCHANGED <<modules, group>>,
           NEW m \in ModuleIds, ModuleLock(m) = "open"
    PROVE  ModuleLock(m)' = "open"
  <1>1. Before(m, modules)' = Before(m, modules) /\ \A g : In(g)' = In(g)
    BY DEF Before, In
  <1>2. CASE Before(m, modules) = {}
    BY <1>1, <1>2 DEF ModuleLock
  <1>3. CASE Before(m, modules) # {}
    <2>1. PICK g : g = Max(Before(m, modules))
      OBVIOUS
    <2>2. GroupDone(g) /\ ~Waits(DoneSince(g), ModuleDelay[m])
      BY <1>3, <2>1 DEF ModuleLock
    <2>3. GroupDone(g)'
      BY <1>1, <2>2 DEF GroupDone, In, Later, Done, Never
    <2>4. ~Waits(DoneSince(g), ModuleDelay[m])'
      <3>1. CASE In(g) = {}
        BY <1>1, <3>1 DEF DoneSince, Waits
      <3>2. CASE In(g) # {}
        <4> DEFINE old == {hours[l] : l \in In(g)}
                   new == {hours'[l] : l \in In(g)}
        <4>1. ASSUME NEW l \in In(g)
              PROVE  hours[l] \in Nat /\ hours'[l] \in Nat /\ hours[l] <= hours'[l]
          <5>1. l \in Lessons /\ Done(l)
            BY <2>2, LessonsOfGroup DEF GroupDone
          <5>2. hours[l] \in {-1} \cup 0..Longest /\ Longest \in Nat
            BY <5>1, CurriculumAssumption DEF Never, LocksTypeOK
          <5> QED
            BY <5>1, <5>2 DEF Later, Done, Never
        <4>2. old \in SUBSET Nat /\ old # {} /\ new \in SUBSET Nat /\ new # {}
          BY <3>2, <4>1
        <4>3. PICK a \in Nat : a = Min(old)
          BY <4>2, MinIsLeast
        <4>4. PICK b \in Nat : b = Min(new)
          BY <4>2, MinIsLeast
        <4>5. a <= b
          <5>1. b \in new
            BY <4>2, <4>4, MinIsLeast
          <5>2. PICK l \in In(g) : b = hours'[l]
            BY <5>1
          <5>3. a <= hours[l]
            BY <4>2, <4>3, MinIsLeast
          <5> QED
            BY <4>1, <5>2, <5>3
        <4>6. DoneSince(g) = a
          BY <2>2, <3>2, <4>3 DEF DoneSince
        <4>7. DoneSince(g)' = b
          BY <1>1, <2>3, <3>2, <4>4 DEF DoneSince, Min
        <4>8. ModuleDelay[m] \in Nat
          BY CurriculumAssumption
        <4>9. ~Waits(a, ModuleDelay[m])
          BY <2>2, <4>6
        <4>10. ~Waits(b, ModuleDelay[m])
          BY <4>5, <4>8, <4>9, WaitsEnd
        <4> HIDE DEF old, new
        <4> QED
          BY <4>7, <4>10 DEF Waits
      <3> QED
        BY <3>1, <3>2
    <2>5. Max(Before(m, modules))' = g
      BY <1>1, <2>1 DEF Max
    <2> QED
      BY <1>1, <1>3, <2>3, <2>4, <2>5 DEF ModuleLock
  <1> QED
    BY <1>2, <1>3

\* And so does a lesson in its sequence.
LEMMA SequenceStaysOpen ==
    ASSUME LocksTypeOK, Later, UNCHANGED group,
           NEW l \in Lessons, SequenceLock(l) = "open"
    PROVE  SequenceLock(l)' = "open"
  <1>1. PICK earlier \in SUBSET Lessons : earlier = Before(l, In(group[l]))
    BY LessonsOfGroup
  <1>2. Before(l, In(group[l]))' = earlier
    BY <1>1 DEF Before, In
  <1>3. CASE earlier = {}
    BY <1>2, <1>3 DEF SequenceLock
  <1>4. CASE earlier # {}
    <2>1. PICK k \in Lessons : k = Max(earlier)
      BY <1>4, PreviousIsLesson
    <2>2. Done(k) /\ ~Waits(hours[k], LessonDelay[l])
      BY <1>1, <1>4, <2>1 DEF SequenceLock
    <2>3. hours[k] \in Nat /\ hours'[k] \in Nat /\ hours[k] <= hours'[k]
      BY <2>2, CurriculumAssumption DEF Later, Done, Never, LocksTypeOK
    <2>4. LessonDelay[l] \in Nat
      BY CurriculumAssumption
    <2>5. ~Waits(hours'[k], LessonDelay[l])
      BY <2>2, <2>3, <2>4, WaitsEnd
    <2>6. Done(k)'
      BY <2>3 DEF Done, Never
    <2>7. Max(Before(l, In(group[l])))' = k
      BY <1>2, <2>1 DEF Max
    <2>8. ~Waits(hours[k], LessonDelay[l])'
      BY <2>5 DEF Waits
    <2> QED
      BY <1>2, <1>4, <2>6, <2>7, <2>8 DEF SequenceLock
  <1> QED
    BY <1>3, <1>4

\* For any course and any waits: while access lasts and the course stays as it is, a lesson
\* that was open closes again only when an assignment is handed in or reviewed once more.
THEOREM OpenLessonsStayOpen ==
    LocksSpec => RelockOnlyByReview
  <1>1. ASSUME LocksInv, LocksInv', [LocksNext]_locksVars, HasAccess, HasAccess',
               UNCHANGED <<modules, group>>,
               \A t \in Tasks : Done(t) =>
                   hours'[t] \notin {Never, 0} \/ hours'[t] = hours[t],
               NEW l \in Lessons, Open(l)
        PROVE  Open(l)'
    <2>1. Later /\ LocksTypeOK
      BY <1>1, LaterUnlessReviewed DEF LocksInv
    <2>2. CASE OpenPolicy
      <3>1. LockReason(l)' # "ACCESS"
        BY <1>1 DEF LockReason, ModuleLock, SequenceLock
      <3> QED
        BY <2>2, <3>1 DEF Open
    <2>3. CASE ~OpenPolicy
      <3>1. /\ group[l] = Ungrouped \/ ModuleLock(group[l]) = "open"
            /\ SequenceLock(l) = "open"
        BY <1>1, <2>3 DEF Open, LockReason
      <3>2. group[l] = Ungrouped \/ group[l] \in ModuleIds
        BY <2>1 DEF LocksTypeOK
      <3>3. group[l] = Ungrouped \/ ModuleLock(group[l])' = "open"
        <4> SUFFICES ASSUME group[l] # Ungrouped
                     PROVE  ModuleLock(group[l])' = "open"
          OBVIOUS
        <4>1. PICK m \in ModuleIds : m = group[l] /\ ModuleLock(m) = "open"
          BY <3>1, <3>2
        <4>2. ModuleLock(m)' = "open"
          BY <1>1, <2>1, <4>1, ModuleStaysOpen
        <4> QED
          BY <1>1, <4>1, <4>2 DEF ModuleLock
      <3>4. SequenceLock(l)' = "open"
        BY <1>1, <2>1, <3>1, SequenceStaysOpen
      <3>5. LockReason(l)' = "open"
        BY <1>1, <3>3, <3>4 DEF LockReason
      <3> QED
        BY <3>5 DEF Open
    <2> QED
      BY <2>2, <2>3
  <1>2. LocksInv /\ LocksInv' /\ [LocksNext]_locksVars =>
          [/\ HasAccess /\ HasAccess'
           /\ UNCHANGED <<modules, group>>
           /\ \A t \in Tasks : Done(t) =>
                  hours'[t] \notin {Never, 0} \/ hours'[t] = hours[t]
           => \A l \in Lessons : Open(l) => Open(l)']_locksVars
    BY <1>1
  <1> QED
    BY <1>2, LocksInvariant, PTL DEF LocksSpec, RelockOnlyByReview
=============================================================================
