SPECIFICATION Spec
CONSTANTS
  NoLesson = NoLesson
  Request = {r1, r2}
  Lessons = {video, task}
  Tasks = {task}
  QuizLessons = {video}
  MaxAttempts = 1
  Full = 20
  Reports = {10, 19}
  MaxClock = 1
  MaxManual = 1
CONSTRAINT RowsBound
SYMMETRY Symmetry
INVARIANTS
  CertificatesWithinOverlap
  AttemptsWithinOverlap
  ProgressIsEarned
  CompletedIsCertified
PROPERTIES
  ForwardUnlessOverlapped
