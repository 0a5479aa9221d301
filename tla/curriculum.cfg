SPECIFICATION LocksSpec
CONSTANTS
  Lessons = {1, 2, 3}
  ModuleIds = {1, 2}
  Tasks = {2}
  Previews = {1}
  LessonDelay <- MCLessonDelay
  ModuleDelay <- MCModuleDelay
  OpenPolicy = FALSE
  Longest = 1
  MaxEdits = 3
PROPERTIES
  CourseIsFinished
  RelockOnlyByReview
