----------------------------- MODULE Curriculum -----------------------------
(***************************************************************************)
(* CoursesService.findOne: which lessons of a course a learner may open.   *)
(*                                                                         *)
(* Modules open one after the other and so do the lessons in a module,     *)
(* some of them ("drip") only a number of hours after the one before was   *)
(* completed.  The verdict is computed on every load from the course's     *)
(* structure, which an admin edits meanwhile, from the learner's lesson    *)
(* completions and, for assignments, from the review of what was handed    *)
(* in.  The clock is kept as the hours since each completion, counted up   *)
(* to the longest wait.  Lessons and modules are named by their index.     *)
(***************************************************************************)
EXTENDS Course

CONSTANTS ModuleIds,    \* modules, named by CourseModule.index
          Previews,     \* the lessons with isPreview
          LessonDelay,  \* lesson -> hours to wait; 0 is lockMode SINGLE
          ModuleDelay,  \* module -> hours to wait; 0 is lockMode SINGLE
          OpenPolicy,   \* Course.unlockPolicy = "OPEN"
          Longest,      \* hours are told apart up to the longest wait
          MaxEdits      \* bound: changes to the course, to access, and retakes

ASSUME CurriculumAssumption ==
    /\ Lessons \subseteq Nat /\ ModuleIds \subseteq Nat \ {0} /\ IsFiniteSet(ModuleIds)
    /\ Previews \subseteq Lessons
    /\ Longest \in Nat /\ MaxEdits \in Nat
    /\ LessonDelay \in [Lessons -> 0..Longest] /\ ModuleDelay \in [ModuleIds -> 0..Longest]
    /\ OpenPolicy \in BOOLEAN

Ungrouped == 0

VARIABLES modules,  \* the modules of the course
          group,    \* lesson -> its module, or Ungrouped
          assigned, \* the assignment lessons that have their Assignment row
          hours,    \* lesson -> hours since it was completed, or approved; or Never
          pending,  \* assignments handed in and not approved
          access,   \* Enrollment: none, in its window, or revoked or expired
          edits     \* changes made so far, for the bound

locksVars == <<modules, group, assigned, hours, pending, access, edits>>

LocksTypeOK ==
    /\ modules \subseteq ModuleIds
    /\ group \in [Lessons -> modules \cup {Ungrouped}]
    /\ assigned \subseteq Tasks
    /\ hours \in [Lessons -> {Never} \cup 0..Longest]
    /\ pending \subseteq Tasks
    /\ access \in {"none", "active", "ended"}
    /\ edits \in 0..MaxEdits

LocksInit ==
    /\ modules = ModuleIds
    /\ group \in [Lessons -> modules \cup {Ungrouped}]
    /\ assigned = Tasks
    /\ hours = [l \in Lessons |-> Never]
    /\ pending = {}
    /\ access \in {"none", "active"}
    /\ edits = 0

-----------------------------------------------------------------------------
HasAccess == access = "active"

\* For an assignment: approved, whatever its lesson's own completion says.  Without
\* its Assignment row an assignment lesson is never done.
Done(l) == hours[l] # Never

In(g) == {l \in Lessons : group[l] = g}

GroupDone(g) == \A l \in In(g) : Done(l)

Before(x, S) == {y \in S : y < x}

Waits(since, delay) == delay > 0 /\ since # Never /\ since < delay

\* Hours since the last lesson of a module was completed; an empty one has none.
DoneSince(m) ==
    IF In(m) # {} /\ GroupDone(m) THEN Min({hours[l] : l \in In(m)}) ELSE Never

\* Mutant of ModuleLock: a module waits for its own lessons.
ModuleLockSelf(m) == IF ~GroupDone(m) THEN "PREV_MODULE" ELSE "open"

\* Only the module just before counts.
ModuleLock(m) ==
    LET previous == Max(Before(m, modules))
    IN  IF Before(m, modules) = {} THEN "open"
        ELSE IF ~GroupDone(previous) THEN "PREV_MODULE"
        ELSE IF Waits(DoneSince(previous), ModuleDelay[m]) THEN "MODULE_TIME" ELSE "open"

\* A lesson waits for the one before it in its group.
SequenceLock(l) ==
    LET earlier == Before(l, In(group[l]))
        previous == Max(earlier)
    IN  IF earlier = {} THEN "open"
        ELSE IF ~Done(previous) THEN "PREV_LESSON"
        ELSE IF Waits(hours[previous], LessonDelay[l]) THEN "TIME" ELSE "open"

\* lockReason, "open" for null.
LockReason(l) ==
    IF ~HasAccess THEN IF l \in Previews THEN "open" ELSE "ACCESS"
    ELSE IF group[l] # Ungrouped /\ ModuleLock(group[l]) # "open" THEN ModuleLock(group[l])
    ELSE SequenceLock(l)

\* The OPEN policy keeps only the access lock.
Open(l) == LockReason(l) = "open" \/ (OpenPolicy /\ LockReason(l) # "ACCESS")

-----------------------------------------------------------------------------
\* Mutant of Complete: completing again restarts the wait of the next lesson.
CompleteAnew(l) ==
    /\ l \notin Tasks
    /\ hours' = [hours EXCEPT ![l] = 0]
    /\ UNCHANGED <<modules, group, assigned, pending, access, edits>>

\* A lesson is completed; doing so again keeps the first time.  The server does not
\* ask whether the lesson is open.
Complete(l) ==
    /\ l \notin Tasks
    /\ hours' = [hours EXCEPT ![l] = IF Done(l) THEN @ ELSE 0]
    /\ UNCHANGED <<modules, group, assigned, pending, access, edits>>

\* submitAssignment, the first time or a retake, which undoes the approval.
Submit(t) ==
    /\ t \in assigned
    /\ Done(t) \/ t \in pending => edits < MaxEdits
    /\ edits' = IF Done(t) \/ t \in pending THEN edits + 1 ELSE edits
    /\ pending' = pending \cup {t}
    /\ hours' = [hours EXCEPT ![t] = Never]
    /\ UNCHANGED <<modules, group, assigned, access>>

\* gradeSubmission: approving once more restarts the wait of what follows.
ApproveTask(t) ==
    /\ t \in pending \/ (Done(t) /\ edits < MaxEdits)
    /\ edits' = IF Done(t) THEN edits + 1 ELSE edits
    /\ pending' = pending \ {t}
    /\ hours' = [hours EXCEPT ![t] = 0]
    /\ UNCHANGED <<modules, group, assigned, access>>

\* gradeSubmission takes an approval back.
Reject(t) ==
    /\ Done(t) /\ edits < MaxEdits
    /\ edits' = edits + 1
    /\ pending' = pending \cup {t}
    /\ hours' = [hours EXCEPT ![t] = Never]
    /\ UNCHANGED <<modules, group, assigned, access>>

Edit == edits < MaxEdits /\ edits' = edits + 1

\* enroll, grantAccess; revokeAccess or the end of the access window.
ChangeAccess(a) ==
    /\ Edit
    /\ a = "ended" => access = "active"
    /\ access' = a
    /\ UNCHANGED <<modules, group, assigned, hours, pending>>

\* updateLesson
MoveLesson(l, g) ==
    /\ Edit
    /\ group' = [group EXCEPT ![l] = g]
    /\ UNCHANGED <<modules, assigned, hours, pending, access>>

\* createModule
CreateModule(m) ==
    /\ Edit
    /\ m \notin modules
    /\ modules' = modules \cup {m}
    /\ UNCHANGED <<group, assigned, hours, pending, access>>

\* createAssignment
CreateAssignment(t) ==
    /\ Edit
    /\ assigned' = assigned \cup {t}
    /\ UNCHANGED <<modules, group, hours, pending, access>>

\* removeAssignment: the submissions go with it, and the lesson can never be done.
RemoveAssignment(t) ==
    /\ Edit
    /\ assigned' = assigned \ {t}
    /\ pending' = pending \ {t}
    /\ hours' = [hours EXCEPT ![t] = Never]
    /\ UNCHANGED <<modules, group, access>>

\* removeModule: its lessons survive ungrouped.
RemoveModule(m) ==
    /\ Edit
    /\ modules' = modules \ {m}
    /\ group' = [l \in Lessons |-> IF group[l] = m THEN Ungrouped ELSE group[l]]
    /\ UNCHANGED <<assigned, hours, pending, access>>

\* An hour passes.
HourPasses ==
    /\ hours' = [l \in Lessons |-> IF Done(l) /\ hours[l] < Longest THEN hours[l] + 1 ELSE hours[l]]
    /\ UNCHANGED <<modules, group, assigned, pending, access, edits>>

LocksNext ==
    \/ \E l \in Lessons : Complete(l)
    \/ \E l \in Lessons, g \in modules \cup {Ungrouped} : MoveLesson(l, g)
    \/ \E t \in Tasks : Submit(t) \/ ApproveTask(t) \/ Reject(t)
    \/ \E t \in Tasks : (t \notin assigned /\ CreateAssignment(t))
                        \/ (t \in assigned /\ RemoveAssignment(t))
    \/ \E a \in {"active", "ended"} : ChangeAccess(a)
    \/ \E m \in ModuleIds : CreateModule(m)
    \/ \E m \in modules : RemoveModule(m)
    \/ HourPasses

\* The learner works through what is open, the instructor reviews what is handed in.
Study(l) == ~Done(l) /\ Open(l) /\ IF l \in Tasks THEN Submit(l) /\ l \notin pending ELSE Complete(l)

LocksSpec ==
    /\ LocksInit /\ [][LocksNext]_locksVars
    /\ WF_locksVars(\E l \in Lessons : Study(l))
    /\ WF_locksVars(\E t \in Tasks : t \in pending /\ ApproveTask(t))
    /\ WF_locksVars(HourPasses)

-----------------------------------------------------------------------------
\* However modules and waits are arranged and rearranged, a learner who keeps access
\* and keeps at it finishes the course: the locks never leave anyone stuck, as long as
\* every assignment lesson has its assignment.
CourseIsFinished ==
    <>[](HasAccess /\ assigned = Tasks) => <>(\A l \in Lessons : Done(l))

\* While access lasts and the course stays as it is, a lesson that was open closes
\* again only when an assignment is handed in or reviewed once more; never because the
\* learner went on, or time passed.
RelockOnlyByReview ==
    [][/\ HasAccess /\ HasAccess'
       /\ UNCHANGED <<modules, group>>
       /\ \A t \in Tasks : Done(t) => hours'[t] \notin {Never, 0} \/ hours'[t] = hours[t]
       => \A l \in Lessons : Open(l) => Open(l)']_locksVars
=============================================================================
