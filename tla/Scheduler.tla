----------------------------- MODULE Scheduler -----------------------------
(***************************************************************************)
(* Scheduled broadcasts (NotificationsService): an in-process timer starts *)
(* runDueScheduled every minute whether or not the last run has ended.     *)
(* A run reads the due jobs once, broadcasts each to its recipients one by *)
(* one, and then rolls the job forward; admins cancel jobs meanwhile, the  *)
(* server restarts, days pass.  Instants are days, as jobs repeat daily.   *)
(***************************************************************************)
EXTENDS Integers, FiniteSets

CONSTANTS Jobs,      \* rows of ScheduledNotification
          Daily,     \* those of scheduleType "daily"; the others run once
          Users,     \* the segment's users
          Runs,      \* runs of the poller at once
          MaxDay,    \* bound: the last day
          MaxCrashes \* bound: restarts and failed queries

ASSUME SchedulerAssumption ==
    /\ Daily \subseteq Jobs /\ IsFiniteSet(Jobs) /\ IsFiniteSet(Users) /\ IsFiniteSet(Runs)
    /\ MaxDay \in Nat /\ MaxCrashes \in Nat

Never == -1
IdleRun == [pc |-> "idle"]

VARIABLES today,
          next,       \* job -> nextRunAt, or Never before it is scheduled
          active,     \* jobs with active = true
          cancelled,  \* jobs an admin has cancelled (history)
          run,        \* run -> its day, the due rows it read, the recipients left
          told,       \* job, user -> day of the run that notified last (history)
          again,      \* <<job, user>> notified twice for one day, or by a one-off (history)
          overlapped, \* have two runs been under way at once? (history)
          crashes

jobs == <<next, active, cancelled>>
history == <<told, again>>
pollerVars == <<today, jobs, run, history, overlapped, crashes>>

Days == 0..MaxDay + 1

PollerTypeOK ==
    /\ today \in 0..MaxDay
    /\ next \in [Jobs -> Days \cup {Never}]
    /\ active \subseteq Jobs /\ cancelled \subseteq Jobs
    /\ run \in [Runs ->
         {IdleRun}
         \cup [pc : {"pick"}, day : 0..MaxDay, due : [Jobs -> Days \cup {Never}]]
         \cup [pc : {"send"}, day : 0..MaxDay, due : [Jobs -> Days \cup {Never}],
               job : Jobs, left : SUBSET Users]]
    /\ told \in [Jobs \X Users -> 0..MaxDay \cup {Never}]
    /\ again \subseteq Jobs \X Users
    /\ overlapped \in BOOLEAN /\ crashes \in 0..MaxCrashes

PollerInit ==
    /\ today = 0
    /\ next = [j \in Jobs |-> Never] /\ active = {} /\ cancelled = {}
    /\ run = [r \in Runs |-> IdleRun]
    /\ told = [p \in Jobs \X Users |-> Never] /\ again = {}
    /\ overlapped = FALSE /\ crashes = 0

-----------------------------------------------------------------------------
RunAt(r, pc) == run[r].pc = pc
RunGoes(r, v) == run' = [run EXCEPT ![r] = v]
Go == UNCHANGED <<today, overlapped, crashes>>

\* scheduleBroadcast takes any instant, past ones too.
Schedule(j) ==
    /\ next[j] = Never
    /\ \E d \in 0..MaxDay : next' = [next EXCEPT ![j] = d]
    /\ active' = active \cup {j}
    /\ Go /\ UNCHANGED <<cancelled, run, history>>

Cancel(j) ==
    /\ j \in active
    /\ active' = active \ {j}
    /\ cancelled' = cancelled \cup {j}
    /\ Go /\ UNCHANGED <<next, run, history>>

\* Mutant of Due: a job that is due at this very instant waits.
DueBefore == {j \in active : next[j] < today}

Due == {j \in active : next[j] <= today}

\* runDueScheduled reads the rows that are due.
Tick(r) ==
    /\ RunAt(r, "idle")
    /\ RunGoes(r, [pc |-> "pick", day |-> today,
                   due |-> [j \in Jobs |-> IF j \in Due THEN next[j] ELSE Never]])
    /\ overlapped' = (overlapped \/ \E s \in Runs : ~RunAt(s, "idle"))
    /\ UNCHANGED <<today, jobs, history, crashes>>

DueRows(r) == {j \in Jobs : run[r].due[j] # Never}

\* The next row, and broadcast resolves its recipients; when that fails nobody is told.
Pick(r) ==
    /\ RunAt(r, "pick") /\ DueRows(r) # {}
    /\ \E j \in DueRows(r), left \in {{}, Users} :
         RunGoes(r, [pc |-> "send", day |-> run[r].day, due |-> run[r].due,
                     job |-> j, left |-> left])
    /\ Go /\ UNCHANGED <<jobs, history>>

EndRun(r) ==
    /\ RunAt(r, "pick") /\ DueRows(r) = {}
    /\ RunGoes(r, IdleRun)
    /\ Go /\ UNCHANGED <<jobs, history>>

\* create, one recipient after another; a failure skips the recipient.
Send(r) ==
    /\ RunAt(r, "send")
    /\ \E u \in run[r].left :
         /\ RunGoes(r, [run[r] EXCEPT !.left = @ \ {u}])
         /\ \/ UNCHANGED history
            \/ LET p == <<run[r].job, u>>
               IN  /\ told' = [told EXCEPT ![p] = run[r].day]
                   /\ again' = IF told[p] = run[r].day \/ (told[p] # Never /\ run[r].job \notin Daily)
                               THEN again \cup {p} ELSE again
    /\ Go /\ UNCHANGED jobs

\* Mutant of Roll: one day forward, even if that day has passed.
RollOneDay(j, at, day) == at + 1

\* 24 hours at a time until it is after the run's start.
Roll(j, at, day) == IF at < day THEN day + 1 ELSE at + 1

Drop(r) == [pc |-> "pick", day |-> run[r].day, due |-> [run[r].due EXCEPT ![run[r].job] = Never]]

\* Mutant of Finish: the job is written back as it was read.
FinishAll(r) ==
    /\ RunAt(r, "send") /\ run[r].left = {}
    /\ LET j == run[r].job
       IN  /\ next' = [next EXCEPT ![j] = Roll(j, run[r].due[j], run[r].day)]
           /\ active' = IF j \in Daily THEN active \cup {j} ELSE active \ {j}
    /\ RunGoes(r, Drop(r))
    /\ Go /\ UNCHANGED <<cancelled, history>>

\* A daily job rolls forward from what was read; a one-off becomes inactive.  Sent or not.
Finish(r) ==
    /\ RunAt(r, "send") /\ run[r].left = {}
    /\ LET j == run[r].job
       IN  IF j \in Daily
           THEN next' = [next EXCEPT ![j] = Roll(j, run[r].due[j], run[r].day)] /\ UNCHANGED active
           ELSE active' = active \ {j} /\ UNCHANGED next
    /\ RunGoes(r, Drop(r))
    /\ Go /\ UNCHANGED <<cancelled, history>>

\* One run dies with a failed query, or all with the server.
RunsFail(S) ==
    /\ crashes < MaxCrashes
    /\ \E r \in S : ~RunAt(r, "idle")
    /\ crashes' = crashes + 1
    /\ run' = [r \in Runs |-> IF r \in S THEN IdleRun ELSE run[r]]
    /\ UNCHANGED <<today, jobs, history, overlapped>>

Day ==
    /\ today < MaxDay
    /\ today' = today + 1
    /\ UNCHANGED <<jobs, run, history, overlapped, crashes>>

PollerNext ==
    \/ \E j \in Jobs : Schedule(j) \/ Cancel(j)
    \/ \E r \in Runs : Tick(r) \/ Pick(r) \/ EndRun(r) \/ Send(r) \/ Finish(r)
    \/ \E S \in {{r} : r \in Runs} \cup {Runs} : RunsFail(S)
    \/ Day

\* The timer fires again and again, and a run goes on to its end.
PollerSpec ==
    /\ PollerInit /\ [][PollerNext]_pollerVars
    /\ \A r \in Runs : /\ WF_pollerVars(Tick(r))
                       /\ WF_pollerVars(Pick(r) \/ EndRun(r) \/ Send(r) \/ Finish(r))

-----------------------------------------------------------------------------
\* As long as runs do not overlap and none is cut short, nobody hears the same broadcast
\* twice for one day, even after days without a server, and a one-off only once.
NotTwiceADay == ~overlapped /\ crashes = 0 => again = {}

\* A cancelled broadcast stays cancelled, whatever run was on it.
CancelledStays == cancelled \cap active = {}

\* A due broadcast does not stay due: whatever fails, a run takes it and moves it on.
DueIsDispatched ==
    \A j \in Jobs : j \in active /\ next[j] <= today ~> j \notin active \/ next[j] > today
=============================================================================
