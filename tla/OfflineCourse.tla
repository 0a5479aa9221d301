---------------------------- MODULE OfflineCourse ----------------------------
(***************************************************************************)
(* The offline copies of a course's videos in the mobile app               *)
(* (offlineCourseSecure.ts and the screens that call it).                  *)
(*                                                                         *)
(* A copy is a file, a token in the keychain and an entry in one manifest  *)
(* that every flow reads, changes and writes back, with awaits in between: *)
(* the flows interleave, the app may be killed inside one, and a call of   *)
(* the device may fail.  The server grants a token until the reconnect     *)
(* deadline, never longer than access, and for a preview to anyone.        *)
(* Instants are abstracted to what the app asks of them: an entry is       *)
(* "fresh" before its deadline, "lapsed" after it, "over" once the access  *)
(* window it recorded has ended; "legacy" is one saved without a token.    *)
(***************************************************************************)
EXTENDS Naturals, FiniteSets

CONSTANTS Lessons,    \* the downloadable video lessons of a course
          Tasks,      \* flows that may run at once
          MaxMishaps, \* bound: kills of the app and calls of the device that fail
          MaxGrants   \* bound: times access is granted again

ASSUME OfflineCourseAssumption ==
    /\ IsFiniteSet(Lessons) /\ IsFiniteSet(Tasks)
    /\ MaxMishaps \in Nat /\ MaxGrants \in Nat

VARIABLES access,     \* the server's verdict: active, revoked or expired
          grants,     \* times access was granted again
          previews,   \* lessons anyone may watch
          file,       \* lessons whose file is on the device
          keys,       \* lessons whose token is in the keychain
          manifest,   \* lesson -> entry
          task,       \* task -> the flow it runs
          flowsMet,   \* have two flows run at the same time? (history)
          mishaps     \* kills and failed calls so far (history)

device == <<file, keys, manifest>>
verdict == <<access, grants, previews>>
copiesVars == <<verdict, device, task, flowsMet, mishaps>>

Entries == {"none", "legacy", "fresh", "lapsed", "over"}
Manifests == [Lessons -> Entries]
NoEntries == [l \in Lessons |-> "none"]
IdleTask == [pc |-> "idle"]

\* Where a flow has a ticket in hand.
Savings == {"fetch", "store", "list", "restore", "relist"}

TaskRecords ==
    {IdleTask}
    \cup [pc : Savings, lesson : Lessons, ticket : Entries \ {"none"}]
    \cup [pc : {"write"}, copy : Manifests]
    \cup [pc : {"rewrite"}, lesson : Lessons, copy : Manifests]
    \cup [pc : {"deleteFile", "deleteToken", "unlist", "entry"}, lesson : Lessons]
    \cup [pc : {"check", "refresh"}, lesson : Lessons, entry : Entries \ {"none"}]
    \cup [pc : {"play"}, lesson : Lessons, entry : Entries,
          by : {"device", "unread", "server", "late"}]
    \cup [pc : {"readToWipe"}]
    \cup [pc : {"wipe"}, todo : SUBSET Lessons]
    \cup [pc : {"wipeToken"}, lesson : Lessons, todo : SUBSET Lessons]

CopiesTypeOK ==
    /\ access \in {"active", "revoked", "expired"} /\ grants \in 0..MaxGrants
    /\ previews \subseteq Lessons
    /\ file \subseteq Lessons /\ keys \subseteq Lessons /\ manifest \in Manifests
    /\ flowsMet \in BOOLEAN /\ mishaps \in 0..MaxMishaps
    /\ task \in [Tasks -> TaskRecords]

CopiesInit ==
    /\ access = "active" /\ grants = 0 /\ previews \in SUBSET Lessons
    /\ file = {} /\ keys = {}
    /\ manifest = NoEntries
    /\ task = [t \in Tasks |-> IdleTask]
    /\ flowsMet = FALSE /\ mishaps = 0

-----------------------------------------------------------------------------
TaskAt(t, pc) == task[t].pc = pc
TaskGoes(t, r) == task' = [task EXCEPT ![t] = r]
End(t) == TaskGoes(t, IdleTask)
Quiet == \A t \in Tasks : task[t] = IdleTask

StartTask(t, r) ==
    /\ TaskAt(t, "idle")
    /\ TaskGoes(t, r)
    /\ flowsMet' = (flowsMet \/ ~Quiet)
    /\ UNCHANGED mishaps

GoOn == UNCHANGED <<flowsMet, mishaps>>

\* A call of the device (storage, keychain, file system, a broken transfer) fails.
Fault ==
    /\ mishaps < MaxMishaps
    /\ mishaps' = mishaps + 1
    /\ UNCHANGED flowsMet

Removal(l) == [pc |-> "deleteFile", lesson |-> l]
Saving(pc, l, ticket) == [pc |-> pc, lesson |-> l, ticket |-> ticket]
Plays(l, entry, by) == [pc |-> "play", lesson |-> l, entry |-> entry, by |-> by]

\* canAccessKey, generateDownloadToken
Granted(l) == access = "active" \/ l \in previews

\* What a token says: a preview is granted with the end of a window that may be over.
Terms == [active |-> {"fresh"}, revoked |-> {"fresh", "over"}, expired |-> {"over"}][access]

\* readManifest returns no entries when the read fails.
Read(m) ==
    \/ m = manifest /\ GoOn
    \/ m = NoEntries /\ Fault

\* A call fails that nobody catches: the flow ends where it is.
GiveUp(t) ==
    /\ \E pc \in {"list", "write", "deleteFile", "wipe", "entry"} : TaskAt(t, pc)
    /\ End(t)
    /\ Fault /\ UNCHANGED <<verdict, device>>

-----------------------------------------------------------------------------
(* download, downloadAll: sign, ask for a token, fetch, store, list.       *)

\* Any failure of the token request falls back to a copy without one.
Download(t, l) ==
    /\ Granted(l)
    /\ \E ticket \in Terms \cup {"legacy"} : StartTask(t, Saving("fetch", l, ticket))
    /\ UNCHANGED <<verdict, device>>

\* downloadAsync, over whatever was there.
Arrive(t) ==
    /\ file' = file \cup {task[t].lesson}
    /\ TaskGoes(t, [task[t] EXCEPT !.pc = IF task[t].ticket = "legacy" THEN "list" ELSE "store"])
    /\ GoOn

\* It rejects, with the old file there, none, or part of a new one.
BreakOff(t) ==
    /\ file' \in {file, file \cup {task[t].lesson}}
    /\ End(t)
    /\ Fault

\* Mutant of Fetch: what came with a bad answer stays.
FetchAndLeave(t) ==
    /\ TaskAt(t, "fetch")
    /\ \/ Arrive(t) \/ BreakOff(t)
       \/ file' = file \cup {task[t].lesson} /\ End(t) /\ GoOn
    /\ UNCHANGED <<verdict, keys, manifest>>

\* A bad answer deletes the file.
Fetch(t) ==
    /\ TaskAt(t, "fetch")
    /\ \/ Arrive(t) \/ BreakOff(t)
       \/ file' = file \ {task[t].lesson} /\ End(t) /\ GoOn
    /\ UNCHANGED <<verdict, keys, manifest>>

\* The token, then its key; a refresh catches what they throw.
StoreToken(t) ==
    LET l == task[t].lesson
        first == TaskAt(t, "store")
    IN  /\ first \/ TaskAt(t, "restore")
        /\ \/ /\ keys' = keys \cup {l}
              /\ TaskGoes(t, [task[t] EXCEPT !.pc = IF first THEN "list" ELSE "relist"])
              /\ GoOn
           \/ /\ keys' \in {keys, keys \cup {l}}
              /\ TaskGoes(t, IF first THEN IdleTask ELSE Plays(l, task[t].ticket, "late"))
              /\ Fault
        /\ UNCHANGED <<verdict, file, manifest>>

\* To put in the entry of a download.
ReadToList(t) ==
    /\ TaskAt(t, "list")
    /\ \E m \in {manifest, NoEntries} :
         /\ Read(m)
         /\ TaskGoes(t, [pc |-> "write",
                         copy |-> [m EXCEPT ![task[t].lesson] = task[t].ticket]])
    /\ UNCHANGED <<verdict, device>>

\* writeManifest writes back the whole of what was read.
WriteManifest(t) ==
    /\ TaskAt(t, "write")
    /\ manifest' = task[t].copy
    /\ End(t)
    /\ GoOn /\ UNCHANGED <<verdict, file, keys>>

-----------------------------------------------------------------------------
(* removeLesson, from the button or from the player.                       *)

Remove(t, l) ==
    /\ StartTask(t, Removal(l))
    /\ UNCHANGED <<verdict, device>>

\* Mutant of DeleteFile: the file stays when the token and the entry go.
DeleteNothing(t) ==
    /\ TaskAt(t, "deleteFile")
    /\ TaskGoes(t, [task[t] EXCEPT !.pc = "deleteToken"])
    /\ GoOn /\ UNCHANGED <<verdict, device>>

DeleteFile(t) ==
    /\ TaskAt(t, "deleteFile")
    /\ file' = file \ {task[t].lesson}
    /\ TaskGoes(t, [task[t] EXCEPT !.pc = "deleteToken"])
    /\ GoOn /\ UNCHANGED <<verdict, keys, manifest>>

\* A keychain that fails is ignored.
DropToken(l) ==
    \/ keys' = keys \ {l} /\ GoOn
    \/ keys' = keys /\ Fault

DeleteToken(t) ==
    /\ TaskAt(t, "deleteToken")
    /\ DropToken(task[t].lesson)
    /\ TaskGoes(t, [task[t] EXCEPT !.pc = "unlist"])
    /\ UNCHANGED <<verdict, file, manifest>>

ReadToUnlist(t) ==
    /\ TaskAt(t, "unlist")
    /\ \E m \in {manifest, NoEntries} :
         /\ Read(m)
         /\ TaskGoes(t, [pc |-> "write", copy |-> [m EXCEPT ![task[t].lesson] = "none"]])
    /\ UNCHANGED <<verdict, device>>

-----------------------------------------------------------------------------
(* A course load that reports no access: enforceCourseAccess, removeCourse. *)

\* Mutant of Load: only an expired window counts, not a revoked one.
LoadExpiredOnly(t) ==
    /\ access = "expired"
    /\ StartTask(t, [pc |-> "readToWipe"])
    /\ UNCHANGED <<verdict, device>>

Load(t) ==
    /\ access # "active"
    /\ StartTask(t, [pc |-> "readToWipe"])
    /\ UNCHANGED <<verdict, device>>

ReadToWipe(t) ==
    /\ TaskAt(t, "readToWipe")
    /\ \E m \in {manifest, NoEntries} :
         /\ Read(m)
         /\ TaskGoes(t, [pc |-> "wipe", todo |-> {l \in Lessons : m[l] # "none"}])
    /\ UNCHANGED <<verdict, device>>

WipeFile(t) ==
    /\ TaskAt(t, "wipe")
    /\ \E l \in task[t].todo :
         /\ file' = file \ {l}
         /\ TaskGoes(t, [pc |-> "wipeToken", lesson |-> l, todo |-> task[t].todo \ {l}])
    /\ GoOn /\ UNCHANGED <<verdict, keys, manifest>>

WipeToken(t) ==
    /\ TaskAt(t, "wipeToken")
    /\ DropToken(task[t].lesson)
    /\ TaskGoes(t, [pc |-> "wipe", todo |-> task[t].todo])
    /\ UNCHANGED <<verdict, file, manifest>>

\* The manifest as it was read, less every entry of the course.
WipeManifest(t) ==
    /\ TaskAt(t, "wipe") /\ task[t].todo = {}
    /\ manifest' = NoEntries
    /\ End(t)
    /\ GoOn /\ UNCHANGED <<verdict, file, keys>>

-----------------------------------------------------------------------------
(* validateAndGetLocalUri, each time the player opens a lesson.            *)

Play(t, l) ==
    /\ l \in file
    /\ StartTask(t, [pc |-> "entry", lesson |-> l])
    /\ UNCHANGED <<verdict, device>>

\* Past the access window the copy goes.
ReadEntry(t) ==
    /\ TaskAt(t, "entry")
    /\ \E m \in {manifest, NoEntries} :
         /\ Read(m)
         /\ LET l == task[t].lesson
            IN  TaskGoes(t, IF m[l] = "none" THEN IdleTask
                            ELSE IF m[l] = "over" THEN Removal(l)
                            ELSE [pc |-> "check", lesson |-> l, entry |-> m[l]])
    /\ UNCHANGED <<verdict, device>>

\* Mutant of Valid: a stored token is enough.
ValidAnyway(t) == TRUE

\* A copy without a token is valid; one with a token is valid until its deadline.
Valid(t) == task[t].lesson \notin keys \/ task[t].entry = "fresh"

\* A token the keychain fails to return counts as none.
Check(t) ==
    /\ TaskAt(t, "check")
    /\ \/ Valid(t) /\ TaskGoes(t, Plays(task[t].lesson, task[t].entry, "device")) /\ GoOn
       \/ ~Valid(t) /\ TaskGoes(t, [task[t] EXCEPT !.pc = "refresh"]) /\ GoOn
       \/ TaskGoes(t, Plays(task[t].lesson, task[t].entry, "unread")) /\ Fault
    /\ UNCHANGED <<verdict, device>>

\* Reconnect: a new token; or access is denied or the device signed out, and the copy goes;
\* or no usable answer, and the copy is handed out as lapsed.
Refresh(t) ==
    /\ TaskAt(t, "refresh")
    /\ LET l == task[t].lesson
       IN  \/ Granted(l) /\ \E ticket \in Terms : TaskGoes(t, Saving("restore", l, ticket))
           \/ TaskGoes(t, Removal(l))
           \/ TaskGoes(t, Plays(l, task[t].entry, "late"))
    /\ GoOn /\ UNCHANGED <<verdict, device>>

\* The entry of a refresh is changed if there still is one.
ReadToRelist(t) ==
    /\ TaskAt(t, "relist")
    /\ \E m \in {manifest, NoEntries} :
         /\ Read(m)
         /\ LET l == task[t].lesson
                ticket == task[t].ticket
            IN  TaskGoes(t, IF m[l] = "none" THEN Plays(l, ticket, "server")
                            ELSE [pc |-> "rewrite", lesson |-> l,
                                  copy |-> [m EXCEPT ![l] = ticket]])
    /\ UNCHANGED <<verdict, device>>

Rewrite(t) ==
    /\ TaskAt(t, "rewrite")
    /\ LET l == task[t].lesson
           copy == task[t].copy
       IN  \/ manifest' = copy /\ TaskGoes(t, Plays(l, copy[l], "server")) /\ GoOn
           \/ UNCHANGED manifest /\ TaskGoes(t, Plays(l, copy[l], "late")) /\ Fault
    /\ UNCHANGED <<verdict, file, keys>>

\* The player takes the copy, also one handed out as lapsed: it shows a warning with it.
PlayBack(t) ==
    /\ TaskAt(t, "play")
    /\ End(t)
    /\ GoOn /\ UNCHANGED <<verdict, device>>

-----------------------------------------------------------------------------
(* Time, the server and the operating system.                              *)

\* Everything dated, in the manifest and in hand, moves on.
Aged(e, l, S, old, new) == IF l \in S /\ e \in old THEN new ELSE e

Age(m, S, old, new) == [l \in Lessons |-> Aged(m[l], l, S, old, new)]

AgeInHand(r, S, old, new) ==
    IF r.pc \in {"write", "rewrite"} THEN [r EXCEPT !.copy = Age(r.copy, S, old, new)]
    ELSE IF r.pc \in Savings THEN [r EXCEPT !.ticket = Aged(r.ticket, r.lesson, S, old, new)]
    ELSE IF r.pc \in {"check", "refresh"} THEN
        [r EXCEPT !.entry = Aged(r.entry, r.lesson, S, old, new)]
    ELSE r

AgeAll(S, old, new) ==
    /\ manifest' = Age(manifest, S, old, new)
    /\ task' = [t \in Tasks |-> AgeInHand(task[t], S, old, new)]

\* The reconnect deadline of what is saved passes.
Lapse(l) ==
    /\ manifest[l] = "fresh"
    /\ AgeAll({l}, {"fresh"}, "lapsed")
    /\ UNCHANGED <<verdict, file, keys, flowsMet, mishaps>>

\* The access window ends, revoked or not, and with it every deadline of the copies that
\* recorded it.
Expire(S) ==
    /\ access # "expired"
    /\ access' = IF access = "active" THEN "expired" ELSE access
    /\ AgeAll(S, {"fresh", "lapsed"}, "over")
    /\ UNCHANGED <<grants, previews, file, keys, flowsMet, mishaps>>

\* revokeAccess, grantAccess
Revoke ==
    /\ access = "active"
    /\ access' = "revoked"
    /\ UNCHANGED <<grants, previews, device, task, flowsMet, mishaps>>

Restore ==
    /\ access # "active" /\ grants < MaxGrants
    /\ access' = "active" /\ grants' = grants + 1
    /\ UNCHANGED <<previews, device, task, flowsMet, mishaps>>

\* updateLesson
TogglePreview(l) ==
    /\ previews' = IF l \in previews THEN previews \ {l} ELSE previews \cup {l}
    /\ UNCHANGED <<access, grants, device, task, flowsMet, mishaps>>

\* The app is killed: every flow ends where it is.
Crash ==
    /\ ~Quiet /\ Fault
    /\ task' = [t \in Tasks |-> IdleTask]
    /\ UNCHANGED <<verdict, device>>

Advance(t) ==
    \/ Fetch(t) \/ StoreToken(t) \/ ReadToList(t) \/ WriteManifest(t) \/ GiveUp(t)
    \/ DeleteFile(t) \/ DeleteToken(t) \/ ReadToUnlist(t)
    \/ ReadToWipe(t) \/ WipeFile(t) \/ WipeToken(t) \/ WipeManifest(t)
    \/ ReadEntry(t) \/ Check(t) \/ Refresh(t) \/ ReadToRelist(t) \/ Rewrite(t) \/ PlayBack(t)

CopiesNext ==
    \/ \E t \in Tasks : Load(t) \/ Advance(t)
    \/ \E t \in Tasks, l \in Lessons : Download(t, l) \/ Remove(t, l) \/ Play(t, l)
    \/ \E l \in Lessons : Lapse(l) \/ TogglePreview(l)
    \/ \E S \in SUBSET Lessons : Expire(S)
    \/ Revoke \/ Restore \/ Crash

\* Awaits return.  The learner goes on opening the course online: between other flows
\* a load comes through (a strong assumption, on a person, and only that).
CopiesSpec ==
    /\ CopiesInit /\ [][CopiesNext]_copiesVars
    /\ \A t \in Tasks : WF_copiesVars(Advance(t)) /\ SF_copiesVars(Load(t))

-----------------------------------------------------------------------------
Playable(l) == l \in file /\ manifest[l] # "none"

\* With no two flows at once, and through one mishap (the app killed at any await, or any
\* one call failed), a listed copy that was saved with a token still has it: losing it
\* would turn the copy into one without a deadline.
KeysGoWithCopy ==
    Quiet /\ ~flowsMet /\ mishaps <= 1 =>
        \A l \in file : manifest[l] \in {"fresh", "lapsed", "over"} => l \in keys

\* With no two flows at once, no kill and no call that fails, a file on the device is a
\* listed copy, whatever the server answers: downloadAll counts a lesson as saved by its
\* file, the player asks the manifest.
FileIsListed ==
    Quiet /\ ~flowsMet /\ mishaps = 0 => \A l \in file : Playable(l)

\* With no two flows at once, and through one mishap, what the device by itself declares
\* valid has no deadline, or one that is still ahead.  Apart from that the player is given
\* what the server has just granted, a copy the keychain was not readable for ("unread"),
\* and, with a warning, a copy that is "late".
PlaysWithinGrant ==
    ~flowsMet /\ mishaps <= 1 =>
        \A t \in Tasks :
            TaskAt(t, "play") /\ task[t].by = "device" => task[t].entry \in {"fresh", "legacy"}

\* What validateAndGetLocalUri says of an expired copy when there is no internet (it stops
\* playing): the player gets no copy past its deadline that the server has not granted anew.
ExpiredStopsPlaying ==
    \A t \in Tasks :
        TaskAt(t, "play") => task[t].by = "server" \/ task[t].entry \in {"fresh", "legacy"}

\* Once nothing of the course is granted any more, access gone for good and no lesson a
\* preview, and the learner keeps opening the course online, no copy stays playable,
\* whatever flows overlapped, wherever the app was killed and whatever call failed.
RevokedIsWiped ==
    <>[](\A l \in Lessons : ~Granted(l)) => <>[](\A l \in Lessons : ~Playable(l))
=============================================================================
