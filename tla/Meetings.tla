------------------------------ MODULE Meetings ------------------------------
(***************************************************************************)
(* MeetingsService: a client books a session against a package, the        *)
(* consultant or an admin approves or declines it.  The session credit is  *)
(* taken on approval, in its own query after the meeting is updated, and   *)
(* between the check of the allowance and that update approve waits for a  *)
(* Google Meet link.                                                       *)
(*                                                                         *)
(* reschedule, cancel and complete read the meeting only to check that it  *)
(* exists and who owns it, neither of which changes, so each is one step.  *)
(***************************************************************************)
EXTENDS Usage

CONSTANT Meetings  \* meeting rows that may be created

ASSUME MeetingsAssumption == "session" \in Kinds

VARIABLES meeting,  \* Meeting.status, or "none" before the row exists
          package,  \* Meeting.purchaseId
          request,  \* what each handler is doing
          charged,  \* history: session credits taken for a meeting
          cut       \* history: meetings whose approval ended before the charge

meetingVars == <<meeting, package, request, charged, cut>>
vars == <<usageVars, meetingVars>>

MeetingStatuses == {"REQUESTED", "APPROVED", "REJECTED", "COMPLETED", "CANCELLED"}

Pcs == {"idle", "create", "room", "link", "consume", "declineRoom", "decline"}

\* Past the check of the allowance, before the increment.
Taking == {"link", "consume"}

NoMeeting == "no meeting"

NoRequest == [pc |-> "idle", m |-> NoMeeting, p |-> NoPackage]

TypeOK ==
    /\ UsageTypeOK
    /\ meeting \in [Meetings -> MeetingStatuses \cup {"none"}]
    /\ package \in [Meetings -> Packages \cup {NoPackage}]
    /\ request \in [Handlers -> [pc : Pcs, m : Meetings \cup {NoMeeting},
                                 p : Packages \cup {NoPackage}]]
    /\ charged \in [Meetings -> Nat]
    /\ cut \subseteq Meetings

Init ==
    /\ UsageInit
    /\ meeting = [m \in Meetings |-> "none"]
    /\ package = [m \in Meetings |-> NoPackage]
    /\ request = [h \in Handlers |-> NoRequest]
    /\ charged = [m \in Meetings |-> 0]
    /\ cut = {}

-----------------------------------------------------------------------------
Doing(h, pc) == request[h].pc = pc

Continue(h, pc) == request' = [request EXCEPT ![h].pc = pc]

Answer(h) == request' = [request EXCEPT ![h] = NoRequest]

\* book: the package the client names, which must be ACTIVE and have room (its
\* expiry is not looked at), or one that findUsablePurchase finds, or none.
Book(h) ==
    /\ Doing(h, "idle")
    /\ \E p \in FindUsablePurchase(Packages, "session") \cup
               {q \in Packages : standing[q] = "ACTIVE" /\ HasRoom(q, "session")} :
          request' = [request EXCEPT ![h] = [pc |-> "create", m |-> NoMeeting, p |-> p]]
    /\ UNCHANGED <<usageVars, meeting, package, charged, cut>>

\* book: the row is created on the package read before.
CreateMeeting(h, m) ==
    /\ Doing(h, "create")
    /\ meeting[m] = "none"
    /\ meeting' = [meeting EXCEPT ![m] = "REQUESTED"]
    /\ package' = [package EXCEPT ![m] = request[h].p]
    /\ Answer(h)
    /\ UNCHANGED <<usageVars, charged, cut>>

\* approve reads the meeting; only an APPROVED one is refused.
Approve(h, m) ==
    /\ Doing(h, "idle")
    /\ meeting[m] \notin {"none", "APPROVED"}
    /\ request' = [request EXCEPT ![h] =
            [pc |-> IF package[m] = NoPackage THEN "link" ELSE "room",
             m |-> m, p |-> package[m]]]
    /\ UNCHANGED <<usageVars, meeting, package, charged, cut>>

\* Mutant of ApproveRoom: the allowance is not checked.
ApproveAnyway(h) ==
    /\ Doing(h, "room")
    /\ Continue(h, "link")
    /\ UNCHANGED <<usageVars, meeting, package, charged, cut>>

\* approve reads the package and goes on if it has room; its status and expiry
\* are not looked at.
ApproveRoom(h) ==
    /\ Doing(h, "room")
    /\ IF HasRoom(request[h].p, "session") THEN Continue(h, "link") ELSE Answer(h)
    /\ UNCHANGED <<usageVars, meeting, package, charged, cut>>

\* Mutant of ApproveWrite: the answer is sent without the charge.
ApproveFree(h) ==
    /\ Doing(h, "link")
    /\ meeting' = [meeting EXCEPT ![request[h].m] = "APPROVED"]
    /\ Answer(h)
    /\ UNCHANGED <<usageVars, package, charged, cut>>

\* approve has its link: APPROVED, whatever the meeting has become meanwhile.
ApproveWrite(h) ==
    /\ Doing(h, "link")
    /\ meeting' = [meeting EXCEPT ![request[h].m] = "APPROVED"]
    /\ IF request[h].p = NoPackage THEN Answer(h) ELSE Continue(h, "consume")
    /\ UNCHANGED <<usageVars, package, charged, cut>>

\* approve takes the session credit.
ConsumeSession(h) ==
    /\ Doing(h, "consume")
    /\ Consume(request[h].p, "session")
    /\ charged' = [charged EXCEPT ![request[h].m] = @ + 1]
    /\ Answer(h)
    /\ UNCHANGED <<standing, expired, meeting, package, cut>>

\* reject reads the meeting.
Reject(h, m) ==
    /\ Doing(h, "idle")
    /\ meeting[m] \notin {"none", "APPROVED"}
    /\ request' = [request EXCEPT ![h] =
            [pc |-> IF package[m] = NoPackage THEN "decline" ELSE "declineRoom",
             m |-> m, p |-> package[m]]]
    /\ UNCHANGED <<usageVars, meeting, package, charged, cut>>

\* reject asks for room as approve does, and fails without.
RejectRoom(h) ==
    /\ Doing(h, "declineRoom")
    /\ IF HasRoom(request[h].p, "session") THEN Continue(h, "decline") ELSE Answer(h)
    /\ UNCHANGED <<usageVars, meeting, package, charged, cut>>

\* reject: REJECTED, whatever the meeting has become meanwhile; no credit taken.
RejectWrite(h) ==
    /\ Doing(h, "decline")
    /\ meeting' = [meeting EXCEPT ![request[h].m] = "REJECTED"]
    /\ Answer(h)
    /\ UNCHANGED <<usageVars, package, charged, cut>>

\* Back to REQUESTED from any status; a credit taken is not given back.
Reschedule(m) ==
    /\ meeting[m] # "none"
    /\ meeting' = [meeting EXCEPT ![m] = "REQUESTED"]
    /\ UNCHANGED <<usageVars, package, request, charged, cut>>

Cancel(m) ==
    /\ meeting[m] # "none"
    /\ meeting' = [meeting EXCEPT ![m] = "CANCELLED"]
    /\ UNCHANGED <<usageVars, package, request, charged, cut>>

Complete(m) ==
    /\ meeting[m] # "none"
    /\ meeting' = [meeting EXCEPT ![m] = "COMPLETED"]
    /\ UNCHANGED <<usageVars, package, request, charged, cut>>

\* A query rejects, or the process restarts.
Abort(h) ==
    /\ ~ Doing(h, "idle")
    /\ Answer(h)
    /\ cut' = IF Doing(h, "consume") THEN cut \cup {request[h].m} ELSE cut
    /\ UNCHANGED <<usageVars, meeting, package, charged>>

Next ==
    \/ \E h \in Handlers :
          \/ Book(h)
          \/ ApproveRoom(h)
          \/ ApproveWrite(h)
          \/ ConsumeSession(h)
          \/ RejectRoom(h)
          \/ RejectWrite(h)
          \/ Abort(h)
          \/ \E m \in Meetings : CreateMeeting(h, m) \/ Approve(h, m) \/ Reject(h, m)
    \/ \E m \in Meetings : Reschedule(m) \/ Cancel(m) \/ Complete(m)
    \/ \E p \in Packages : PackageStep(p) /\ UNCHANGED meetingVars

Spec == Init /\ [][Next]_vars

-----------------------------------------------------------------------------
\* "check remaining allowances and to consume them atomically": no package gives
\* more sessions than it holds.
SessionsWithinLimit ==
    \A p \in Packages :
        Metered(p, "session") => used[p]["session"] <= Limit[p]["session"]

TakingFrom(p) == {h \in Handlers : request[h].p = p /\ request[h].pc \in Taking}

\* What does hold: the limit is passed by at most one session for each other
\* request in flight, and once it is reached no further approval gets through.
SessionOverrunBounded ==
    \A p \in Packages : Metered(p, "session") =>
        used[p]["session"] + Cardinality(TakingFrom(p)) <= Limit[p]["session"] + Overrun

\* A meeting that stands APPROVED on a package was charged for at least once,
\* whoever raced to decline, cancel, reschedule or approve it, unless a charge is
\* about to be made or its request died between the update and the charge.
ApprovedIsCharged ==
    \A m \in Meetings :
        meeting[m] = "APPROVED" /\ package[m] # NoPackage /\ m \notin cut =>
            \/ charged[m] > 0
            \/ \E h \in Handlers : Doing(h, "consume") /\ request[h].m = m
=============================================================================
