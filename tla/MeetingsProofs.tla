--------------------------- MODULE MeetingsProofs ---------------------------
(***************************************************************************)
(* Meetings for any number of meetings, packages and handlers.             *)
(*                                                                         *)
(* The overrun bound counts the requests past their check, so it is        *)
(* inductive as it stands.  ApprovedIsCharged needs that a request works   *)
(* on a meeting that exists, and on that meeting's own package.            *)
(***************************************************************************)
EXTENDS Meetings, FiniteSetTheorems, TLAPS

RequestFits(h) ==
    LET r == request[h] IN
    /\ r.pc \notin {"idle", "create"} =>
          /\ r.m \in Meetings
          /\ meeting[r.m] # "none"
          /\ r.p = package[r.m]
    /\ r.pc \in {"room", "consume"} => r.p \in Packages

RequestsFit == \A h \in Handlers : RequestFits(h)

MeetingsInv ==
    /\ TypeOK
    /\ RequestsFit
    /\ SessionOverrunBounded
    /\ ApprovedIsCharged

-----------------------------------------------------------------------------
\* Requests are finitely many, and at least one.
LEMMA HandlersAreCounted ==
    /\ Cardinality(Handlers) \in Nat
    /\ Overrun \in Nat
  <1>1. Cardinality(Handlers) \in Nat
    BY FS_CardinalityType, UsageAssumption
  <1>2. Cardinality(Handlers) # 0
    BY FS_EmptySet, UsageAssumption
  <1> QED
    BY <1>1, <1>2 DEF Overrun

\* Whoever counts requests counts no more than there are.
LEMMA SomeHandlers ==
    ASSUME NEW T \in SUBSET Handlers
    PROVE  /\ IsFiniteSet(T)
           /\ Cardinality(T) \in Nat
           /\ Cardinality(T) <= Overrun + 1
  <1>1. IsFiniteSet(T) /\ Cardinality(T) <= Cardinality(Handlers)
    BY FS_Subset, UsageAssumption
  <1>2. Cardinality(T) \in Nat
    BY <1>1, FS_CardinalityType
  <1> QED
    BY <1>1, <1>2, HandlersAreCounted DEF Overrun

\* With room left, even all requests together cannot pass the overrun.
LEMMA RoomCoversOverrun ==
    ASSUME NEW limit \in Nat, NEW count \in Nat, count < limit,
           NEW T \in SUBSET Handlers
    PROVE  count + Cardinality(T) <= limit + Overrun
  BY SomeHandlers, HandlersAreCounted

\* Requests that leave make the count smaller, or leave it as it is.
LEMMA FewerHandlers ==
    ASSUME NEW S \in SUBSET Handlers, NEW T \in SUBSET S
    PROVE  /\ Cardinality(T) \in Nat
           /\ Cardinality(S) \in Nat
           /\ Cardinality(T) <= Cardinality(S)
  BY SomeHandlers, FS_Subset

\* One request leaves.
LEMMA HandlerLeaves ==
    ASSUME NEW S \in SUBSET Handlers, NEW h \in S
    PROVE  Cardinality(S \ {h}) = Cardinality(S) - 1
  BY SomeHandlers, FS_RemoveElement

-----------------------------------------------------------------------------
\* Nothing is booked at first.
LEMMA MeetingsInitInv == Init => MeetingsInv
  <1> SUFFICES ASSUME Init PROVE MeetingsInv
    OBVIOUS
  <1>1. TypeOK
    BY UsageAssumption
       DEF Init, UsageInit, TypeOK, UsageTypeOK, MeetingStatuses, Pcs, NoRequest
  <1>2. RequestsFit
    BY DEF Init, RequestsFit, RequestFits, NoRequest
  <1>3. SessionOverrunBounded
    <2> SUFFICES ASSUME NEW p \in Packages, Metered(p, "session")
                 PROVE  used[p]["session"] + Cardinality(TakingFrom(p))
                            <= Limit[p]["session"] + Overrun
      BY DEF SessionOverrunBounded
    <2>1. TakingFrom(p) = {}
      BY DEF Init, TakingFrom, NoRequest, Taking
    <2>2. Cardinality(TakingFrom(p)) = 0
      BY <2>1, FS_EmptySet
    <2>3. used[p]["session"] = 0
      BY MeetingsAssumption DEF Init, UsageInit
    <2>4. Limit[p]["session"] \in Nat
      BY UsageAssumption, MeetingsAssumption DEF Metered
    <2> QED
      BY <2>2, <2>3, <2>4, HandlersAreCounted
  <1>4. ApprovedIsCharged
    BY DEF Init, ApprovedIsCharged
  <1> QED
    BY <1>1, <1>2, <1>3, <1>4 DEF MeetingsInv

\* A step that counts nothing and lets no request past its check keeps the bound.
LEMMA BoundKept ==
    ASSUME TypeOK, SessionOverrunBounded, used' = used,
           \A p \in Packages : TakingFrom(p)' \subseteq TakingFrom(p)
    PROVE  SessionOverrunBounded'
  <1> SUFFICES ASSUME NEW p \in Packages, Metered(p, "session")
               PROVE  used[p]["session"] + Cardinality(TakingFrom(p)')
                          <= Limit[p]["session"] + Overrun
    BY DEF SessionOverrunBounded, Metered
  <1>1. used[p]["session"] \in Nat
    BY MeetingsAssumption DEF TypeOK, UsageTypeOK
  <1>2. Limit[p]["session"] \in Nat
    BY UsageAssumption, MeetingsAssumption DEF Metered
  <1>3. TakingFrom(p) \in SUBSET Handlers
    BY DEF TakingFrom
  <1>4. used[p]["session"] + Cardinality(TakingFrom(p)) <= Limit[p]["session"] + Overrun
    BY DEF SessionOverrunBounded
  <1>5. TakingFrom(p)' \in SUBSET TakingFrom(p)
    OBVIOUS
  <1> HIDE DEF TakingFrom
  <1>6. /\ Cardinality(TakingFrom(p)') \in Nat
        /\ Cardinality(TakingFrom(p)) \in Nat
        /\ Cardinality(TakingFrom(p)') <= Cardinality(TakingFrom(p))
    BY <1>3, <1>5, FewerHandlers
  <1> QED
    BY <1>1, <1>2, <1>4, <1>6, HandlersAreCounted

-----------------------------------------------------------------------------
\* The next-state relation, one disjunct for each action.
LEMMA MeetingsSteps ==
    ASSUME Next
    PROVE  \/ \E h \in Handlers : Book(h)
           \/ \E h \in Handlers : ApproveRoom(h)
           \/ \E h \in Handlers : ApproveWrite(h)
           \/ \E h \in Handlers : ConsumeSession(h)
           \/ \E h \in Handlers : RejectRoom(h)
           \/ \E h \in Handlers : RejectWrite(h)
           \/ \E h \in Handlers : Abort(h)
           \/ \E h \in Handlers, m \in Meetings : CreateMeeting(h, m)
           \/ \E h \in Handlers, m \in Meetings : Approve(h, m)
           \/ \E h \in Handlers, m \in Meetings : Reject(h, m)
           \/ \E m \in Meetings : Reschedule(m) \/ Cancel(m) \/ Complete(m)
           \/ \E p \in Packages : PackageStep(p) /\ UNCHANGED meetingVars
  BY DEF Next

\* What findUsablePurchase returns is a package, or none.
LEMMA FoundIsPackage ==
    ASSUME NEW candidates \in SUBSET Packages, NEW kind
    PROVE  FindUsablePurchase(candidates, kind) \subseteq Packages \cup {NoPackage}
  BY DEF FindUsablePurchase, Usable

\* A request that goes on stays on its meeting and package.
LEMMA Continued ==
    ASSUME TypeOK, NEW h \in Handlers, NEW pc \in Pcs, Continue(h, pc)
    PROVE  /\ request' \in [Handlers -> [pc : Pcs, m : Meetings \cup {NoMeeting},
                                         p : Packages \cup {NoPackage}]]
           /\ request'[h].pc = pc
           /\ request'[h].m = request[h].m
           /\ request'[h].p = request[h].p
           /\ \A g \in Handlers : g # h => request'[g] = request[g]
  BY DEF TypeOK, Continue

\* A request that is answered works on nothing.
LEMMA Answered ==
    ASSUME TypeOK, NEW h \in Handlers, Answer(h)
    PROVE  /\ request' \in [Handlers -> [pc : Pcs, m : Meetings \cup {NoMeeting},
                                         p : Packages \cup {NoPackage}]]
           /\ request'[h].pc = "idle"
           /\ request'[h].p = NoPackage
           /\ \A g \in Handlers : g # h => request'[g] = request[g]
  BY DEF TypeOK, Answer, NoRequest, Pcs

\* The statuses of the schema, the counters and the requests keep their types.
LEMMA MeetingsTypeStep ==
    ASSUME TypeOK, RequestsFit, Next
    PROVE  TypeOK'
  <1> USE DEF TypeOK, UsageTypeOK, Pcs, MeetingStatuses, Doing, usageVars
  <1>1. ASSUME NEW h \in Handlers, Book(h) PROVE TypeOK'
    <2> PICK p \in FindUsablePurchase(Packages, "session") \cup
                      {q \in Packages : standing[q] = "ACTIVE" /\ HasRoom(q, "session")} :
          request' = [request EXCEPT ![h] = [pc |-> "create", m |-> NoMeeting, p |-> p]]
      BY <1>1 DEF Book
    <2>1. p \in Packages \cup {NoPackage}
      BY FoundIsPackage
    <2> QED
      BY <1>1, <2>1 DEF Book
  <1>2. ASSUME NEW h \in Handlers, ApproveRoom(h) PROVE TypeOK'
    BY <1>2, Continued, Answered DEF ApproveRoom
  <1>3. ASSUME NEW h \in Handlers, ApproveWrite(h) PROVE TypeOK'
    <2>1. request[h].m \in Meetings
      BY <1>3 DEF ApproveWrite, RequestsFit, RequestFits
    <2>2. meeting' \in [Meetings -> MeetingStatuses \cup {"none"}]
      BY <1>3, <2>1 DEF ApproveWrite
    <2>3. request' \in [Handlers -> [pc : Pcs, m : Meetings \cup {NoMeeting},
                                     p : Packages \cup {NoPackage}]]
      BY <1>3, Continued, Answered DEF ApproveWrite
    <2> QED
      BY <1>3, <2>2, <2>3 DEF ApproveWrite
  <1>4. ASSUME NEW h \in Handlers, ConsumeSession(h) PROVE TypeOK'
    <2>1. request[h].m \in Meetings /\ request[h].p \in Packages
      BY <1>4 DEF ConsumeSession, RequestsFit, RequestFits
    <2>2. used' \in [Packages -> [Kinds -> Nat]]
      BY <1>4, <2>1, MeetingsAssumption DEF ConsumeSession, Consume
    <2>3. charged' \in [Meetings -> Nat]
      BY <1>4, <2>1 DEF ConsumeSession
    <2> QED
      BY <1>4, <2>2, <2>3, Answered DEF ConsumeSession
  <1>5. ASSUME NEW h \in Handlers, RejectRoom(h) PROVE TypeOK'
    BY <1>5, Continued, Answered DEF RejectRoom
  <1>6. ASSUME NEW h \in Handlers, RejectWrite(h) PROVE TypeOK'
    BY <1>6, Answered DEF RejectWrite
  <1>7. ASSUME NEW h \in Handlers, Abort(h) PROVE TypeOK'
    <2>1. Doing(h, "consume") => request[h].m \in Meetings
      BY DEF RequestsFit, RequestFits
    <2> QED
      BY <1>7, <2>1, Answered DEF Abort
  <1>8. ASSUME NEW h \in Handlers, NEW m \in Meetings, CreateMeeting(h, m) PROVE TypeOK'
    BY <1>8, Answered DEF CreateMeeting
  <1>9. ASSUME NEW h \in Handlers, NEW m \in Meetings, Approve(h, m) PROVE TypeOK'
    BY <1>9 DEF Approve
  <1>10. ASSUME NEW h \in Handlers, NEW m \in Meetings, Reject(h, m) PROVE TypeOK'
    BY <1>10 DEF Reject
  <1>11. ASSUME NEW m \in Meetings, Reschedule(m) \/ Cancel(m) \/ Complete(m) PROVE TypeOK'
    BY <1>11 DEF Reschedule, Cancel, Complete
  <1>12. ASSUME NEW p \in Packages, PackageStep(p), UNCHANGED meetingVars PROVE TypeOK'
    BY <1>12 DEF PackageStep, ActivatePackage, CancelPackage, Expire, meetingVars
  <1> QED
    BY <1>1, <1>2, <1>3, <1>4, <1>5, <1>6, <1>7, <1>8, <1>9, <1>10, <1>11, <1>12,
       MeetingsSteps

\* No step takes a request's meeting away or moves it to another package.
LEMMA MeetingsFitStep ==
    ASSUME TypeOK, RequestsFit, Next
    PROVE  RequestsFit'
  <1> USE DEF TypeOK, UsageTypeOK, RequestsFit, RequestFits, Doing, Pcs
  <1>1. ASSUME NEW h \in Handlers, Book(h) PROVE RequestsFit'
    BY <1>1 DEF Book
  <1>2. ASSUME NEW h \in Handlers, ApproveRoom(h) PROVE RequestsFit'
    BY <1>2, Continued, Answered DEF ApproveRoom
  <1>3. ASSUME NEW h \in Handlers, ApproveWrite(h) PROVE RequestsFit'
    BY <1>3, Continued, Answered DEF ApproveWrite
  <1>4. ASSUME NEW h \in Handlers, ConsumeSession(h) PROVE RequestsFit'
    <2>1. Answer(h) /\ meeting' = meeting /\ package' = package
      BY <1>4 DEF ConsumeSession
    <2>2. /\ request'[h].pc = "idle"
          /\ \A g \in Handlers : g # h => request'[g] = request[g]
      BY <2>1, Answered
    <2> QED
      BY <2>1, <2>2
  <1>5. ASSUME NEW h \in Handlers, RejectRoom(h) PROVE RequestsFit'
    BY <1>5, Continued, Answered DEF RejectRoom
  <1>6. ASSUME NEW h \in Handlers, RejectWrite(h) PROVE RequestsFit'
    BY <1>6, Answered DEF RejectWrite
  <1>7. ASSUME NEW h \in Handlers, Abort(h) PROVE RequestsFit'
    BY <1>7, Answered DEF Abort
  <1>8. ASSUME NEW h \in Handlers, NEW m \in Meetings, CreateMeeting(h, m) PROVE RequestsFit'
    BY <1>8, Answered DEF CreateMeeting
  <1>9. ASSUME NEW h \in Handlers, NEW m \in Meetings, Approve(h, m) PROVE RequestsFit'
    BY <1>9 DEF Approve
  <1>10. ASSUME NEW h \in Handlers, NEW m \in Meetings, Reject(h, m) PROVE RequestsFit'
    BY <1>10 DEF Reject
  <1>11. ASSUME NEW m \in Meetings, Reschedule(m) \/ Cancel(m) \/ Complete(m)
         PROVE  RequestsFit'
    BY <1>11 DEF Reschedule, Cancel, Complete
  <1>12. ASSUME NEW p \in Packages, PackageStep(p), UNCHANGED meetingVars
         PROVE  RequestsFit'
    BY <1>12 DEF meetingVars
  <1> QED
    BY <1>1, <1>2, <1>3, <1>4, <1>5, <1>6, <1>7, <1>8, <1>9, <1>10, <1>11, <1>12,
       MeetingsSteps

\* The check before the last unit, not the increment, is what admits a request.
LEMMA MeetingsBoundStep ==
    ASSUME TypeOK, RequestsFit, SessionOverrunBounded, Next
    PROVE  SessionOverrunBounded'
  <1> USE DEF Doing, Pcs
  <1>1. ASSUME NEW h \in Handlers, Book(h) PROVE SessionOverrunBounded'
    BY <1>1, BoundKept DEF Book, usageVars, TakingFrom, Taking, TypeOK
  <1>2. ASSUME NEW h \in Handlers, ApproveRoom(h) PROVE SessionOverrunBounded'
    <2>1. CASE HasRoom(request[h].p, "session")
      <3> SUFFICES ASSUME NEW p \in Packages, Metered(p, "session")
                   PROVE  used[p]["session"] + Cardinality(TakingFrom(p)')
                              <= Limit[p]["session"] + Overrun
        BY <1>2 DEF ApproveRoom, usageVars, SessionOverrunBounded, Metered
      <3>1. used[p]["session"] \in Nat /\ Limit[p]["session"] \in Nat
        BY UsageAssumption, MeetingsAssumption DEF TypeOK, UsageTypeOK, Metered
      <3>2. TakingFrom(p)' \in SUBSET Handlers
        BY DEF TakingFrom
      <3>3. CASE request[h].p = p
        <4>1. used[p]["session"] < Limit[p]["session"]
          BY <2>1, <3>3 DEF HasRoom
        <4> HIDE DEF TakingFrom
        <4> QED
          BY <3>1, <3>2, <4>1, RoomCoversOverrun
      <3>4. CASE request[h].p # p
        <4>0. Continue(h, "link")
          BY <1>2, <2>1 DEF ApproveRoom
        <4>1. TakingFrom(p)' \in SUBSET TakingFrom(p)
          BY <3>4, <4>0, Continued DEF TakingFrom
        <4>2. used[p]["session"] + Cardinality(TakingFrom(p)) <= Limit[p]["session"] + Overrun
          BY DEF SessionOverrunBounded
        <4>3. TakingFrom(p) \in SUBSET Handlers
          BY DEF TakingFrom
        <4>4. /\ Cardinality(TakingFrom(p)') \in Nat
              /\ Cardinality(TakingFrom(p)) \in Nat
              /\ Cardinality(TakingFrom(p)') <= Cardinality(TakingFrom(p))
          BY <4>1, <4>3, FewerHandlers
        <4> QED
          BY <3>1, <4>2, <4>4, HandlersAreCounted
      <3> QED
        BY <3>3, <3>4
    <2>2. CASE ~ HasRoom(request[h].p, "session")
      BY <1>2, <2>2, Answered, BoundKept DEF ApproveRoom, usageVars, TakingFrom, Taking
    <2> QED
      BY <2>1, <2>2
  <1>3. ASSUME NEW h \in Handlers, ApproveWrite(h) PROVE SessionOverrunBounded'
    BY <1>3, Continued, Answered, BoundKept DEF ApproveWrite, usageVars, TakingFrom, Taking
  <1>4. ASSUME NEW h \in Handlers, ConsumeSession(h) PROVE SessionOverrunBounded'
    <2> SUFFICES ASSUME NEW p \in Packages, Metered(p, "session")
                 PROVE  used'[p]["session"] + Cardinality(TakingFrom(p)')
                            <= Limit[p]["session"] + Overrun
      BY DEF SessionOverrunBounded, Metered
    <2>1. used[p]["session"] \in Nat /\ Limit[p]["session"] \in Nat
      BY UsageAssumption, MeetingsAssumption DEF TypeOK, UsageTypeOK, Metered
    <2>2. used[p]["session"] + Cardinality(TakingFrom(p)) <= Limit[p]["session"] + Overrun
      BY DEF SessionOverrunBounded
    <2>3. TakingFrom(p) \in SUBSET Handlers
      BY DEF TakingFrom
    <2>4. CASE request[h].p = p
      <3>1. used'[p]["session"] = used[p]["session"] + 1
        BY <1>4, <2>4, MeetingsAssumption
           DEF ConsumeSession, Consume, TypeOK, UsageTypeOK
      <3>2. h \in TakingFrom(p)
        BY <1>4, <2>4 DEF ConsumeSession, TakingFrom, Taking
      <3>3. TakingFrom(p)' = TakingFrom(p) \ {h}
        BY <1>4, Answered DEF ConsumeSession, TakingFrom, Taking
      <3>4. Cardinality(TakingFrom(p)') = Cardinality(TakingFrom(p)) - 1
        BY <2>3, <3>2, <3>3, HandlerLeaves
      <3>5. Cardinality(TakingFrom(p)) \in Nat
        BY <2>3, SomeHandlers
      <3> QED
        BY <2>1, <2>2, <3>1, <3>4, <3>5, HandlersAreCounted
    <2>5. CASE request[h].p # p
      <3>1. used'[p]["session"] = used[p]["session"]
        BY <1>4, <2>5 DEF ConsumeSession, Consume, TypeOK, UsageTypeOK
      <3>2. TakingFrom(p)' \in SUBSET TakingFrom(p)
        BY <1>4, <2>5, Answered DEF ConsumeSession, TakingFrom, Taking
      <3>3. /\ Cardinality(TakingFrom(p)') \in Nat
            /\ Cardinality(TakingFrom(p)) \in Nat
            /\ Cardinality(TakingFrom(p)') <= Cardinality(TakingFrom(p))
        BY <2>3, <3>2, FewerHandlers
      <3> QED
        BY <2>1, <2>2, <3>1, <3>3, HandlersAreCounted
    <2> QED
      BY <2>4, <2>5
  <1>5. ASSUME NEW h \in Handlers, RejectRoom(h) PROVE SessionOverrunBounded'
    BY <1>5, Continued, Answered, BoundKept DEF RejectRoom, usageVars, TakingFrom, Taking
  <1>6. ASSUME NEW h \in Handlers, RejectWrite(h) PROVE SessionOverrunBounded'
    BY <1>6, Answered, BoundKept DEF RejectWrite, usageVars, TakingFrom, Taking
  <1>7. ASSUME NEW h \in Handlers, Abort(h) PROVE SessionOverrunBounded'
    BY <1>7, Answered, BoundKept DEF Abort, usageVars, TakingFrom, Taking
  <1>8. ASSUME NEW h \in Handlers, NEW m \in Meetings, CreateMeeting(h, m)
        PROVE  SessionOverrunBounded'
    BY <1>8, Answered, BoundKept DEF CreateMeeting, usageVars, TakingFrom, Taking
  <1>9. ASSUME NEW h \in Handlers, NEW m \in Meetings, Approve(h, m)
        PROVE  SessionOverrunBounded'
    <2>1. request'[h].p \in Packages => request'[h].pc \notin Taking
      BY <1>9, UsageAssumption DEF Approve, TypeOK, Taking
    <2>2. \A g \in Handlers : g # h => request'[g] = request[g]
      BY <1>9 DEF Approve, TypeOK
    <2>3. \A p \in Packages : TakingFrom(p)' \subseteq TakingFrom(p)
      BY <2>1, <2>2 DEF TakingFrom
    <2> QED
      BY <1>9, <2>3, BoundKept DEF Approve, usageVars
  <1>10. ASSUME NEW h \in Handlers, NEW m \in Meetings, Reject(h, m)
         PROVE  SessionOverrunBounded'
    <2>1. request'[h].pc \notin Taking
      BY <1>10 DEF Reject, TypeOK, Taking
    <2>2. \A g \in Handlers : g # h => request'[g] = request[g]
      BY <1>10 DEF Reject, TypeOK
    <2>3. \A p \in Packages : TakingFrom(p)' \subseteq TakingFrom(p)
      BY <2>1, <2>2 DEF TakingFrom
    <2> QED
      BY <1>10, <2>3, BoundKept DEF Reject, usageVars
  <1>11. ASSUME NEW m \in Meetings, Reschedule(m) \/ Cancel(m) \/ Complete(m)
         PROVE  SessionOverrunBounded'
    BY <1>11, BoundKept DEF Reschedule, Cancel, Complete, usageVars, TakingFrom
  <1>12. ASSUME NEW p \in Packages, PackageStep(p), UNCHANGED meetingVars
         PROVE  SessionOverrunBounded'
    BY <1>12, BoundKept
       DEF PackageStep, ActivatePackage, CancelPackage, Expire, meetingVars, TakingFrom
  <1> QED
    BY <1>1, <1>2, <1>3, <1>4, <1>5, <1>6, <1>7, <1>8, <1>9, <1>10, <1>11, <1>12,
       MeetingsSteps

\* An approval leaves behind a charge, a request at the charge, or a cut.
LEMMA MeetingsChargedStep ==
    ASSUME TypeOK, RequestsFit, ApprovedIsCharged, Next
    PROVE  ApprovedIsCharged'
  <1> USE DEF Doing, Pcs, TypeOK, ApprovedIsCharged
  <1>1. ASSUME NEW h \in Handlers, Book(h) PROVE ApprovedIsCharged'
    BY <1>1 DEF Book
  <1>2. ASSUME NEW h \in Handlers, ApproveRoom(h) PROVE ApprovedIsCharged'
    BY <1>2, Continued, Answered DEF ApproveRoom
  <1>3. ASSUME NEW h \in Handlers, ApproveWrite(h) PROVE ApprovedIsCharged'
    <2>1. /\ request[h].m \in Meetings
          /\ request[h].p = package[request[h].m]
      BY <1>3 DEF ApproveWrite, RequestsFit, RequestFits
    <2>2. package[request[h].m] # NoPackage =>
              request'[h].pc = "consume" /\ request'[h].m = request[h].m
      BY <1>3, <2>1, Continued DEF ApproveWrite
    <2>3. \A g \in Handlers : g # h => request'[g] = request[g]
      BY <1>3, Continued, Answered DEF ApproveWrite
    <2>4. \A m \in Meetings : m # request[h].m => meeting'[m] = meeting[m]
      BY <1>3, <2>1 DEF ApproveWrite
    <2> QED
      BY <1>3, <2>1, <2>2, <2>3, <2>4 DEF ApproveWrite
  <1>4. ASSUME NEW h \in Handlers, ConsumeSession(h) PROVE ApprovedIsCharged'
    <2>1. request[h].m \in Meetings
      BY <1>4 DEF ConsumeSession, RequestsFit, RequestFits
    <2>2. charged'[request[h].m] > 0
      BY <1>4, <2>1 DEF ConsumeSession
    <2>3. \A m \in Meetings : m # request[h].m => charged'[m] = charged[m]
      BY <1>4, <2>1 DEF ConsumeSession
    <2>4. \A g \in Handlers : g # h => request'[g] = request[g]
      BY <1>4, Answered DEF ConsumeSession
    <2> QED
      BY <1>4, <2>2, <2>3, <2>4 DEF ConsumeSession
  <1>5. ASSUME NEW h \in Handlers, RejectRoom(h) PROVE ApprovedIsCharged'
    BY <1>5, Continued, Answered DEF RejectRoom
  <1>6. ASSUME NEW h \in Handlers, RejectWrite(h) PROVE ApprovedIsCharged'
    BY <1>6, Answered DEF RejectWrite
  <1>7. ASSUME NEW h \in Handlers, Abort(h) PROVE ApprovedIsCharged'
    BY <1>7, Answered DEF Abort
  <1>8. ASSUME NEW h \in Handlers, NEW m \in Meetings, CreateMeeting(h, m)
        PROVE  ApprovedIsCharged'
    BY <1>8, Answered DEF CreateMeeting
  <1>9. ASSUME NEW h \in Handlers, NEW m \in Meetings, Approve(h, m)
        PROVE  ApprovedIsCharged'
    BY <1>9 DEF Approve
  <1>10. ASSUME NEW h \in Handlers, NEW m \in Meetings, Reject(h, m)
         PROVE  ApprovedIsCharged'
    BY <1>10 DEF Reject
  <1>11. ASSUME NEW m \in Meetings, Reschedule(m) \/ Cancel(m) \/ Complete(m)
         PROVE  ApprovedIsCharged'
    BY <1>11 DEF Reschedule, Cancel, Complete
  <1>12. ASSUME NEW p \in Packages, PackageStep(p), UNCHANGED meetingVars
         PROVE  ApprovedIsCharged'
    BY <1>12 DEF meetingVars
  <1> QED
    BY <1>1, <1>2, <1>3, <1>4, <1>5, <1>6, <1>7, <1>8, <1>9, <1>10, <1>11, <1>12,
       MeetingsSteps

-----------------------------------------------------------------------------
\* The inductive invariant holds in every reachable state.
THEOREM MeetingsInvariant == Spec => []MeetingsInv
  <1>1. MeetingsInv /\ [Next]_vars => MeetingsInv'
    <2> SUFFICES ASSUME MeetingsInv, [Next]_vars PROVE MeetingsInv'
      OBVIOUS
    <2>1. CASE Next
      BY <2>1, MeetingsTypeStep, MeetingsFitStep, MeetingsBoundStep, MeetingsChargedStep
         DEF MeetingsInv
    <2>2. CASE UNCHANGED vars
      BY <2>2 DEF vars, usageVars, meetingVars, MeetingsInv, TypeOK, UsageTypeOK,
                  RequestsFit, RequestFits, SessionOverrunBounded, TakingFrom,
                  ApprovedIsCharged, Doing, Metered
    <2> QED
      BY <2>1, <2>2
  <1> QED
    BY <1>1, MeetingsInitInv, PTL DEF Spec

\* Every variable keeps its type (MeetingsService).
THEOREM MeetingsTypeCorrect == Spec => []TypeOK
  BY MeetingsInvariant, PTL DEF MeetingsInv

\* However many requests approve at once, a package gives at most one session
\* beyond its limit for each request but the first (approve in MeetingsService).
THEOREM SessionsOverrunBounded == Spec => []SessionOverrunBounded
  BY MeetingsInvariant, PTL DEF MeetingsInv

\* An APPROVED meeting on a package has been charged for, unless a request is at
\* the charge or died just before it (approve in MeetingsService).
THEOREM ApprovalsAreCharged == Spec => []ApprovedIsCharged
  BY MeetingsInvariant, PTL DEF MeetingsInv
=============================================================================
