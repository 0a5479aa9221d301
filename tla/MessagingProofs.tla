--------------------------- MODULE MessagingProofs ---------------------------
(***************************************************************************)
(* Messaging for any number of conversations, packages and handlers.       *)
(*                                                                         *)
(* The counting properties compare a counter with the number of requests   *)
(* between two of their queries, so a step moves both sides together.  The *)
(* workflow property needs that what a request carries from its first read *)
(* stays true: packages spent in a conversation remain so.                 *)
(***************************************************************************)
EXTENDS Messaging, FiniteSetTheorems, TLAPS

RequestType ==
    [pc : Pcs, c : Conversations \cup {NoConversation}, by : {"CLIENT", "CONSULTANT"},
     kind : Kinds \cup {"none"}, p : Packages \cup {NoPackage},
     linked : Packages \cup {NoPackage}]

\* A SINGLE package has been spent in the conversation.
SingleIn(c) == \E p \in Packages : IsSingle(p) /\ <<c, p>> \in spentIn

RequestFits(h) ==
    LET r == request[h] IN
    /\ r.pc # "idle" => r.c \in Conversations
    /\ r.linked # NoPackage => <<r.c, r.linked>> \in spentIn
    /\ r.pc = "find" => r.by = "CLIENT"
    /\ r.pc \in {"find", "create", "consume"} => r.kind \in Kinds
    /\ r.pc \in {"create", "update"} /\ r.by = "CLIENT" => r.p \in Packages
    /\ r.pc = "create" /\ r.by = "CONSULTANT" => r.p = NoPackage
    /\ r.pc = "consume" => r.p \in Packages /\ r.by = "CLIENT"
    /\ r.pc \in {"consume", "update"} /\ r.by = "CLIENT" => <<r.c, r.p>> \in spentIn
    /\ r.pc = "review" => SingleIn(r.c)

RequestsFit == \A h \in Handlers : RequestFits(h)

MessagingInv ==
    /\ TypeOK
    /\ RequestsFit
    /\ MessageOverrunBounded
    /\ MessagesAreMetered
    /\ WorkflowOnlyForSingle

-----------------------------------------------------------------------------
\* Requests are finitely many, and at least one.
LEMMA HandlersAreCounted ==
    /\ Cardinality(Handlers) \in Nat
    /\ Overrun \in Nat
  <1>1. Cardinality(Handlers) \in Nat
    BY FS_CardinalityType, UsageAssumption
  <1>2. Cardinality(Handlers) # 0
    BY FS_EmptySet, UsageAssumption
  <1> QED
    BY <1>1, <1>2 DEF Overrun

\* Whoever counts requests counts no more than there are.
LEMMA SomeHandlers ==
    ASSUME NEW T \in SUBSET Handlers
    PROVE  /\ IsFiniteSet(T)
           /\ Cardinality(T) \in Nat
           /\ Cardinality(T) <= Overrun + 1
  <1>1. IsFiniteSet(T) /\ Cardinality(T) <= Cardinality(Handlers)
    BY FS_Subset, UsageAssumption
  <1>2. Cardinality(T) \in Nat
    BY <1>1, FS_CardinalityType
  <1> QED
    BY <1>1, <1>2, HandlersAreCounted DEF Overrun

\* One request enters.
LEMMA HandlerEnters ==
    ASSUME NEW S \in SUBSET Handlers, NEW h \in Handlers, h \notin S
    PROVE  Cardinality(S \cup {h}) = Cardinality(S) + 1
  BY SomeHandlers, FS_AddElement

\* One request leaves.
LEMMA HandlerLeaves ==
    ASSUME NEW S \in SUBSET Handlers, NEW h \in S
    PROVE  Cardinality(S \ {h}) = Cardinality(S) - 1
  BY SomeHandlers, FS_RemoveElement

-----------------------------------------------------------------------------
\* A request that goes on carries what it has.
LEMMA Continued ==
    ASSUME TypeOK, NEW h \in Handlers, NEW pc \in Pcs, Continue(h, pc)
    PROVE  /\ request' \in [Handlers -> RequestType]
           /\ request'[h].pc = pc
           /\ request'[h].c = request[h].c
           /\ request'[h].by = request[h].by
           /\ request'[h].kind = request[h].kind
           /\ request'[h].p = request[h].p
           /\ request'[h].linked = request[h].linked
           /\ \A g \in Handlers : g # h => request'[g] = request[g]
  BY DEF TypeOK, RequestType, Continue

\* A request that is answered works on nothing.
LEMMA Answered ==
    ASSUME TypeOK, NEW h \in Handlers, Answer(h)
    PROVE  /\ request' \in [Handlers -> RequestType]
           /\ request'[h] = NoRequest
           /\ \A g \in Handlers : g # h => request'[g] = request[g]
  BY DEF TypeOK, RequestType, Answer, NoRequest, Pcs

\* A new request starts with what it is given.
LEMMA Started ==
    ASSUME TypeOK, NEW h \in Handlers, NEW r \in RequestType,
           request' = [request EXCEPT ![h] = r]
    PROVE  /\ request' \in [Handlers -> RequestType]
           /\ request'[h] = r
           /\ \A g \in Handlers : g # h => request'[g] = request[g]
  BY DEF TypeOK, RequestType

\* findUsablePurchase answers with a package of the candidates that has room,
\* or with none.
LEMMA FoundHasRoom ==
    ASSUME NEW candidates \in SUBSET Packages, NEW kind,
           NEW p \in FindUsablePurchase(candidates, kind), p # NoPackage
    PROVE  p \in Packages /\ HasRoom(p, kind)
  BY DEF FindUsablePurchase, Usable

\* A client's request is answered, or goes on with a package that has room.
LEMMA PackageFound ==
    ASSUME TypeOK, RequestsFit, NEW h \in Handlers, FindPackage(h)
    PROVE  \/ Answer(h)
           \/ /\ request' \in [Handlers -> RequestType]
              /\ request'[h].pc = "create"
              /\ request'[h].p \in Packages
              /\ HasRoom(request'[h].p, request[h].kind)
              /\ request'[h].c = request[h].c
              /\ request'[h].by = "CLIENT"
              /\ request'[h].kind = request[h].kind
              /\ request'[h].linked = request[h].linked
              /\ \A g \in Handlers : g # h => request'[g] = request[g]
  <1>1. /\ request[h].c \in Conversations
        /\ request[h].by = "CLIENT"
    BY DEF FindPackage, Doing, RequestsFit, RequestFits
  <1> PICK p \in FindUsablePurchase(Serves[request[h].c], request[h].kind) :
          IF p = NoPackage THEN Answer(h)
          ELSE request' = [request EXCEPT ![h].pc = "create", ![h].p = p]
    BY DEF FindPackage
  <1>2. Serves[request[h].c] \in SUBSET Packages
    BY <1>1, MessagingAssumption
  <1>3. CASE p # NoPackage
    <2>1. p \in Packages /\ HasRoom(p, request[h].kind)
      BY <1>2, <1>3, FoundHasRoom
    <2> HIDE DEF HasRoom
    <2>2. request' = [request EXCEPT ![h].pc = "create", ![h].p = p]
      BY <1>3
    <2>3. /\ request' \in [Handlers -> RequestType]
          /\ request'[h].pc = "create"
          /\ request'[h].p = p
          /\ request'[h].c = request[h].c
          /\ request'[h].by = request[h].by
          /\ request'[h].kind = request[h].kind
          /\ request'[h].linked = request[h].linked
          /\ \A g \in Handlers : g # h => request'[g] = request[g]
      BY <2>1, <2>2 DEF TypeOK, RequestType, Pcs
    <2> QED
      BY <1>1, <2>1, <2>3
  <1> QED
    BY <1>3

\* The next-state relation, one disjunct for each action.
LEMMA MessagingSteps ==
    ASSUME Next
    PROVE  \/ \E h \in Handlers, c \in Conversations, by \in {"CLIENT", "CONSULTANT"},
                 kind \in Kinds : Send(h, c, by, kind)
           \/ \E h \in Handlers : FindPackage(h)
           \/ \E h \in Handlers : CreateMessage(h)
           \/ \E h \in Handlers : ConsumeMessage(h)
           \/ \E h \in Handlers : ClientUpdate(h)
           \/ \E h \in Handlers : ConsultantUpdate(h)
           \/ \E h \in Handlers, c \in Conversations : OpenByConsultant(h, c)
           \/ \E h \in Handlers : ReviewWrite(h)
           \/ \E h \in Handlers, c \in Conversations : OpenByClient(h, c)
           \/ \E h \in Handlers : CloseWrite(h)
           \/ \E h \in Handlers : Abort(h)
           \/ \E c \in Conversations : Close(c)
           \/ \E p \in Packages : PackageStep(p) /\ UNCHANGED messagingVars
  BY DEF Next

-----------------------------------------------------------------------------
\* Nobody has written anything.
LEMMA MessagingInitInv == Init => MessagingInv
  <1> SUFFICES ASSUME Init PROVE MessagingInv
    OBVIOUS
  <1> USE DEF Init, UsageInit
  <1>1. TypeOK
    BY UsageAssumption DEF TypeOK, UsageTypeOK, Statuses, Pcs, NoRequest
  <1>2. RequestsFit
    BY DEF RequestsFit, RequestFits, NoRequest
  <1>3. \A p \in Packages, kind \in Kinds : \A pcs : "idle" \notin pcs =>
            Cardinality(Requests(p, kind, pcs)) = 0
    <2> SUFFICES ASSUME NEW p \in Packages, NEW kind \in Kinds, NEW pcs, "idle" \notin pcs
                 PROVE  Cardinality(Requests(p, kind, pcs)) = 0
      OBVIOUS
    <2>1. Requests(p, kind, pcs) = {}
      BY DEF Requests, NoRequest
    <2> QED
      BY <2>1, FS_EmptySet
  <1>4. MessageOverrunBounded
    <2> SUFFICES ASSUME NEW p \in Packages, NEW kind \in Kinds, Metered(p, kind)
                 PROVE  used[p][kind] + Cardinality(Requests(p, kind, Taking))
                            <= Limit[p][kind] + Overrun
      BY DEF MessageOverrunBounded
    <2>1. Limit[p][kind] \in Nat
      BY UsageAssumption DEF Metered
    <2>2. Cardinality(Requests(p, kind, Taking)) = 0
      BY <1>3 DEF Taking
    <2>3. used[p][kind] = 0
      OBVIOUS
    <2> QED
      BY <2>1, <2>2, <2>3, HandlersAreCounted
  <1>5. MessagesAreMetered
    <2> SUFFICES ASSUME NEW p \in Packages, NEW kind \in Kinds
                 PROVE  messages[p][kind] = used[p][kind]
                            + Cardinality(Requests(p, kind, {"consume"}))
      BY DEF MessagesAreMetered
    <2>1. Cardinality(Requests(p, kind, {"consume"})) = 0
      BY <1>3
    <2>2. used[p][kind] = 0 /\ messages[p][kind] = 0
      OBVIOUS
    <2> QED
      BY <2>1, <2>2
  <1>6. WorkflowOnlyForSingle
    BY DEF WorkflowOnlyForSingle
  <1> QED
    BY <1>1, <1>2, <1>4, <1>5, <1>6 DEF MessagingInv

-----------------------------------------------------------------------------
\* Statuses, counters and requests keep their types.
LEMMA MessagingTypeStep ==
    ASSUME TypeOK, RequestsFit, Next
    PROVE  TypeOK'
  <1> USE DEF TypeOK, UsageTypeOK, Statuses, Doing, usageVars
  <1>0. /\ \A h \in Handlers : RequestFits(h)
        /\ TypeOK' <=> /\ UsageTypeOK'
                       /\ status' \in [Conversations -> Statuses]
                       /\ link' \in [Conversations -> Packages \cup {NoPackage}]
                       /\ messages' \in [Packages -> [Kinds -> Nat]]
                       /\ spentIn' \subseteq Conversations \X Packages
                       /\ request' \in [Handlers -> RequestType]
                       /\ response' \in [Conversations -> {"none", "sent", "read"}]
                       /\ cut' \subseteq Packages
    BY DEF RequestsFit, RequestType
  <1>1. ASSUME NEW h \in Handlers, NEW c \in Conversations,
               NEW by \in {"CLIENT", "CONSULTANT"}, NEW kind \in Kinds, Send(h, c, by, kind)
        PROVE  TypeOK'
    BY <1>0, <1>1 DEF Send, RequestType, Pcs
  <1>2. ASSUME NEW h \in Handlers, FindPackage(h) PROVE TypeOK'
    <2>1. request' \in [Handlers -> RequestType]
      BY <1>2, PackageFound, Answered
    <2> QED
      BY <1>0, <1>2, <2>1 DEF FindPackage
  <1>3. ASSUME NEW h \in Handlers, CreateMessage(h) PROVE TypeOK'
    <2>1. request' \in [Handlers -> RequestType]
      BY <1>3, Continued DEF CreateMessage, Pcs
    <2>2. /\ request[h].c \in Conversations
          /\ request[h].kind \in Kinds
          /\ request[h].by = "CLIENT" => request[h].p \in Packages
      BY <1>0, <1>3 DEF CreateMessage, RequestFits
    <2>3. messages' \in [Packages -> [Kinds -> Nat]] /\ spentIn' \subseteq Conversations \X Packages
      <3>1. CASE request[h].by = "CLIENT"
        <4>1. messages' = [messages EXCEPT ![request[h].p][request[h].kind] = @ + 1]
          BY <1>3, <3>1 DEF CreateMessage
        <4>2. spentIn' = spentIn \cup {<<request[h].c, request[h].p>>}
          BY <1>3, <3>1 DEF CreateMessage
        <4> QED
          BY <2>2, <3>1, <4>1, <4>2
      <3>2. CASE request[h].by # "CLIENT"
        BY <1>3, <3>2 DEF CreateMessage
      <3> QED
        BY <3>1, <3>2
    <2> QED
      BY <1>0, <1>3, <2>1, <2>3 DEF CreateMessage
  <1>4. ASSUME NEW h \in Handlers, ConsumeMessage(h) PROVE TypeOK'
    <2>1. request' \in [Handlers -> RequestType]
      BY <1>4, Continued DEF ConsumeMessage, Pcs
    <2>2. request[h].p \in Packages /\ request[h].kind \in Kinds
      BY <1>0, <1>4 DEF ConsumeMessage, RequestFits
    <2>3. used' \in [Packages -> [Kinds -> Nat]]
      BY <1>4, <2>2 DEF ConsumeMessage, Consume
    <2> QED
      BY <1>0, <1>4, <2>1, <2>3 DEF ConsumeMessage
  <1>5. ASSUME NEW h \in Handlers, ClientUpdate(h) PROVE TypeOK'
    BY <1>0, <1>5, Answered DEF ClientUpdate, RequestFits
  <1>6. ASSUME NEW h \in Handlers, ConsultantUpdate(h) PROVE TypeOK'
    BY <1>0, <1>6, Answered DEF ConsultantUpdate
  <1>7. ASSUME NEW h \in Handlers, NEW c \in Conversations, OpenByConsultant(h, c)
        PROVE  TypeOK'
    BY <1>0, <1>7 DEF OpenByConsultant, NoRequest, RequestType, Pcs
  <1>8. ASSUME NEW h \in Handlers, ReviewWrite(h) PROVE TypeOK'
    BY <1>0, <1>8, Answered DEF ReviewWrite
  <1>9. ASSUME NEW h \in Handlers, NEW c \in Conversations, OpenByClient(h, c)
        PROVE  TypeOK'
    <2> DEFINE r == [NoRequest EXCEPT !.pc = "close", !.c = c]
    <2>1. r \in RequestType
      BY DEF RequestType, Pcs, NoRequest
    <2>2. request' \in [Handlers -> RequestType]
      BY <1>0, <1>9, <2>1, Started DEF OpenByClient, RequestType
    <2>3. response' \in [Conversations -> {"none", "sent", "read"}]
      BY <1>9 DEF OpenByClient, Opened
    <2> QED
      BY <1>0, <1>9, <2>2, <2>3 DEF OpenByClient
  <1>10. ASSUME NEW h \in Handlers, CloseWrite(h) PROVE TypeOK'
    BY <1>0, <1>10, Answered DEF CloseWrite, Opened
  <1>11. ASSUME NEW h \in Handlers, Abort(h) PROVE TypeOK'
    BY <1>0, <1>11, Answered DEF Abort, RequestFits
  <1>12. ASSUME NEW c \in Conversations, Close(c) PROVE TypeOK'
    BY <1>12 DEF Close
  <1>13. ASSUME NEW p \in Packages, PackageStep(p), UNCHANGED messagingVars PROVE TypeOK'
    BY <1>13 DEF PackageStep, ActivatePackage, CancelPackage, Expire, messagingVars
  <1> QED
    BY <1>1, <1>2, <1>3, <1>4, <1>5, <1>6, <1>7, <1>8, <1>9, <1>10, <1>11, <1>12, <1>13,
       MessagingSteps

\* What a request carries stays true: packages spent in a conversation only grow.
LEMMA MessagingFitStep ==
    ASSUME TypeOK, RequestsFit, WorkflowOnlyForSingle, Next
    PROVE  RequestsFit'
  <1>0. /\ \A h \in Handlers : RequestFits(h)
        /\ \A h \in Handlers : request[h] \in RequestType
        /\ \A c \in Conversations : link[c] \in Packages \cup {NoPackage}
    BY DEF RequestsFit, TypeOK, RequestType
  <1>a. ASSUME NEW h \in Handlers, spentIn \subseteq spentIn', RequestFits(h)',
               \A g \in Handlers : g # h => request'[g] = request[g]
        PROVE  RequestsFit'
    <2>1. ASSUME NEW g \in Handlers, g # h PROVE RequestFits(g)'
      BY <1>0, <1>a, <2>1 DEF RequestFits, SingleIn
    <2> QED
      BY <1>a, <2>1 DEF RequestsFit
  <1>b. ASSUME NEW h \in Handlers, spentIn \subseteq spentIn', Answer(h) PROVE RequestsFit'
    <2>1. RequestFits(h)'
      BY <1>b, Answered DEF RequestFits, NoRequest
    <2> QED
      BY <1>a, <1>b, <2>1, Answered
  <1>c. ASSUME request' = request, spentIn' = spentIn PROVE RequestsFit'
    BY <1>0, <1>c DEF RequestsFit, RequestFits, SingleIn
  <1> USE DEF Doing
  <1>1. ASSUME NEW h \in Handlers, NEW c \in Conversations,
               NEW by \in {"CLIENT", "CONSULTANT"}, NEW kind \in Kinds, Send(h, c, by, kind)
        PROVE  RequestsFit'
    <2> DEFINE r == [pc |-> IF by = "CLIENT" THEN "find" ELSE "create", c |-> c, by |-> by,
                     kind |-> kind, p |-> NoPackage, linked |-> link[c]]
    <2>1. r \in RequestType
      BY <1>0 DEF RequestType, Pcs
    <2>2. request'[h] = r /\ \A g \in Handlers : g # h => request'[g] = request[g]
      BY <1>1, <2>1, Started DEF Send
    <2>3. link[c] # NoPackage => <<c, link[c]>> \in spentIn
      BY DEF WorkflowOnlyForSingle
    <2>4. RequestFits(h)'
      BY <1>1, <2>2, <2>3 DEF Send, RequestFits
    <2> QED
      BY <1>a, <1>1, <2>2, <2>4 DEF Send
  <1>2. ASSUME NEW h \in Handlers, FindPackage(h) PROVE RequestsFit'
    <2>1. CASE Answer(h)
      BY <1>b, <1>2, <2>1 DEF FindPackage
    <2>2. CASE ~ Answer(h)
      <3>1. request[h].pc = "find" /\ spentIn' = spentIn
        BY <1>2 DEF FindPackage
      <3>2. RequestFits(h)'
        BY <1>0, <1>2, <2>2, <3>1, PackageFound DEF RequestFits
      <3> QED
        BY <1>a, <1>2, <2>2, <3>1, <3>2, PackageFound
    <2> QED
      BY <2>1, <2>2
  <1>3. ASSUME NEW h \in Handlers, CreateMessage(h) PROVE RequestsFit'
    <2>1. RequestFits(h)'
      BY <1>0, <1>3, Continued DEF CreateMessage, RequestFits, Pcs, RequestType
    <2> QED
      BY <1>a, <1>3, <2>1, Continued DEF CreateMessage, Pcs
  <1>4. ASSUME NEW h \in Handlers, ConsumeMessage(h) PROVE RequestsFit'
    <2>1. RequestFits(h)'
      BY <1>0, <1>4, Continued DEF ConsumeMessage, RequestFits, Pcs
    <2> QED
      BY <1>a, <1>4, <2>1, Continued DEF ConsumeMessage, Pcs
  <1>5. ASSUME NEW h \in Handlers, ClientUpdate(h) PROVE RequestsFit'
    BY <1>b, <1>5 DEF ClientUpdate
  <1>6. ASSUME NEW h \in Handlers, ConsultantUpdate(h) PROVE RequestsFit'
    BY <1>b, <1>6 DEF ConsultantUpdate
  <1>7. ASSUME NEW h \in Handlers, NEW c \in Conversations, OpenByConsultant(h, c)
        PROVE  RequestsFit'
    <2> DEFINE r == [NoRequest EXCEPT !.pc = "review", !.c = c, !.by = "CONSULTANT"]
    <2>1. r \in RequestType
      BY DEF RequestType, Pcs, NoRequest
    <2>2. request'[h] = r /\ \A g \in Handlers : g # h => request'[g] = request[g]
      BY <1>7, <2>1, Started DEF OpenByConsultant
    <2>3. SingleIn(c)
      BY <1>7 DEF OpenByConsultant, WorkflowOnlyForSingle, SingleIn
    <2>4. /\ request'[h].pc = "review"
          /\ request'[h].c = c
          /\ request'[h].linked = NoPackage
      BY <2>2 DEF NoRequest
    <2>5. SingleIn(c)'
      BY <1>7, <2>3 DEF OpenByConsultant, SingleIn
    <2>6. RequestFits(h)'
      BY <2>4, <2>5 DEF RequestFits, SingleIn
    <2> QED
      BY <1>a, <1>7, <2>2, <2>6 DEF OpenByConsultant
  <1>8. ASSUME NEW h \in Handlers, ReviewWrite(h) PROVE RequestsFit'
    BY <1>b, <1>8 DEF ReviewWrite
  <1>9. ASSUME NEW h \in Handlers, NEW c \in Conversations, OpenByClient(h, c)
        PROVE  RequestsFit'
    <2>1. CASE UNCHANGED request
      BY <1>c, <1>9, <2>1 DEF OpenByClient
    <2>2. CASE request' = [request EXCEPT ![h] = [NoRequest EXCEPT !.pc = "close", !.c = c]]
      <3> DEFINE r == [NoRequest EXCEPT !.pc = "close", !.c = c]
      <3>1. r \in RequestType
        BY DEF RequestType, Pcs, NoRequest
      <3>2. request'[h] = r /\ \A g \in Handlers : g # h => request'[g] = request[g]
        BY <2>2, <3>1, Started
      <3>3. RequestFits(h)'
        BY <3>2 DEF RequestFits, NoRequest
      <3> QED
        BY <1>a, <1>9, <3>2, <3>3 DEF OpenByClient
    <2> QED
      BY <1>9, <2>1, <2>2 DEF OpenByClient
  <1>10. ASSUME NEW h \in Handlers, CloseWrite(h) PROVE RequestsFit'
    BY <1>b, <1>10 DEF CloseWrite
  <1>11. ASSUME NEW h \in Handlers, Abort(h) PROVE RequestsFit'
    BY <1>b, <1>11 DEF Abort
  <1>12. ASSUME NEW c \in Conversations, Close(c) PROVE RequestsFit'
    BY <1>c, <1>12 DEF Close
  <1>13. ASSUME NEW p \in Packages, PackageStep(p), UNCHANGED messagingVars
         PROVE  RequestsFit'
    BY <1>c, <1>13 DEF messagingVars
  <1> QED
    BY <1>1, <1>2, <1>3, <1>4, <1>5, <1>6, <1>7, <1>8, <1>9, <1>10, <1>11, <1>12, <1>13,
       MessagingSteps

-----------------------------------------------------------------------------
\* Steps that count nothing: nobody moves, or one request goes where it holds no
\* package, from anywhere but the charge.
OthersStay(h) == \A g \in Handlers : g # h => request'[g] = request[g]
Still == UNCHANGED <<used, messages, cut, request>>
Quiet(h) ==
    /\ UNCHANGED <<used, messages, cut>>
    /\ request[h].pc # "consume"
    /\ request'[h].p = NoPackage
    /\ OthersStay(h)

\* Steps that count.
Admit(h) ==
    /\ UNCHANGED <<used, messages, cut>>
    /\ request[h].pc = "find"
    /\ request'[h].pc = "create"
    /\ request'[h].kind = request[h].kind
    /\ request[h].kind \in Kinds
    /\ request'[h].p \in Packages
    /\ HasRoom(request'[h].p, request'[h].kind)
    /\ OthersStay(h)
ChargeCut(h) ==
    /\ UNCHANGED <<used, messages>>
    /\ request[h].pc = "consume"
    /\ cut' = cut \cup {request[h].p}
    /\ request'[h].p = NoPackage
    /\ OthersStay(h)

\* Every step is one of these, or creates or counts a message.
LEMMA CountingSteps ==
    ASSUME TypeOK, RequestsFit, Next
    PROVE  \/ Still
           \/ \E h \in Handlers : Quiet(h) \/ Admit(h) \/ ChargeCut(h)
           \/ \E h \in Handlers : CreateMessage(h)
           \/ \E h \in Handlers : ConsumeMessage(h)
  <1> USE DEF Doing, usageVars, Quiet, OthersStay
  <1>0. ASSUME NEW h \in Handlers, Answer(h), request[h].pc # "consume",
               UNCHANGED <<used, messages, cut>>
        PROVE  Quiet(h)
    BY <1>0, Answered DEF NoRequest
  <1>1. ASSUME NEW h \in Handlers, NEW c \in Conversations,
               NEW by \in {"CLIENT", "CONSULTANT"}, NEW kind \in Kinds, Send(h, c, by, kind)
        PROVE  Quiet(h)
    BY <1>1 DEF Send, TypeOK
  <1>2. ASSUME NEW h \in Handlers, FindPackage(h) PROVE Quiet(h) \/ Admit(h)
    <2>1. /\ request[h].pc = "find" /\ request[h].kind \in Kinds
          /\ UNCHANGED <<used, messages, cut>>
      BY <1>2 DEF FindPackage, RequestsFit, RequestFits
    <2>2. CASE Answer(h)
      BY <1>0, <2>1, <2>2
    <2>3. CASE ~ Answer(h)
      BY <1>2, <2>1, <2>3, PackageFound DEF Admit
    <2> QED
      BY <2>2, <2>3
  <1>3. ASSUME NEW h \in Handlers, ClientUpdate(h) PROVE Quiet(h)
    BY <1>0, <1>3 DEF ClientUpdate
  <1>4. ASSUME NEW h \in Handlers, ConsultantUpdate(h) PROVE Quiet(h)
    BY <1>0, <1>4 DEF ConsultantUpdate
  <1>5. ASSUME NEW h \in Handlers, NEW c \in Conversations, OpenByConsultant(h, c)
        PROVE  Quiet(h)
    BY <1>5 DEF OpenByConsultant, NoRequest, TypeOK
  <1>6. ASSUME NEW h \in Handlers, ReviewWrite(h) PROVE Quiet(h)
    BY <1>0, <1>6 DEF ReviewWrite
  <1>7. ASSUME NEW h \in Handlers, NEW c \in Conversations, OpenByClient(h, c)
        PROVE  Still \/ Quiet(h)
    <2>1. CASE UNCHANGED request
      BY <1>7, <2>1 DEF OpenByClient, Still
    <2>2. CASE request' = [request EXCEPT ![h] = [NoRequest EXCEPT !.pc = "close", !.c = c]]
      BY <1>7, <2>2 DEF OpenByClient, NoRequest, TypeOK
    <2> QED
      BY <1>7, <2>1, <2>2 DEF OpenByClient
  <1>8. ASSUME NEW h \in Handlers, CloseWrite(h) PROVE Quiet(h)
    BY <1>0, <1>8 DEF CloseWrite
  <1>9. ASSUME NEW h \in Handlers, Abort(h) PROVE Quiet(h) \/ ChargeCut(h)
    <2>1. CASE Doing(h, "consume")
      BY <1>9, <2>1, Answered DEF Abort, ChargeCut, NoRequest
    <2>2. CASE ~ Doing(h, "consume")
      BY <1>0, <1>9, <2>2 DEF Abort
    <2> QED
      BY <2>1, <2>2
  <1>10. ASSUME NEW c \in Conversations, Close(c) PROVE Still
    BY <1>10 DEF Close, Still
  <1>11. ASSUME NEW p \in Packages, PackageStep(p), UNCHANGED messagingVars PROVE Still
    BY <1>11 DEF PackageStep, ActivatePackage, CancelPackage, Expire, messagingVars, Still
  <1> QED
    BY <1>1, <1>2, <1>3, <1>4, <1>5, <1>6, <1>7, <1>8, <1>9, <1>10, <1>11, MessagingSteps

\* How a count moves when one request does.
LEMMA CountMoves ==
    ASSUME NEW h \in Handlers, OthersStay(h),
           NEW p, NEW kind, NEW pcs
    PROVE  LET before == Requests(p, kind, pcs)
               after == Requests(p, kind, pcs)' IN
           /\ Cardinality(before) \in Nat
           /\ Cardinality(after) \in Nat
           /\ Cardinality(after) <= Overrun + 1
           /\ (h \in before <=> h \in after) => Cardinality(after) = Cardinality(before)
           /\ h \in after /\ h \notin before => Cardinality(after) = Cardinality(before) + 1
           /\ h \in before /\ h \notin after => Cardinality(after) = Cardinality(before) - 1
  <1> DEFINE before == Requests(p, kind, pcs)
             after == Requests(p, kind, pcs)'
  <1>1. before \in SUBSET Handlers /\ after \in SUBSET Handlers
    BY DEF Requests
  <1>2. \A g \in Handlers : g # h => (g \in before <=> g \in after)
    BY DEF Requests, OthersStay
  <1> HIDE DEF before, after
  <1>3. /\ Cardinality(before) \in Nat
        /\ Cardinality(after) \in Nat
        /\ Cardinality(after) <= Overrun + 1
    BY <1>1, SomeHandlers
  <1>4. (h \in before <=> h \in after) => after = before
    BY <1>1, <1>2
  <1>5. h \in after /\ h \notin before => after = before \cup {h}
    BY <1>1, <1>2
  <1>6. h \in before /\ h \notin after => after = before \ {h}
    BY <1>1, <1>2
  <1>7. h \in after /\ h \notin before => Cardinality(after) = Cardinality(before) + 1
    BY <1>1, <1>5, HandlerEnters
  <1>8. h \in before /\ h \notin after => Cardinality(after) = Cardinality(before) - 1
    BY <1>1, <1>6, HandlerLeaves
  <1> QED
    BY <1>3, <1>4, <1>7, <1>8 DEF before, after

\* What creating a message does to the request and the messages of a package.
LEMMA MessageCreated ==
    ASSUME TypeOK, RequestsFit, NEW h \in Handlers, CreateMessage(h),
           NEW p \in Packages, NEW kind \in Kinds
    PROVE  /\ OthersStay(h)
           /\ UNCHANGED <<used, cut>>
           /\ h \in Requests(p, kind, Taking)' => h \in Requests(p, kind, Taking)
           /\ h \notin Requests(p, kind, {"consume"})
           /\ messages'[p][kind] = IF h \in Requests(p, kind, {"consume"})'
                                   THEN messages[p][kind] + 1 ELSE messages[p][kind]
  <1>1. request[h].pc = "create" /\ UNCHANGED <<used, cut>>
    BY DEF CreateMessage, Doing, usageVars
  <1>2. CASE request[h].by = "CLIENT"
    <2>1. Continue(h, "consume")
      BY <1>2 DEF CreateMessage
    <2>2. messages' = [messages EXCEPT ![request[h].p][request[h].kind] = @ + 1]
      BY <1>2 DEF CreateMessage
    <2>3. request[h].p \in Packages /\ request[h].kind \in Kinds
      BY <1>1, <1>2 DEF RequestsFit, RequestFits
    <2>4. /\ OthersStay(h) /\ request'[h].pc = "consume"
          /\ request'[h].p = request[h].p /\ request'[h].kind = request[h].kind
      BY <2>1, Continued DEF OthersStay, Pcs
    <2>5. h \in Requests(p, kind, {"consume"})' <=> request[h].p = p /\ request[h].kind = kind
      BY <2>4 DEF Requests
    <2>6. messages'[p][kind] = IF request[h].p = p /\ request[h].kind = kind
                               THEN messages[p][kind] + 1 ELSE messages[p][kind]
      BY <2>2, <2>3 DEF TypeOK
    <2> QED
      BY <1>1, <2>4, <2>5, <2>6 DEF Requests, Taking
  <1>3. CASE request[h].by # "CLIENT"
    <2>1. Continue(h, "update") /\ messages' = messages
      BY <1>3 DEF CreateMessage
    <2>2. OthersStay(h) /\ request'[h].pc = "update"
      BY <2>1, Continued DEF OthersStay, Pcs
    <2> QED
      BY <1>1, <2>1, <2>2 DEF Requests, Taking
  <1> QED
    BY <1>2, <1>3

\* What counting a message does to them.
LEMMA MessageConsumed ==
    ASSUME TypeOK, RequestsFit, NEW h \in Handlers, ConsumeMessage(h),
           NEW p \in Packages, NEW kind \in Kinds
    PROVE  /\ OthersStay(h)
           /\ UNCHANGED <<messages, cut>>
           /\ h \in Requests(p, kind, Taking) <=> h \in Requests(p, kind, {"consume"})
           /\ h \notin Requests(p, kind, Taking)'
           /\ h \notin Requests(p, kind, {"consume"})'
           /\ used'[p][kind] = IF h \in Requests(p, kind, {"consume"})
                               THEN used[p][kind] + 1 ELSE used[p][kind]
  <1>1. request[h].pc = "consume" /\ UNCHANGED <<messages, cut>> /\ Continue(h, "update")
    BY DEF ConsumeMessage, Doing
  <1>2. used' = [used EXCEPT ![request[h].p][request[h].kind] = @ + 1]
    BY DEF ConsumeMessage, Consume
  <1>3. request[h].p \in Packages /\ request[h].kind \in Kinds
    BY <1>1 DEF RequestsFit, RequestFits
  <1>4. OthersStay(h) /\ request'[h].pc = "update"
    BY <1>1, Continued DEF OthersStay, Pcs
  <1>5. h \in Requests(p, kind, {"consume"}) <=> request[h].p = p /\ request[h].kind = kind
    BY <1>1 DEF Requests
  <1>6. used'[p][kind] = IF request[h].p = p /\ request[h].kind = kind
                         THEN used[p][kind] + 1 ELSE used[p][kind]
    BY <1>2, <1>3 DEF TypeOK, UsageTypeOK
  <1> QED
    BY <1>1, <1>4, <1>5, <1>6 DEF Requests, Taking

-----------------------------------------------------------------------------
\* A request is admitted only while there is room, and room covers everybody.
LEMMA MessagingBoundStep ==
    ASSUME TypeOK, RequestsFit, MessageOverrunBounded, Next
    PROVE  MessageOverrunBounded'
  <1> SUFFICES ASSUME NEW p \in Packages, NEW kind \in Kinds, Metered(p, kind)
               PROVE  used'[p][kind] + Cardinality(Requests(p, kind, Taking)')
                          <= Limit[p][kind] + Overrun
    BY DEF MessageOverrunBounded, Metered
  <1> DEFINE N == Cardinality(Requests(p, kind, Taking))
             M == Cardinality(Requests(p, kind, Taking)')
  <1>1. /\ used[p][kind] \in Nat
        /\ Limit[p][kind] \in Nat
        /\ Overrun \in Nat
        /\ used[p][kind] + N <= Limit[p][kind] + Overrun
    BY UsageAssumption, HandlersAreCounted
       DEF TypeOK, UsageTypeOK, Metered, MessageOverrunBounded
  <1>2. CASE Still
    <2>1. M = N /\ used' = used
      BY <1>2 DEF Still, Requests
    <2> QED
      BY <1>1, <2>1
  <1>3. ASSUME NEW h \in Handlers, Quiet(h) \/ ChargeCut(h)
        PROVE  used'[p][kind] + M <= Limit[p][kind] + Overrun
    <2>1. OthersStay(h) /\ used' = used /\ h \notin Requests(p, kind, Taking)'
      BY <1>3, UsageAssumption DEF Quiet, ChargeCut, Requests
    <2>2. N \in Nat /\ M \in Nat /\ M <= N
      BY <2>1, CountMoves
    <2> QED
      BY <1>1, <2>1, <2>2
  <1>4. ASSUME NEW h \in Handlers, Admit(h)
        PROVE  used'[p][kind] + M <= Limit[p][kind] + Overrun
    <2>1. OthersStay(h) /\ used' = used
      BY <1>4 DEF Admit
    <2>2. N \in Nat /\ M \in Nat /\ M <= Overrun + 1
      BY <2>1, CountMoves
    <2>3. CASE h \in Requests(p, kind, Taking)'
      <3>1. used[p][kind] < Limit[p][kind]
        <4>1. request'[h].p = p /\ request'[h].kind = kind
          BY <2>3 DEF Requests
        <4>2. HasRoom(p, kind)
          BY <1>4, <4>1 DEF Admit
        <4> QED
          BY <4>2 DEF HasRoom
      <3> QED
        BY <1>1, <2>1, <2>2, <3>1
    <2>4. CASE h \notin Requests(p, kind, Taking)'
      <3>1. M <= N
        BY <2>1, <2>4, CountMoves
      <3> QED
        BY <1>1, <2>1, <2>2, <3>1
    <2> QED
      BY <2>3, <2>4
  <1>5. ASSUME NEW h \in Handlers, CreateMessage(h)
        PROVE  used'[p][kind] + M <= Limit[p][kind] + Overrun
    <2>1. OthersStay(h) /\ used' = used
          /\ (h \in Requests(p, kind, Taking)' => h \in Requests(p, kind, Taking))
      BY <1>5, MessageCreated
    <2>2. N \in Nat /\ M \in Nat /\ M <= N
      BY <2>1, CountMoves
    <2> QED
      BY <1>1, <2>1, <2>2
  <1>6. ASSUME NEW h \in Handlers, ConsumeMessage(h)
        PROVE  used'[p][kind] + M <= Limit[p][kind] + Overrun
    <2>1. /\ OthersStay(h)
          /\ h \notin Requests(p, kind, Taking)'
          /\ used'[p][kind] = IF h \in Requests(p, kind, Taking)
                              THEN used[p][kind] + 1 ELSE used[p][kind]
      BY <1>6, MessageConsumed
    <2>2. /\ N \in Nat /\ M \in Nat
          /\ M = IF h \in Requests(p, kind, Taking) THEN N - 1 ELSE N
      BY <2>1, CountMoves
    <2> QED
      BY <1>1, <2>1, <2>2
  <1> QED
    BY <1>2, <1>3, <1>4, <1>5, <1>6, CountingSteps

\* Message, request at the charge and counter move together.
LEMMA MessagingMeteredStep ==
    ASSUME TypeOK, RequestsFit, MessagesAreMetered, Next
    PROVE  MessagesAreMetered'
  <1> DEFINE At(p, kind) == Requests(p, kind, {"consume"})
             N(p, kind) == Cardinality(Requests(p, kind, {"consume"}))
             M(p, kind) == Cardinality(Requests(p, kind, {"consume"})')
  <1> SUFFICES ASSUME NEW p \in Packages, NEW kind \in Kinds
               PROVE  /\ messages'[p][kind] >= used'[p][kind] + M(p, kind)
                      /\ p \notin cut' => messages'[p][kind] = used'[p][kind] + M(p, kind)
    BY DEF MessagesAreMetered
  <1>1. /\ used[p][kind] \in Nat
        /\ messages[p][kind] \in Nat
        /\ messages[p][kind] >= used[p][kind] + N(p, kind)
        /\ p \notin cut => messages[p][kind] = used[p][kind] + N(p, kind)
    BY DEF TypeOK, UsageTypeOK, MessagesAreMetered
  <1>2. CASE Still
    <2>1. M(p, kind) = N(p, kind)
      BY <1>2 DEF Still, Requests
    <2> QED
      BY <1>1, <1>2, <2>1 DEF Still
  <1>3. ASSUME NEW h \in Handlers, Quiet(h) \/ Admit(h)
        PROVE  /\ messages'[p][kind] >= used'[p][kind] + M(p, kind)
               /\ p \notin cut' => messages'[p][kind] = used'[p][kind] + M(p, kind)
    <2>1. /\ OthersStay(h) /\ UNCHANGED <<used, messages, cut>>
          /\ h \notin At(p, kind)
          /\ h \notin At(p, kind)'
      BY <1>3, UsageAssumption DEF Quiet, Admit, Requests
    <2>2. M(p, kind) = N(p, kind)
      BY <2>1, CountMoves
    <2> QED
      BY <1>1, <2>1, <2>2
  <1>4. ASSUME NEW h \in Handlers, ChargeCut(h)
        PROVE  /\ messages'[p][kind] >= used'[p][kind] + M(p, kind)
               /\ p \notin cut' => messages'[p][kind] = used'[p][kind] + M(p, kind)
    <2>1. /\ OthersStay(h) /\ UNCHANGED <<used, messages>>
          /\ h \notin At(p, kind)'
          /\ h \in At(p, kind) => p \in cut'
          /\ cut \subseteq cut'
      BY <1>4, UsageAssumption DEF ChargeCut, Requests
    <2>2. /\ N(p, kind) \in Nat /\ M(p, kind) \in Nat
          /\ M(p, kind) = IF h \in At(p, kind) THEN N(p, kind) - 1 ELSE N(p, kind)
      BY <2>1, CountMoves
    <2> QED
      BY <1>1, <2>1, <2>2
  <1>5. ASSUME NEW h \in Handlers, CreateMessage(h)
        PROVE  /\ messages'[p][kind] >= used'[p][kind] + M(p, kind)
               /\ p \notin cut' => messages'[p][kind] = used'[p][kind] + M(p, kind)
    <2>1. /\ OthersStay(h) /\ UNCHANGED <<used, cut>>
          /\ h \notin At(p, kind)
          /\ messages'[p][kind] = IF h \in At(p, kind)'
                                  THEN messages[p][kind] + 1 ELSE messages[p][kind]
      BY <1>5, MessageCreated
    <2>2. /\ N(p, kind) \in Nat /\ M(p, kind) \in Nat
          /\ M(p, kind) = IF h \in At(p, kind)' THEN N(p, kind) + 1 ELSE N(p, kind)
      BY <2>1, CountMoves
    <2> QED
      BY <1>1, <2>1, <2>2
  <1>6. ASSUME NEW h \in Handlers, ConsumeMessage(h)
        PROVE  /\ messages'[p][kind] >= used'[p][kind] + M(p, kind)
               /\ p \notin cut' => messages'[p][kind] = used'[p][kind] + M(p, kind)
    <2>1. /\ OthersStay(h) /\ UNCHANGED <<messages, cut>>
          /\ h \notin At(p, kind)'
          /\ used'[p][kind] = IF h \in At(p, kind) THEN used[p][kind] + 1 ELSE used[p][kind]
      BY <1>6, MessageConsumed
    <2>2. /\ N(p, kind) \in Nat /\ M(p, kind) \in Nat
          /\ M(p, kind) = IF h \in At(p, kind) THEN N(p, kind) - 1 ELSE N(p, kind)
      BY <2>1, CountMoves
    <2> QED
      BY <1>1, <2>1, <2>2
  <1> QED
    BY <1>2, <1>3, <1>4, <1>5, <1>6, CountingSteps

\* Only updates on a SINGLE package, and a review of a submitted one, start or
\* continue a workflow.
LEMMA MessagingWorkflowStep ==
    ASSUME TypeOK, RequestsFit, WorkflowOnlyForSingle, Next
    PROVE  WorkflowOnlyForSingle'
  <1> DEFINE Fine(c) == /\ status[c] \notin {"ACTIVE", "CLOSED"} => SingleIn(c)
                        /\ link[c] # NoPackage => <<c, link[c]>> \in spentIn
  <1>0. /\ WorkflowOnlyForSingle <=> \A c \in Conversations : Fine(c)
        /\ WorkflowOnlyForSingle' <=> \A c \in Conversations : Fine(c)'
        /\ \A h \in Handlers : RequestFits(h)
        /\ status \in [Conversations -> Statuses]
        /\ link \in [Conversations -> Packages \cup {NoPackage}]
    BY DEF WorkflowOnlyForSingle, SingleIn, RequestsFit, TypeOK
  <1>a. ASSUME UNCHANGED <<status, link>>, spentIn \subseteq spentIn'
        PROVE  WorkflowOnlyForSingle'
    BY <1>0, <1>a DEF SingleIn
  <1>b. ASSUME NEW c \in Conversations, UNCHANGED <<link, spentIn>>,
               NEW s, s \in {"ACTIVE", "CLOSED"} \/ SingleIn(c),
               status' = [status EXCEPT ![c] = s]
        PROVE  WorkflowOnlyForSingle'
    BY <1>0, <1>b DEF SingleIn
  <1> USE DEF Doing
  <1>1. ASSUME NEW h \in Handlers, CreateMessage(h) PROVE WorkflowOnlyForSingle'
    BY <1>a, <1>1 DEF CreateMessage
  <1>2. ASSUME NEW h \in Handlers, ClientUpdate(h) PROVE WorkflowOnlyForSingle'
    <2> DEFINE r == request[h]
    <2>1. /\ r.c \in Conversations /\ r.p \in Packages
          /\ <<r.c, r.p>> \in spentIn
          /\ spentIn' = spentIn
      BY <1>0, <1>2 DEF ClientUpdate, RequestFits
    <2>2. \A c \in Conversations : link'[c] = link[c] \/ (c = r.c /\ link'[c] = r.p)
      BY <1>0, <1>2, <2>1 DEF ClientUpdate
    <2>3. \A c \in Conversations : status'[c] = status[c] \/ (c = r.c /\ IsSingle(r.p))
      BY <1>0, <1>2, <2>1 DEF ClientUpdate
    <2> QED
      BY <1>0, <2>1, <2>2, <2>3 DEF SingleIn
  <1>3. ASSUME NEW h \in Handlers, ConsultantUpdate(h) PROVE WorkflowOnlyForSingle'
    <2>1. CASE IsSingle(request[h].linked)
      <3>1. /\ request[h].c \in Conversations
            /\ request[h].linked \in Packages
            /\ <<request[h].c, request[h].linked>> \in spentIn
        BY <1>0, <1>3, <2>1 DEF ConsultantUpdate, RequestFits, IsSingle, TypeOK
      <3>2. SingleIn(request[h].c)
        BY <2>1, <3>1 DEF SingleIn
      <3> QED
        BY <1>b, <1>3, <2>1, <3>1, <3>2 DEF ConsultantUpdate
    <2>2. CASE ~ IsSingle(request[h].linked)
      BY <1>a, <1>3, <2>2 DEF ConsultantUpdate
    <2> QED
      BY <2>1, <2>2
  <1>4. ASSUME NEW h \in Handlers, ReviewWrite(h) PROVE WorkflowOnlyForSingle'
    <2>1. request[h].c \in Conversations /\ SingleIn(request[h].c)
      BY <1>0, <1>4 DEF ReviewWrite, RequestFits
    <2> QED
      BY <1>b, <1>4, <2>1 DEF ReviewWrite
  <1>5. ASSUME NEW h \in Handlers, CloseWrite(h) PROVE WorkflowOnlyForSingle'
    <2>1. request[h].c \in Conversations
      BY <1>0, <1>5 DEF CloseWrite, RequestFits
    <2> QED
      BY <1>b, <1>5, <2>1 DEF CloseWrite
  <1>6. ASSUME NEW c \in Conversations, Close(c) PROVE WorkflowOnlyForSingle'
    BY <1>b, <1>6 DEF Close
  <1>7. ASSUME UNCHANGED <<status, link, spentIn>> PROVE WorkflowOnlyForSingle'
    BY <1>a, <1>7
  <1> QED
    BY <1>1, <1>2, <1>3, <1>4, <1>5, <1>6, <1>7, MessagingSteps
       DEF Send, FindPackage, ConsumeMessage, OpenByConsultant, OpenByClient, Abort,
           messagingVars

-----------------------------------------------------------------------------
\* The inductive invariant holds in every reachable state.
THEOREM MessagingInvariant == Spec => []MessagingInv
  <1>1. MessagingInv /\ [Next]_vars => MessagingInv'
    <2> SUFFICES ASSUME MessagingInv, [Next]_vars PROVE MessagingInv'
      OBVIOUS
    <2>1. CASE Next
      BY <2>1, MessagingTypeStep, MessagingFitStep, MessagingBoundStep,
         MessagingMeteredStep, MessagingWorkflowStep DEF MessagingInv
    <2>2. CASE UNCHANGED vars
      <3> USE <2>2 DEF vars, usageVars, messagingVars, MessagingInv
      <3>1. TypeOK' /\ WorkflowOnlyForSingle'
        BY DEF TypeOK, UsageTypeOK, WorkflowOnlyForSingle
      <3>2. RequestsFit'
        BY DEF RequestsFit, RequestFits, SingleIn
      <3>3. \A p, kind, pcs : Requests(p, kind, pcs)' = Requests(p, kind, pcs)
        BY DEF Requests
      <3>4. MessageOverrunBounded' /\ MessagesAreMetered'
        BY <3>3 DEF MessageOverrunBounded, MessagesAreMetered, Metered
      <3> QED
        BY <3>1, <3>2, <3>4
    <2> QED
      BY <2>1, <2>2
  <1> QED
    BY <1>1, MessagingInitInv, PTL DEF Spec

\* Every variable keeps its type (MessagingService).
THEOREM MessagingTypeCorrect == Spec => []TypeOK
  BY MessagingInvariant, PTL DEF MessagingInv

\* However many requests send at once, a package gives at most one message of a
\* kind beyond its limit for each request but the first (sendMessage).
THEOREM MessagesOverrunBounded == Spec => []MessageOverrunBounded
  BY MessagingInvariant, PTL DEF MessagingInv

\* Every message created on a package is counted once, unless its request died
\* before it could (sendMessage).
THEOREM MessagesCounted == Spec => []MessagesAreMetered
  BY MessagingInvariant, PTL DEF MessagingInv

\* A conversation is in the workflow only if a SINGLE package was spent in it
\* (sendMessage, markRead).
THEOREM WorkflowNeedsSingle == Spec => []WorkflowOnlyForSingle
  BY MessagingInvariant, PTL DEF MessagingInv
=============================================================================
