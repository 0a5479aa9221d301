----------------------------- MODULE Messaging -----------------------------
(***************************************************************************)
(* MessagingService: conversations between a client and consultants, the   *)
(* allowance a client's messages are metered against, and the workflow of  *)
(* a "Book a Chat" (SINGLE) consultation.                                  *)
(*                                                                         *)
(* sendMessage and markRead read the conversation, then several other      *)
(* rows, and write the status last, from what they read first.  The text   *)
(* of messages, their delivery ticks, editing and reactions are left out.  *)
(***************************************************************************)
EXTENDS Usage

CONSTANTS Conversations,  \* conversation rows, all of one client
          Serves,         \* conversation -> packages that may be used in it
          Mode            \* Purchase.consultationMode: "CHAT" or "SINGLE"

ASSUME MessagingAssumption ==
    /\ Serves \in [Conversations -> SUBSET Packages]
    /\ Mode \in [Packages -> {"CHAT", "SINGLE"}]

VARIABLES status,    \* Conversation.status
          link,      \* Conversation.purchaseId
          messages,  \* messages of the client created on a package, per kind
          spentIn,   \* <<conversation, package>>: some message was created so
          request,   \* what each handler is doing
          response,  \* history: the consultant's last answer, "none", "sent"
                     \* or "read" by a client who opened it after it was sent
          cut        \* history: packages a request died on before the charge

messagingVars == <<status, link, messages, spentIn, request, response, cut>>
vars == <<usageVars, messagingVars>>

\* WAITING_SUBMISSION is in the schema; no code writes it.
Statuses == {"ACTIVE", "MESSAGE_SUBMITTED", "UNDER_REVIEW", "RESPONSE_SENT", "CLOSED"}

Pcs == {"idle", "find", "create", "consume", "update", "review", "close"}

\* Past the check of the allowance, before the increment.
Taking == {"create", "consume"}

NoConversation == "no conversation"

\* by: the role of the sender; kind: of the message; p: the client's package;
\* linked: the conversation's purchaseId when it was read.
NoRequest == [pc |-> "idle", c |-> NoConversation, by |-> "CLIENT", kind |-> "none",
              p |-> NoPackage, linked |-> NoPackage]

TypeOK ==
    /\ UsageTypeOK
    /\ status \in [Conversations -> Statuses]
    /\ link \in [Conversations -> Packages \cup {NoPackage}]
    /\ messages \in [Packages -> [Kinds -> Nat]]
    /\ spentIn \subseteq Conversations \X Packages
    /\ request \in [Handlers -> [pc : Pcs, c : Conversations \cup {NoConversation},
                                 by : {"CLIENT", "CONSULTANT"}, kind : Kinds \cup {"none"},
                                 p : Packages \cup {NoPackage},
                                 linked : Packages \cup {NoPackage}]]
    /\ response \in [Conversations -> {"none", "sent", "read"}]
    /\ cut \subseteq Packages

Init ==
    /\ UsageInit
    /\ status = [c \in Conversations |-> "ACTIVE"]
    /\ link = [c \in Conversations |-> NoPackage]
    /\ messages = [p \in Packages |-> [k \in Kinds |-> 0]]
    /\ spentIn = {}
    /\ request = [h \in Handlers |-> NoRequest]
    /\ response = [c \in Conversations |-> "none"]
    /\ cut = {}

-----------------------------------------------------------------------------
Doing(h, pc) == request[h].pc = pc

Continue(h, pc) == request' = [request EXCEPT ![h].pc = pc]

Answer(h) == request' = [request EXCEPT ![h] = NoRequest]

\* modeForConversation: unlinked conversations count as CHAT.
IsSingle(p) == p # NoPackage /\ Mode[p] = "SINGLE"

\* sendMessage reads the conversation.
Send(h, c, by, kind) ==
    /\ Doing(h, "idle")
    /\ request' = [request EXCEPT ![h] =
            [pc |-> IF by = "CLIENT" THEN "find" ELSE "create", c |-> c, by |-> by,
             kind |-> kind, p |-> NoPackage, linked |-> link[c]]]
    /\ UNCHANGED <<usageVars, status, link, messages, spentIn, response, cut>>

\* Mutant of FindPackage: a package that is used up still counts.
FindAnyPackage(h) ==
    /\ Doing(h, "find")
    /\ \E p \in Serves[request[h].c] :
          /\ standing[p] = "ACTIVE"
          /\ request' = [request EXCEPT ![h].pc = "create", ![h].p = p]
    /\ UNCHANGED <<usageVars, status, link, messages, spentIn, response, cut>>

\* A client needs a usable package; without one the request is refused.
FindPackage(h) ==
    /\ Doing(h, "find")
    /\ \E p \in FindUsablePurchase(Serves[request[h].c], request[h].kind) :
          IF p = NoPackage THEN Answer(h)
          ELSE request' = [request EXCEPT ![h].pc = "create", ![h].p = p]
    /\ UNCHANGED <<usageVars, status, link, messages, spentIn, response, cut>>

\* Mutant of CreateMessage: the charge is forgotten.
CreateFreeMessage(h) ==
    LET r == request[h] IN
    /\ Doing(h, "create")
    /\ IF r.by = "CLIENT"
       THEN /\ messages' = [messages EXCEPT ![r.p][r.kind] = @ + 1]
            /\ spentIn' = spentIn \cup {<<r.c, r.p>>}
       ELSE UNCHANGED <<messages, spentIn>>
    /\ Continue(h, "update")
    /\ UNCHANGED <<usageVars, status, link, response, cut>>

\* The message row; replies of the consultant are not metered.
CreateMessage(h) ==
    LET r == request[h] IN
    /\ Doing(h, "create")
    /\ IF r.by = "CLIENT"
       THEN /\ messages' = [messages EXCEPT ![r.p][r.kind] = @ + 1]
            /\ spentIn' = spentIn \cup {<<r.c, r.p>>}
            /\ Continue(h, "consume")
       ELSE /\ Continue(h, "update")
            /\ UNCHANGED <<messages, spentIn>>
    /\ UNCHANGED <<usageVars, status, link, response, cut>>

ConsumeMessage(h) ==
    /\ Doing(h, "consume")
    /\ Consume(request[h].p, request[h].kind)
    /\ Continue(h, "update")
    /\ UNCHANGED <<standing, expired, status, link, messages, spentIn, response, cut>>

\* Mutant of ClientUpdate: every package starts the workflow.
ClientUpdateAny(h) ==
    LET r == request[h] IN
    /\ Doing(h, "update") /\ r.by = "CLIENT"
    /\ link' = IF r.linked = NoPackage THEN [link EXCEPT ![r.c] = r.p] ELSE link
    /\ status' = [status EXCEPT ![r.c] = "MESSAGE_SUBMITTED"]
    /\ response' = [response EXCEPT ![r.c] = "none"]
    /\ Answer(h)
    /\ UNCHANGED <<usageVars, messages, spentIn, cut>>

\* The conversation after a client's message: linked to the package if it was not
\* linked when it was read, and submitted if the package is SINGLE.
ClientUpdate(h) ==
    LET r == request[h] IN
    /\ Doing(h, "update") /\ r.by = "CLIENT"
    /\ link' = IF r.linked = NoPackage THEN [link EXCEPT ![r.c] = r.p] ELSE link
    /\ status' = IF IsSingle(r.p) THEN [status EXCEPT ![r.c] = "MESSAGE_SUBMITTED"] ELSE status
    /\ response' = [response EXCEPT ![r.c] = "none"]
    /\ Answer(h)
    /\ UNCHANGED <<usageVars, messages, spentIn, cut>>

\* The conversation after a reply: the mode is that of the link read first.
ConsultantUpdate(h) ==
    LET r == request[h] IN
    /\ Doing(h, "update") /\ r.by = "CONSULTANT"
    /\ IF IsSingle(r.linked)
       THEN /\ status' = [status EXCEPT ![r.c] = "RESPONSE_SENT"]
            /\ response' = [response EXCEPT ![r.c] = "sent"]
       ELSE UNCHANGED <<status, response>>
    /\ Answer(h)
    /\ UNCHANGED <<usageVars, link, messages, spentIn, cut>>

\* markRead by the consultant reads the conversation; a submitted consultation is
\* to go to review.
OpenByConsultant(h, c) ==
    /\ Doing(h, "idle")
    /\ status[c] = "MESSAGE_SUBMITTED" /\ IsSingle(link[c])
    /\ request' = [request EXCEPT ![h] =
            [NoRequest EXCEPT !.pc = "review", !.c = c, !.by = "CONSULTANT"]]
    /\ UNCHANGED <<usageVars, status, link, messages, spentIn, response, cut>>

ReviewWrite(h) ==
    /\ Doing(h, "review")
    /\ status' = [status EXCEPT ![request[h].c] = "UNDER_REVIEW"]
    /\ Answer(h)
    /\ UNCHANGED <<usageVars, link, messages, spentIn, response, cut>>

Opened(c) == response' = [response EXCEPT ![c] = IF @ = "sent" THEN "read" ELSE @]

\* markRead by the client: an answered consultation is to be closed, any other is
\* left as it is.
OpenByClient(h, c) ==
    /\ Doing(h, "idle")
    /\ IF status[c] = "RESPONSE_SENT" /\ IsSingle(link[c])
       THEN /\ request' = [request EXCEPT ![h] = [NoRequest EXCEPT !.pc = "close", !.c = c]]
            /\ UNCHANGED response
       ELSE /\ Opened(c)
            /\ UNCHANGED request
    /\ UNCHANGED <<usageVars, status, link, messages, spentIn, cut>>

\* markRead of the client: CLOSED, whatever the status has become meanwhile.
CloseWrite(h) ==
    /\ Doing(h, "close")
    /\ status' = [status EXCEPT ![request[h].c] = "CLOSED"]
    /\ Opened(request[h].c)
    /\ Answer(h)
    /\ UNCHANGED <<usageVars, link, messages, spentIn, cut>>

\* closeConsultation and submitFeedback: CLOSED from any status.
Close(c) ==
    /\ status' = [status EXCEPT ![c] = "CLOSED"]
    /\ UNCHANGED <<usageVars, link, messages, spentIn, request, response, cut>>

\* A query rejects, or the process restarts.
Abort(h) ==
    /\ ~ Doing(h, "idle")
    /\ Answer(h)
    /\ cut' = IF Doing(h, "consume") THEN cut \cup {request[h].p} ELSE cut
    /\ UNCHANGED <<usageVars, status, link, messages, spentIn, response>>

Next ==
    \/ \E h \in Handlers :
          \/ FindPackage(h)
          \/ CreateMessage(h)
          \/ ConsumeMessage(h)
          \/ ClientUpdate(h)
          \/ ConsultantUpdate(h)
          \/ ReviewWrite(h)
          \/ CloseWrite(h)
          \/ Abort(h)
          \/ \E c \in Conversations :
                \/ \E by \in {"CLIENT", "CONSULTANT"}, kind \in Kinds : Send(h, c, by, kind)
                \/ OpenByConsultant(h, c)
                \/ OpenByClient(h, c)
    \/ \E c \in Conversations : Close(c)
    \/ \E p \in Packages : PackageStep(p) /\ UNCHANGED messagingVars

Spec == Init /\ [][Next]_vars

-----------------------------------------------------------------------------
Requests(p, kind, pcs) ==
    {h \in Handlers : request[h].p = p /\ request[h].kind = kind /\ request[h].pc \in pcs}

\* A kind of message passes its limit by at most one message for each other
\* request in flight, whichever conversations the package is spent in.
MessageOverrunBounded ==
    \A p \in Packages, kind \in Kinds : Metered(p, kind) =>
        used[p][kind] + Cardinality(Requests(p, kind, Taking)) <= Limit[p][kind] + Overrun

\* Every message a client created on a package is counted against it, once,
\* unless its request is about to count it or died before it could.
MessagesAreMetered ==
    \A p \in Packages, kind \in Kinds :
        LET counted == used[p][kind] + Cardinality(Requests(p, kind, {"consume"})) IN
        /\ messages[p][kind] >= counted
        /\ p \notin cut => messages[p][kind] = counted

\* Only a SINGLE consultation has a workflow: a conversation is submitted, under
\* review or answered only if a message was sent in it on a SINGLE package, and
\* it is linked only to a package spent in it ("Ongoing CHAT conversations keep
\* their ACTIVE status untouched").
WorkflowOnlyForSingle ==
    \A c \in Conversations :
        /\ status[c] \notin {"ACTIVE", "CLOSED"} =>
              \E p \in Packages : IsSingle(p) /\ <<c, p>> \in spentIn
        /\ link[c] # NoPackage => <<c, link[c]>> \in spentIn

\* "A client reading the consultant's response auto-closes the single
\* consultation": once the client has opened the last response, and until
\* somebody writes again, the conversation is CLOSED.
ReadResponseCloses ==
    \A c \in Conversations : response[c] = "read" => status[c] = "CLOSED"
=============================================================================
