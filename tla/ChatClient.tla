----------------------------- MODULE ChatClient -----------------------------
(***************************************************************************)
(* One open conversation in the web client (chat.tsx): the draft, the      *)
(* messages on screen, and the flows of requests that run behind them.     *)
(*                                                                         *)
(* A flow posts (a message; an edit, deletion or reaction), then loads the *)
(* thread and marks it read; the interval and the server's events start    *)
(* flows that only load.  Flows overlap, answers arrive out of order, any  *)
(* request may fail, before or after the server acted on it.  The server   *)
(* is Messaging's conversation, here reduced to what the client can see.   *)
(***************************************************************************)
EXTENDS Naturals, FiniteSets

CONSTANTS Texts,      \* what the user has to say
          Empty,      \* the empty draft, and no text
          Flows,      \* flows of requests at once
          MaxChanges, \* bound: changes of the thread other than the user's messages
          MaxFails    \* bound: failed requests

ASSUME ChatClientAssumption ==
    /\ IsFiniteSet(Texts) /\ IsFiniteSet(Flows) /\ Empty \notin Texts
    /\ MaxChanges \in Nat /\ MaxFails \in Nat

VARIABLES posted,  \* text -> its copies in the thread, on the server
          changes, \* messages of the peer, edits, deletions, reactions so far
          read,    \* how many of those were there at the last POST read
          event,   \* an event of the server is on its way
          view,    \* the thread on screen: what GET answered last
          draft,
          typed,   \* texts the user has typed (history)
          hasty,   \* the user typed on while a message was being sent (history)
          flow,    \* flow -> its next request, its text, the answer on its way
          failed,  \* text -> "Message failed" shown for it (history)
          fails

server == <<posted, changes, read, event>>
composer == <<draft, typed, hasty, failed>>
chatVars == <<server, view, composer, flow, fails>>

Thread == [posted |-> posted, changes |-> changes]
IdleFlow == [pc |-> "idle", text |-> Empty]

ChatInit ==
    /\ posted = [t \in Texts |-> 0] /\ changes = 0 /\ read = 0 /\ event = FALSE
    /\ view = Thread
    /\ draft = Empty /\ typed = {} /\ hasty = FALSE
    /\ flow = [f \in Flows |-> IdleFlow]
    /\ failed = [t \in Texts |-> 0] /\ fails = 0

-----------------------------------------------------------------------------
FlowAt(f, pc) == flow[f].pc = pc
FlowGoes(f, pc) == flow' = [flow EXCEPT ![f] = [pc |-> pc, text |-> flow[f].text]]
Start(f, pc, t) == FlowAt(f, "idle") /\ flow' = [flow EXCEPT ![f] = [pc |-> pc, text |-> t]]

\* onType
Type(t) ==
    /\ draft = Empty /\ t \notin typed
    /\ draft' = t /\ typed' = typed \cup {t}
    /\ hasty' = (hasty \/ \E f \in Flows : flow[f].text # Empty)
    /\ UNCHANGED <<server, view, flow, failed, fails>>

\* Mutant of SendText: the draft is not cleared until the message is out.
SendAndKeep(f) ==
    /\ draft # Empty
    /\ Start(f, "post", draft)
    /\ UNCHANGED <<server, view, composer, fails>>

\* sendText: Enter works while another message is being sent.
SendText(f) ==
    /\ draft # Empty
    /\ Start(f, "post", draft)
    /\ draft' = Empty
    /\ UNCHANGED <<server, view, typed, hasty, failed, fails>>

\* saveEdit, deleteMessage, toggleReaction
Act(f) ==
    /\ changes < MaxChanges
    /\ Start(f, "act", Empty)
    /\ UNCHANGED <<server, view, composer, fails>>

\* load, by the interval.
Poll(f) ==
    /\ Start(f, "get", Empty)
    /\ UNCHANGED <<server, view, composer, fails>>

\* load, by an event.
OnEvent(f) ==
    /\ event /\ event' = FALSE
    /\ Start(f, "get", Empty)
    /\ UNCHANGED <<posted, changes, read, view, composer, fails>>

-----------------------------------------------------------------------------
\* What a request does on the server.
Serve(f) ==
    /\ posted' = IF FlowAt(f, "post") THEN [posted EXCEPT ![flow[f].text] = @ + 1] ELSE posted
    /\ changes' = IF FlowAt(f, "act") /\ changes < MaxChanges THEN changes + 1 ELSE changes
    /\ read' = IF FlowAt(f, "mark") THEN changes ELSE read
    /\ UNCHANGED event

\* The post is answered, and the thread asked for.
Post(f) ==
    /\ FlowAt(f, "post") \/ FlowAt(f, "act")
    /\ Serve(f)
    /\ FlowGoes(f, "get")
    /\ UNCHANGED <<view, composer, fails>>

\* The server answers with the thread as it is now.
Get(f) ==
    /\ FlowAt(f, "get")
    /\ flow' = [flow EXCEPT ![f] = [pc |-> "show", text |-> flow[f].text, answer |-> Thread]]
    /\ UNCHANGED <<server, view, composer, fails>>

\* Mutant of Show: an answer with no new message of the user's is taken for the same.
ShowNews(f) ==
    /\ FlowAt(f, "show")
    /\ view' = IF flow[f].answer.posted = view.posted THEN view ELSE flow[f].answer
    /\ FlowGoes(f, "mark")
    /\ UNCHANGED <<server, composer, fails>>

\* The answer arrives, however old, and replaces what is on screen.
Show(f) ==
    /\ FlowAt(f, "show")
    /\ view' = flow[f].answer
    /\ FlowGoes(f, "mark")
    /\ UNCHANGED <<server, composer, fails>>

\* POST read, of all there is by now.
MarkRead(f) ==
    /\ FlowAt(f, "mark")
    /\ Serve(f)
    /\ flow' = [flow EXCEPT ![f] = IdleFlow]
    /\ UNCHANGED <<view, composer, fails>>

\* Mutant of GiveBack: the text of a message that failed is not put back.
GiveBackNothing(f) ==
    /\ failed' = IF flow[f].text = Empty THEN failed ELSE [failed EXCEPT ![flow[f].text] = @ + 1]
    /\ UNCHANGED <<draft, typed, hasty>>

\* The catch of sendText also covers the load after the post.
GiveBack(f) ==
    /\ IF flow[f].text = Empty THEN UNCHANGED <<draft, failed>>
       ELSE draft' = flow[f].text /\ failed' = [failed EXCEPT ![flow[f].text] = @ + 1]
    /\ UNCHANGED <<typed, hasty>>

\* A request fails, before the server saw it or after it acted on it.
RequestFails(f) ==
    /\ ~FlowAt(f, "idle") /\ fails < MaxFails
    /\ fails' = fails + 1
    /\ UNCHANGED server \/ (~FlowAt(f, "show") /\ Serve(f))
    /\ GiveBack(f)
    /\ flow' = [flow EXCEPT ![f] = IdleFlow]
    /\ UNCHANGED view

\* The thread changes; the event of it is lost while the stream is down.
Change ==
    /\ changes < MaxChanges
    /\ changes' = changes + 1
    /\ event' \in {event, TRUE}
    /\ UNCHANGED <<posted, read, view, composer, flow, fails>>

ChatNext ==
    \/ \E t \in Texts : Type(t)
    \/ \E f \in Flows : \/ SendText(f) \/ Act(f) \/ Poll(f) \/ OnEvent(f)
                        \/ Post(f) \/ Get(f) \/ Show(f) \/ MarkRead(f) \/ RequestFails(f)
    \/ Change

\* Requests are answered and the interval fires; users and events owe nothing.
ChatSpec ==
    /\ ChatInit /\ [][ChatNext]_chatVars
    /\ WF_chatVars(\E f \in Flows : Poll(f))
    /\ \A f \in Flows : WF_chatVars(Post(f) \/ Get(f) \/ Show(f) \/ MarkRead(f))

-----------------------------------------------------------------------------
\* A message gets into the thread again only after the user was told it had failed.
OneCopyPerFailure == \A t \in Texts : posted[t] <= 1 + failed[t]

\* What the user typed is in the thread, on its way, or back in the draft, whatever
\* request failed, unless the user typed on while a message was being sent.
NoTextLost ==
    ~hasty => \A t \in typed : posted[t] > 0 \/ draft = t \/ \E f \in Flows : flow[f].text = t

\* Once the thread stays as it is, the screen comes to show it and keeps showing it,
\* and all of it is marked read, whatever answers overtook each other and events got lost.
ViewCatchesUp == <>[](view = Thread /\ read = changes)
=============================================================================
