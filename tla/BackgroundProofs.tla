-------------------------- MODULE BackgroundProofs --------------------------
(***************************************************************************)
(* Three parts that wait and come back: the chat tab (ChatClient), the     *)
(* poller of the scheduled broadcasts (Scheduler) and the offline copies   *)
(* of the mobile app (OfflineCourse), for any number of flows, texts,      *)
(* jobs, users and lessons.  The three have nothing in common but the      *)
(* shape of their proofs, and no name, so they are extended together.      *)
(*                                                                         *)
(* What the three invariants have in common is that they speak of flows in *)
(* the middle: a message is in the thread, in the draft or in the hands of *)
(* a flow; what a run has read is still so while no other run is about;    *)
(* and a flow that is alone has what it must still do.                     *)
(***************************************************************************)
EXTENDS ChatClient, Scheduler, OfflineCourse, FiniteSetTheorems, TLAPS

-----------------------------------------------------------------------------
(* The chat tab.                                                           *)

Sayings == Texts \cup {Empty}

Threads == [posted : [Texts -> Nat], changes : Nat]

\* The flows, the draft and the counters the chat's properties are about.
ChatTypeOK ==
    /\ posted \in [Texts -> Nat] /\ failed \in [Texts -> Nat]
    /\ draft \in Sayings /\ typed \in SUBSET Texts /\ hasty \in BOOLEAN
    /\ flow \in [Flows ->
          [pc : {"idle", "post", "act", "get", "mark"}, text : Sayings]
          \cup [pc : {"show"}, text : Sayings, answer : Threads]]
    /\ changes \in Nat

\* Flows that have a message to post.
Posting(t) == {f \in Flows : flow[f].pc = "post" /\ flow[f].text = t}

Drafted(t) == IF draft = t THEN 1 ELSE 0

\* Each copy of a text, in the thread or still to come, is its first or was paid for by
\* a failure the user saw.
CopiesPaidFor ==
    \A t \in Texts :
        /\ posted[t] + Drafted(t) + Cardinality(Posting(t)) <= 1 + failed[t]
        /\ t \notin typed => posted[t] = 0 /\ draft # t /\ \A f \in Flows : flow[f].text # t

\* One text at a time, and past its post it is in the thread.
OneTextAtATime ==
    /\ \A f \in Flows : /\ flow[f].pc \in {"idle", "act"} => flow[f].text = Empty
                        /\ flow[f].pc = "post" => flow[f].text # Empty
                        /\ flow[f].pc \in {"get", "show", "mark"} /\ flow[f].text # Empty =>
                              posted[flow[f].text] > 0
    /\ ~hasty => \A f \in Flows : flow[f].text # Empty =>
          draft = Empty /\ \A g \in Flows : g # f => flow[g].text = Empty

ChatInv == ChatTypeOK /\ CopiesPaidFor /\ OneTextAtATime /\ NoTextLost

\* An empty tab has nothing to lose.
LEMMA ChatInitInv ==
    ASSUME ChatInit PROVE ChatInv
  <1>1. ChatTypeOK
    BY DEF ChatInit, ChatTypeOK, Sayings, IdleFlow, Thread
  <1>2. OneTextAtATime
    BY DEF ChatInit, OneTextAtATime, IdleFlow
  <1>3. NoTextLost
    BY DEF ChatInit, NoTextLost
  <1>4. CopiesPaidFor
    <2>1. \A t \in Texts : Posting(t) = {}
      BY DEF ChatInit, Posting, IdleFlow
    <2>2. Cardinality({}) = 0
      BY FS_EmptySet
    <2>3. \A t \in Texts : t # Empty
      BY ChatClientAssumption
    <2> QED
      BY <2>1, <2>2, <2>3 DEF ChatInit, CopiesPaidFor, Drafted, IdleFlow
  <1> QED
    BY <1>1, <1>2, <1>3, <1>4 DEF ChatInv

\* Sets of flows can be counted, and one flow makes a difference of one.
LEMMA FlowsAreCounted ==
    ASSUME NEW S \in SUBSET Flows, NEW f \in Flows
    PROVE  /\ Cardinality(S) \in Nat
           /\ f \notin S => Cardinality(S \cup {f}) = Cardinality(S) + 1 /\ S \ {f} = S
           /\ f \in S => Cardinality(S \ {f}) = Cardinality(S) - 1 /\ S \cup {f} = S
  <1>1. IsFiniteSet(S) /\ Cardinality(S) \in Nat
    BY ChatClientAssumption, FS_Subset, FS_CardinalityType
  <1>2. f \notin S => Cardinality(S \cup {f}) = Cardinality(S) + 1
    BY <1>1, FS_AddElement
  <1>3. f \in S => Cardinality(S \ {f}) = Cardinality(S) - 1
    BY <1>1, FS_RemoveElement
  <1> QED
    BY <1>1, <1>2, <1>3

FlowRecords ==
    [pc : {"idle", "post", "act", "get", "mark"}, text : Sayings]
    \cup [pc : {"show"}, text : Sayings, answer : Threads]

\* A flow that neither posts nor will, and at most lets go of a text that is in the
\* thread, changes nothing.
LEMMA FlowGoesOn ==
    ASSUME ChatInv, NEW f \in Flows, NEW v \in FlowRecords,
           flow' = [flow EXCEPT ![f] = v],
           flow[f].pc # "post", v.pc # "post",
           v.text \in {Empty, flow[f].text},
           v.pc \in {"idle", "act"} => v.text = Empty,
           UNCHANGED <<posted, failed, draft, typed, hasty>>, changes' \in Nat
    PROVE  ChatInv'
  <1>1. ChatTypeOK /\ CopiesPaidFor /\ OneTextAtATime /\ NoTextLost
    BY DEF ChatInv
  <1>2. \A g \in Flows : flow'[g] = IF g = f THEN v ELSE flow[g]
    BY <1>1 DEF ChatTypeOK
  <1>3. flow[f].text # Empty => posted[flow[f].text] > 0
    BY <1>1 DEF ChatTypeOK, OneTextAtATime
  <1>4. ChatTypeOK'
    BY <1>1 DEF ChatTypeOK, FlowRecords
  <1>5. \A t \in Texts : Posting(t)' = Posting(t)
    BY <1>2 DEF Posting
  <1>6. \A t \in Texts : t # Empty
    BY ChatClientAssumption
  <1>7. CopiesPaidFor'
    BY <1>1, <1>2, <1>5, <1>6 DEF CopiesPaidFor, Drafted
  <1>8. OneTextAtATime'
    BY <1>1, <1>2, <1>3 DEF OneTextAtATime
  <1>9. NoTextLost'
    BY <1>1, <1>2, <1>3, <1>6 DEF NoTextLost, ChatTypeOK
  <1> QED
    BY <1>4, <1>7, <1>8, <1>9 DEF ChatInv

\* Typing begins a text's life, with nothing in the way unless the user was hasty.
LEMMA TypeKeepsTexts ==
    ASSUME ChatInv, NEW t \in Texts, Type(t)
    PROVE  ChatInv'
  <1>1. ChatTypeOK /\ CopiesPaidFor /\ OneTextAtATime /\ NoTextLost
    BY DEF ChatInv
  <1>2. /\ draft = Empty /\ t \notin typed /\ draft' = t /\ typed' = typed \cup {t}
        /\ hasty' = (hasty \/ \E f \in Flows : flow[f].text # Empty)
        /\ UNCHANGED <<posted, changes, flow, failed>>
    BY DEF Type, server
  <1>3. \A u \in Texts : u # Empty
    BY ChatClientAssumption
  <1>4. ChatTypeOK'
    BY <1>1, <1>2 DEF ChatTypeOK, Sayings
  <1>5. \A u \in Texts : Posting(u)' = Posting(u)
    BY <1>2 DEF Posting
  <1>6. Posting(t) = {}
    BY <1>1, <1>2 DEF CopiesPaidFor, Posting
  <1>7. Cardinality({}) = 0
    BY FS_EmptySet
  <1>8. CopiesPaidFor'
    <2>1. posted'[t] + Drafted(t)' + Cardinality(Posting(t)') <= 1 + failed'[t]
      <3>1. posted[t] = 0 /\ failed[t] \in Nat
        BY <1>1, <1>2 DEF CopiesPaidFor, ChatTypeOK
      <3>2. Drafted(t)' = 1
        BY <1>2 DEF Drafted
      <3>3. Cardinality(Posting(t)') = 0
        BY <1>5, <1>6, <1>7
      <3> QED
        BY <1>2, <3>1, <3>2, <3>3
    <2>2. \A u \in Texts : u # t => Drafted(u)' = Drafted(u)
      BY <1>2, <1>3 DEF Drafted
    <2> QED
      BY <1>1, <1>2, <1>5, <2>1, <2>2 DEF CopiesPaidFor
  <1>9. OneTextAtATime'
    BY <1>1, <1>2 DEF OneTextAtATime, ChatTypeOK
  <1>10. NoTextLost'
    BY <1>1, <1>2, <1>3 DEF NoTextLost, ChatTypeOK
  <1> QED
    BY <1>4, <1>8, <1>9, <1>10 DEF ChatInv

\* Sending moves the text from the draft into a flow.
LEMMA SendKeepsTexts ==
    ASSUME ChatInv, NEW f \in Flows, SendText(f)
    PROVE  ChatInv'
  <1> DEFINE v == [pc |-> "post", text |-> draft]
  <1>1. ChatTypeOK /\ CopiesPaidFor /\ OneTextAtATime /\ NoTextLost
    BY DEF ChatInv
  <1>2. /\ draft # Empty /\ draft' = Empty /\ flow[f].pc = "idle"
        /\ flow' = [flow EXCEPT ![f] = v]
        /\ UNCHANGED <<posted, changes, typed, hasty, failed>>
    BY DEF SendText, Start, FlowAt, server
  <1>3. \A g \in Flows : flow'[g] = IF g = f THEN v ELSE flow[g]
    BY <1>1, <1>2 DEF ChatTypeOK
  <1>4. /\ draft \in Texts /\ flow[f].text = Empty
        /\ \A u \in Texts : u # Empty
    BY <1>1, <1>2, ChatClientAssumption DEF ChatTypeOK, OneTextAtATime, Sayings
  <1>5. ChatTypeOK'
    <2>1. v \in FlowRecords
      BY <1>1 DEF FlowRecords, ChatTypeOK
    <2> QED
      BY <1>1, <1>2, <2>1 DEF ChatTypeOK, FlowRecords, Sayings
  <1>6. ASSUME NEW u \in Texts
        PROVE  posted[u] + Drafted(u)' + Cardinality(Posting(u)') <= 1 + failed[u]
    <2>1. Posting(u) \in SUBSET Flows /\ f \notin Posting(u)
      BY <1>2 DEF Posting
    <2>2. Posting(u)' = IF u = draft THEN Posting(u) \cup {f} ELSE Posting(u)
      BY <1>3, <2>1 DEF Posting
    <2>3. /\ Cardinality(Posting(u)) \in Nat
          /\ Cardinality(Posting(u) \cup {f}) = Cardinality(Posting(u)) + 1
      BY <2>1, FlowsAreCounted
    <2>4. posted[u] \in Nat /\ failed[u] \in Nat
      BY <1>1 DEF ChatTypeOK
    <2>5. Drafted(u)' = 0 /\ Drafted(u) = IF u = draft THEN 1 ELSE 0
      BY <1>2, <1>4 DEF Drafted
    <2>6. posted[u] + Drafted(u) + Cardinality(Posting(u)) <= 1 + failed[u]
      BY <1>1 DEF CopiesPaidFor
    <2>7. CASE u = draft
      BY <2>2, <2>3, <2>4, <2>5, <2>6, <2>7
    <2>8. CASE u # draft
      BY <2>2, <2>3, <2>4, <2>5, <2>6, <2>8
    <2> QED
      BY <2>7, <2>8
  <1>7. CopiesPaidFor'
    BY <1>1, <1>2, <1>3, <1>4, <1>6 DEF CopiesPaidFor
  <1>8. OneTextAtATime'
    BY <1>1, <1>2, <1>3 DEF OneTextAtATime
  <1>9. NoTextLost'
    BY <1>1, <1>2, <1>3, <1>4 DEF NoTextLost, ChatTypeOK
  <1> QED
    BY <1>5, <1>7, <1>8, <1>9 DEF ChatInv

\* The post is through: one copy more in the thread, one fewer to come.
LEMMA PostKeepsTexts ==
    ASSUME ChatInv, NEW f \in Flows, Post(f),
           flow[f].pc = "post"
    PROVE  ChatInv'
  <1> DEFINE d == flow[f].text
             v == [pc |-> "get", text |-> d]
  <1>1. ChatTypeOK /\ CopiesPaidFor /\ OneTextAtATime /\ NoTextLost
    BY DEF ChatInv
  <1>2. /\ flow' = [flow EXCEPT ![f] = v]
        /\ posted' = [posted EXCEPT ![d] = @ + 1]
        /\ changes' = changes
        /\ UNCHANGED <<draft, typed, hasty, failed>>
    BY DEF Post, Serve, FlowAt, FlowGoes, composer
  <1>3. \A g \in Flows : flow'[g] = IF g = f THEN v ELSE flow[g]
    BY <1>1, <1>2 DEF ChatTypeOK
  <1>4. d \in Texts /\ Empty \notin Texts
    BY <1>1, ChatClientAssumption DEF ChatTypeOK, OneTextAtATime, Sayings
  <1>5. \A u \in Texts : posted[u] \in Nat /\ posted'[u] = IF u = d THEN posted[u] + 1 ELSE posted[u]
    BY <1>1, <1>2, <1>4 DEF ChatTypeOK
  <1>6. ChatTypeOK'
    <2>1. v \in FlowRecords
      BY <1>4 DEF FlowRecords, Sayings
    <2>2. posted' \in [Texts -> Nat]
      BY <1>1, <1>2, <1>4 DEF ChatTypeOK
    <2> QED
      BY <1>1, <1>2, <2>1, <2>2 DEF ChatTypeOK, FlowRecords
  <1>7. ASSUME NEW u \in Texts
        PROVE  posted'[u] + Drafted(u)' + Cardinality(Posting(u)') <= 1 + failed[u]
    <2>1. Posting(u) \in SUBSET Flows /\ (f \in Posting(u) <=> u = d)
      BY DEF Posting
    <2>2. Posting(u)' = Posting(u) \ {f}
      BY <1>3 DEF Posting
    <2>3. /\ Cardinality(Posting(u)) \in Nat
          /\ u = d => Cardinality(Posting(u)') = Cardinality(Posting(u)) - 1
          /\ u # d => Posting(u)' = Posting(u)
      <3>1. PICK S \in SUBSET Flows : S = Posting(u)
        BY <2>1
      <3>2. Cardinality(S) \in Nat /\ (f \in S => Cardinality(S \ {f}) = Cardinality(S) - 1)
        BY FlowsAreCounted
      <3>3. Cardinality(Posting(u)') = Cardinality(S \ {f})
        BY <2>2, <3>1
      <3> HIDE DEF d
      <3> QED
        BY <2>1, <2>2, <3>1, <3>2, <3>3
    <2>4. failed[u] \in Nat
      BY <1>1 DEF ChatTypeOK
    <2>5. Drafted(u)' = Drafted(u) /\ Drafted(u) \in Nat
      BY <1>2 DEF Drafted
    <2>6. posted[u] + Drafted(u) + Cardinality(Posting(u)) <= 1 + failed[u]
      BY <1>1 DEF CopiesPaidFor
    <2> HIDE DEF d
    <2>7. CASE u = d
      BY <1>5, <2>3, <2>4, <2>5, <2>6, <2>7
    <2>8. CASE u # d
      BY <1>5, <2>3, <2>4, <2>5, <2>6, <2>8
    <2> QED
      BY <2>7, <2>8
  <1>8. CopiesPaidFor'
    BY <1>1, <1>2, <1>3, <1>4, <1>5, <1>7 DEF CopiesPaidFor
  <1>9. OneTextAtATime'
    BY <1>1, <1>2, <1>3, <1>4, <1>5 DEF OneTextAtATime, ChatTypeOK
  <1>10. NoTextLost'
    BY <1>1, <1>2, <1>3, <1>4, <1>5 DEF NoTextLost, ChatTypeOK
  <1> QED
    BY <1>6, <1>8, <1>9, <1>10 DEF ChatInv

\* A flow fails with a text: the user sees it and has the text back, and the server may
\* have posted it all the same.
LEMMA FailKeepsTexts ==
    ASSUME ChatInv, NEW f \in Flows, RequestFails(f),
           flow[f].text # Empty
    PROVE  ChatInv'
  <1> DEFINE d == flow[f].text
             v == [pc |-> "idle", text |-> Empty]
  <1>1. ChatTypeOK /\ CopiesPaidFor /\ OneTextAtATime /\ NoTextLost
    BY DEF ChatInv
  <1>2. /\ flow' = [flow EXCEPT ![f] = v]
        /\ draft' = d /\ failed' = [failed EXCEPT ![d] = @ + 1]
        /\ posted' = posted \/ (flow[f].pc = "post" /\ posted' = [posted EXCEPT ![d] = @ + 1])
        /\ changes' \in Nat
        /\ UNCHANGED <<typed, hasty>>
    <2>1. changes' \in {changes, changes + 1}
      BY DEF RequestFails, server, Serve
    <2> QED
      BY <1>1, <2>1 DEF RequestFails, server, Serve, FlowAt, GiveBack, IdleFlow,
                        ChatTypeOK
  <1>3. \A g \in Flows : flow'[g] = IF g = f THEN v ELSE flow[g]
    BY <1>1, <1>2 DEF ChatTypeOK
  <1>4. d \in Texts /\ Empty \notin Texts
    BY <1>1, ChatClientAssumption DEF ChatTypeOK, Sayings
  <1>5. \A u \in Texts :
           /\ posted[u] \in Nat /\ failed[u] \in Nat
           /\ failed'[u] = IF u = d THEN failed[u] + 1 ELSE failed[u]
           /\ \/ posted'[u] = posted[u]
              \/ flow[f].pc = "post" /\ u = d /\ posted'[u] = posted[u] + 1
    BY <1>1, <1>2, <1>4 DEF ChatTypeOK
  <1>6. ChatTypeOK'
    <2>1. v \in FlowRecords
      BY DEF FlowRecords, Sayings
    <2>2. posted' \in [Texts -> Nat] /\ failed' \in [Texts -> Nat]
      BY <1>1, <1>2, <1>4 DEF ChatTypeOK
    <2>3. flow' \in [Flows -> FlowRecords]
      BY <1>1, <1>2, <2>1 DEF ChatTypeOK, FlowRecords
    <2> QED
      BY <1>1, <1>2, <1>4, <2>2, <2>3 DEF ChatTypeOK, FlowRecords, Sayings
  <1>7. ASSUME NEW u \in Texts
        PROVE  posted'[u] + Drafted(u)' + Cardinality(Posting(u)') <= 1 + failed'[u]
    <2>1. Posting(u) \in SUBSET Flows /\ (f \in Posting(u) <=> u = d /\ flow[f].pc = "post")
      BY DEF Posting
    <2>2. Posting(u)' = Posting(u) \ {f}
      BY <1>3 DEF Posting
    <2>3. /\ Cardinality(Posting(u)) \in Nat
          /\ u = d /\ flow[f].pc = "post" =>
                Cardinality(Posting(u)') = Cardinality(Posting(u)) - 1
          /\ ~(u = d /\ flow[f].pc = "post") => Posting(u)' = Posting(u)
      <3>1. PICK S \in SUBSET Flows : S = Posting(u)
        BY <2>1
      <3>2. Cardinality(S) \in Nat /\ (f \in S => Cardinality(S \ {f}) = Cardinality(S) - 1)
        BY FlowsAreCounted
      <3>3. Cardinality(Posting(u)') = Cardinality(S \ {f})
        BY <2>2, <3>1
      <3> HIDE DEF d
      <3> QED
        BY <2>1, <2>2, <3>1, <3>2, <3>3
    <2>4. Drafted(u)' = (IF u = d THEN 1 ELSE 0) /\ Drafted(u) \in {0, 1}
      BY <1>2 DEF Drafted
    <2>5. posted[u] + Drafted(u) + Cardinality(Posting(u)) <= 1 + failed[u]
      BY <1>1 DEF CopiesPaidFor
    <2> HIDE DEF d
    <2>6. CASE u = d
      BY <1>5, <2>3, <2>4, <2>5, <2>6
    <2>7. CASE u # d
      BY <1>5, <2>3, <2>4, <2>5, <2>7
    <2> QED
      BY <2>6, <2>7
  <1>8. CopiesPaidFor'
    <2>1. d \in typed
      BY <1>1, <1>4 DEF CopiesPaidFor
    <2> QED
      BY <1>1, <1>2, <1>3, <1>4, <1>5, <1>7, <2>1 DEF CopiesPaidFor
  <1>9. OneTextAtATime'
    BY <1>1, <1>2, <1>3, <1>4, <1>5 DEF OneTextAtATime, ChatTypeOK, Sayings
  <1>10. NoTextLost'
    <2>1. ~hasty => draft = Empty /\ \A g \in Flows : g # f => flow[g].text = Empty
      BY <1>1 DEF OneTextAtATime
    <2> QED
      BY <1>1, <1>2, <1>3, <1>4, <1>5, <2>1 DEF NoTextLost, ChatTypeOK
  <1> QED
    BY <1>6, <1>8, <1>9, <1>10 DEF ChatInv

\* Whatever the user, a flow or the peer does.
LEMMA ChatStep ==
    ASSUME ChatInv, [ChatNext]_chatVars
    PROVE  ChatInv'
  <1>1. ChatTypeOK /\ OneTextAtATime
    BY DEF ChatInv
  <1>2. Thread \in Threads /\ Empty \in Sayings /\ \A f \in Flows : flow[f].text \in Sayings
    BY <1>1 DEF ChatTypeOK, Thread, Threads, Sayings
  <1>3. \A s \in Sayings : [pc |-> "idle", text |-> s] \in FlowRecords
                           /\ [pc |-> "act", text |-> s] \in FlowRecords
                           /\ [pc |-> "get", text |-> s] \in FlowRecords
                           /\ [pc |-> "mark", text |-> s] \in FlowRecords
    BY DEF FlowRecords
  <1>4. ASSUME NEW f \in Flows, Act(f) \/ Poll(f) \/ OnEvent(f) PROVE ChatInv'
    <2>1. PICK pc \in {"act", "get"} : flow' = [flow EXCEPT ![f] = [pc |-> pc, text |-> Empty]]
      BY <1>4 DEF Act, Poll, OnEvent, Start
    <2>2. /\ flow[f].pc = "idle"
          /\ UNCHANGED <<posted, failed, draft, typed, hasty, changes>>
      BY <1>4 DEF Act, Poll, OnEvent, Start, FlowAt, server,
                  composer
    <2>3. changes' \in Nat
      BY <1>1, <2>2 DEF ChatTypeOK
    <2> QED
      BY <1>2, <1>3, <2>1, <2>2, <2>3, FlowGoesOn
  <1>5. ASSUME NEW f \in Flows, Post(f) PROVE ChatInv'
    <2>1. CASE flow[f].pc = "act"
      <3>1. /\ flow' = [flow EXCEPT ![f] = [pc |-> "get", text |-> flow[f].text]]
            /\ UNCHANGED <<posted, failed, draft, typed, hasty>>
            /\ changes' \in {changes, changes + 1}
        BY <1>5, <2>1 DEF Post, FlowAt, Serve, FlowGoes, composer
      <3>2. changes' \in Nat
        BY <1>1, <3>1 DEF ChatTypeOK
      <3> QED
        BY <1>2, <1>3, <2>1, <3>1, <3>2, FlowGoesOn
    <2> QED
      BY <1>5, <2>1, PostKeepsTexts DEF Post, FlowAt
  <1>6. ASSUME NEW f \in Flows, Get(f) PROVE ChatInv'
    <2> DEFINE v == [pc |-> "show", text |-> flow[f].text, answer |-> Thread]
    <2>1. v \in FlowRecords
      BY <1>2 DEF FlowRecords
    <2>2. /\ flow' = [flow EXCEPT ![f] = v] /\ flow[f].pc = "get"
          /\ UNCHANGED <<posted, failed, draft, typed, hasty, changes>>
      BY <1>6 DEF Get, FlowAt, server, composer
    <2>3. changes' \in Nat
      BY <1>1, <2>2 DEF ChatTypeOK
    <2>4. v.pc = "show" /\ v.text = flow[f].text
      OBVIOUS
    <2> HIDE DEF v
    <2> QED
      BY <2>1, <2>2, <2>3, <2>4, FlowGoesOn
  <1>7. ASSUME NEW f \in Flows, Show(f) PROVE ChatInv'
    <2>1. /\ flow' = [flow EXCEPT ![f] = [pc |-> "mark", text |-> flow[f].text]]
          /\ flow[f].pc = "show"
          /\ UNCHANGED <<posted, failed, draft, typed, hasty, changes>>
      BY <1>7 DEF Show, FlowAt, FlowGoes, server, composer
    <2>2. changes' \in Nat
      BY <1>1, <2>1 DEF ChatTypeOK
    <2> QED
      BY <1>2, <1>3, <2>1, <2>2, FlowGoesOn
  <1>8. ASSUME NEW f \in Flows, MarkRead(f) PROVE ChatInv'
    <2>1. /\ flow' = [flow EXCEPT ![f] = [pc |-> "idle", text |-> Empty]]
          /\ flow[f].pc = "mark"
          /\ UNCHANGED <<posted, failed, draft, typed, hasty, changes>>
      BY <1>8 DEF MarkRead, FlowAt, Serve, IdleFlow, composer
    <2>2. changes' \in Nat
      BY <1>1, <2>1 DEF ChatTypeOK
    <2> QED
      BY <1>2, <1>3, <2>1, <2>2, FlowGoesOn
  <1>9. ASSUME NEW f \in Flows, RequestFails(f) PROVE ChatInv'
    <2>1. CASE flow[f].text = Empty
      <3>1. flow[f].pc # "post"
        BY <1>1, <2>1 DEF OneTextAtATime
      <3>2. changes' \in {changes, changes + 1}
        BY <1>9 DEF RequestFails, server, Serve
      <3>3. /\ flow' = [flow EXCEPT ![f] = [pc |-> "idle", text |-> Empty]]
            /\ UNCHANGED <<posted, failed, draft, typed, hasty>>
        BY <1>9, <2>1, <3>1 DEF RequestFails, server, Serve, FlowAt, GiveBack,
                                IdleFlow
      <3>4. changes' \in Nat
        BY <1>1, <3>2 DEF ChatTypeOK
      <3> QED
        BY <1>2, <1>3, <3>1, <3>3, <3>4, FlowGoesOn
    <2> QED
      BY <1>9, <2>1, FailKeepsTexts
  <1>10. ASSUME changes' \in Nat, UNCHANGED <<posted, failed, draft, typed, hasty, flow>>
         PROVE  ChatInv'
    <2>1. \A t \in Texts : Posting(t)' = Posting(t) /\ Drafted(t)' = Drafted(t)
      BY <1>10 DEF Posting, Drafted
    <2> QED
      BY <1>10, <2>1 DEF ChatInv, ChatTypeOK, CopiesPaidFor, OneTextAtATime, NoTextLost
  <1>11. CASE Change
    <2>1. changes' = changes + 1 /\ UNCHANGED <<posted, failed, draft, typed, hasty, flow>>
      BY <1>11 DEF Change, composer
    <2> QED
      BY <1>1, <1>10, <2>1 DEF ChatTypeOK
  <1>12. CASE UNCHANGED chatVars
    BY <1>1, <1>10, <1>12 DEF chatVars, server, composer, ChatTypeOK
  <1> QED
    BY <1>4, <1>5, <1>6, <1>7, <1>8, <1>9, <1>11, <1>12, TypeKeepsTexts, SendKeepsTexts
    DEF ChatNext

\* The invariant holds however flows overlap, fail and are overtaken.
THEOREM ChatInvariant ==
    ChatSpec => []ChatInv
  <1>1. ChatInit => ChatInv
    BY ChatInitInv
  <1>2. ChatInv /\ [ChatNext]_chatVars => ChatInv'
    BY ChatStep
  <1> QED
    BY <1>1, <1>2, PTL DEF ChatSpec

\* What the user typed is never lost, for any number of texts and flows, unless the user
\* typed on while a message was being sent.
THEOREM MessagesAreKept ==
    ChatSpec => []NoTextLost
  <1>1. ChatInv => NoTextLost
    BY DEF ChatInv
  <1> QED
    BY <1>1, ChatInvariant, PTL

\* Every further copy of a message was paid for by a failure the user was shown.
THEOREM CopiesFollowFailures ==
    ChatSpec => []OneCopyPerFailure
  <1>1. ChatInv => OneCopyPerFailure
    <2> SUFFICES ASSUME ChatInv, NEW t \in Texts PROVE posted[t] <= 1 + failed[t]
      BY DEF OneCopyPerFailure
    <2>1. Posting(t) \in SUBSET Flows /\ IsFiniteSet(Flows)
      BY ChatClientAssumption DEF Posting
    <2>2. Cardinality(Posting(t)) \in Nat
      BY <2>1, FS_Subset, FS_CardinalityType
    <2>3. posted[t] \in Nat /\ failed[t] \in Nat /\ Drafted(t) \in Nat
      BY DEF ChatInv, ChatTypeOK, Drafted
    <2>4. posted[t] + Drafted(t) + Cardinality(Posting(t)) <= 1 + failed[t]
      BY DEF ChatInv, CopiesPaidFor
    <2> QED
      BY <2>2, <2>3, <2>4
  <1> QED
    BY <1>1, ChatInvariant, PTL

-----------------------------------------------------------------------------
(* The poller of the scheduled broadcasts.                                 *)

\* A run works on what was due by its day, and on a row it read as due.
RunsFit ==
    \A r \in Runs : run[r].pc # "idle" =>
        /\ \A j \in Jobs : run[r].due[j] <= run[r].day
        /\ run[r].pc = "send" => run[r].due[run[r].job] # Never

\* What was ever scheduled has its time, and is not scheduled anew.
ScheduledOnce == \A j \in active \cup cancelled : next[j] # Never

AtWork(j) == \E r \in Runs : run[r].pc = "send" /\ run[r].job = j

OneRun == \A r, s \in Runs : run[r].pc # "idle" /\ run[s].pc # "idle" => r = s

\* A job no run is sending is ahead of all it has told, or, a one-off, is done for.
AheadOfTold ==
    \A j \in Jobs, u \in Users : told[<<j, u>>] # Never =>
        /\ next[j] # Never
        /\ AtWork(j) \/ IF j \in Daily THEN told[<<j, u>>] < next[j] ELSE j \notin active

\* What a run has read as due is so still, and those it has yet to tell are untold.
RunKnows ==
    \A r \in Runs : run[r].pc # "idle" =>
        /\ \A j \in Jobs : run[r].due[j] # Never =>
              /\ run[r].due[j] = next[j]
              /\ j \in Daily \/ AtWork(j) \/ \A u \in Users : told[<<j, u>>] = Never
        /\ run[r].pc = "send" => \A u \in Users :
              /\ told[<<run[r].job, u>>] <= run[r].day
              /\ u \in run[r].left =>
                    /\ told[<<run[r].job, u>>] # run[r].day
                    /\ run[r].job \in Daily \/ told[<<run[r].job, u>>] = Never

Undisturbed == ~overlapped /\ crashes = 0

RunsKnow == OneRun /\ AheadOfTold /\ RunKnows /\ again = {}

PollerInv ==
    /\ PollerTypeOK
    /\ RunsFit
    /\ ScheduledOnce
    /\ CancelledStays
    /\ Undisturbed => RunsKnow

Instants == 0..MaxDay + 1 \cup {-1}

RunRecords ==
    {IdleRun}
    \cup [pc : {"pick"}, day : 0..MaxDay, due : [Jobs -> Instants]]
    \cup [pc : {"send"}, day : 0..MaxDay, due : [Jobs -> Instants], job : Jobs, left : SUBSET Users]

\* The type invariant, as the steps of a run use it.
LEMMA RunsTyped ==
    ASSUME PollerTypeOK
    PROVE  /\ run \in [Runs -> RunRecords]
           /\ \A r \in Runs :
                 /\ run[r].pc = "idle" => run[r] = IdleRun
                 /\ run[r].pc = "pick" =>
                       run[r] \in [pc : {"pick"}, day : 0..MaxDay, due : [Jobs -> Instants]]
                 /\ run[r].pc = "send" =>
                       run[r] \in [pc : {"send"}, day : 0..MaxDay, due : [Jobs -> Instants],
                                   job : Jobs, left : SUBSET Users]
                 /\ run[r].pc \in {"idle", "pick", "send"}
  <1>1. run \in [Runs -> RunRecords]
    BY DEF PollerTypeOK, RunRecords, Days, Never, Instants
  <1> QED
    BY <1>1 DEF RunRecords, IdleRun

\* Only the run that takes a step moves.
LEMMA RunMoves ==
    ASSUME PollerTypeOK, NEW r \in Runs, NEW v \in RunRecords, RunGoes(r, v)
    PROVE  /\ run' \in [Runs -> RunRecords]
           /\ \A s \in Runs : run'[s] = IF s = r THEN v ELSE run[s]
  BY RunsTyped DEF RunGoes

\* A step that only moves runs keeps the types.
LEMMA RunTypeKept ==
    ASSUME PollerTypeOK, run' \in [Runs -> RunRecords],
           UNCHANGED <<today, next, active, cancelled, told, again, overlapped, crashes>>
    PROVE  PollerTypeOK'
  BY DEF PollerTypeOK, RunRecords, Days, Never, Instants

-----------------------------------------------------------------------------
\* Nothing is scheduled at first, and no run is about.
LEMMA PollerInitInv ==
    ASSUME PollerInit PROVE PollerInv
  <1>1. PollerTypeOK
    <2>1. 0 \in 0..MaxDay /\ 0 \in 0..MaxCrashes
      BY SchedulerAssumption
    <2>2. /\ next \in [Jobs -> Days \cup {Never}]
          /\ told \in [Jobs \X Users -> 0..MaxDay \cup {Never}]
      BY DEF PollerInit
    <2>3. \A S : run \in [Runs -> {IdleRun} \cup S]
      BY DEF PollerInit
    <2> QED
      BY <2>1, <2>2, <2>3 DEF PollerInit, PollerTypeOK
  <1>2. RunsFit /\ ScheduledOnce /\ CancelledStays
    BY DEF PollerInit, RunsFit, ScheduledOnce, CancelledStays, IdleRun
  <1>3. OneRun /\ RunKnows /\ again = {}
    BY DEF PollerInit, OneRun, RunKnows, IdleRun
  <1>4. AheadOfTold
    BY DEF PollerInit, AheadOfTold
  <1> QED
    BY <1>1, <1>2, <1>3, <1>4 DEF PollerInv, RunsKnow

\* A broadcast is scheduled, once: nobody has heard of it, and no run has read it.
LEMMA ScheduleKeeps ==
    ASSUME PollerInv, NEW j \in Jobs, Schedule(j)
    PROVE  PollerInv'
  <1>1. PollerTypeOK /\ RunsFit /\ ScheduledOnce /\ CancelledStays
    BY DEF PollerInv
  <1>2. PICK d \in 0..MaxDay : next' = [next EXCEPT ![j] = d]
    BY DEF Schedule
  <1>3. /\ next[j] = -1 /\ active' = active \cup {j}
        /\ UNCHANGED <<today, cancelled, run, told, again, overlapped, crashes>>
    BY DEF Schedule, Go, history, Never
  <1>4. d \in Days /\ d # -1 /\ d \in Int
    BY SchedulerAssumption DEF Days
  <1>5. PollerTypeOK'
    BY <1>1, <1>2, <1>3, <1>4 DEF PollerTypeOK, Never
  <1>6. \A k \in Jobs : next'[k] = IF k = j THEN d ELSE next[k]
    BY <1>1, <1>2 DEF PollerTypeOK
  <1>7. RunsFit'
    BY <1>1, <1>3 DEF RunsFit
  <1>8. active \subseteq Jobs /\ cancelled \subseteq Jobs
    BY <1>1 DEF PollerTypeOK
  <1>9. ScheduledOnce'
    BY <1>1, <1>3, <1>4, <1>6, <1>8 DEF ScheduledOnce, Never
  <1>10. CancelledStays'
    BY <1>1, <1>3 DEF CancelledStays, ScheduledOnce, Never
  <1>11. ASSUME RunsKnow PROVE RunsKnow'
    <2>1. OneRun' /\ again' = {}
      BY <1>3, <1>11 DEF RunsKnow, OneRun
    <2>2. \A k \in Jobs : AtWork(k)' = AtWork(k)
      BY <1>3 DEF AtWork
    <2>3. \A u \in Users : told[<<j, u>>] = -1
      BY <1>3, <1>11 DEF RunsKnow, AheadOfTold, Never
    <2>4. AheadOfTold'
      BY <1>3, <1>6, <1>11, <2>2, <2>3 DEF RunsKnow, AheadOfTold, Never
    <2>5. RunKnows'
      BY <1>3, <1>6, <1>11, <2>2 DEF RunsKnow, RunKnows, Never
    <2> QED
      BY <2>1, <2>4, <2>5 DEF RunsKnow
  <1> QED
    BY <1>3, <1>5, <1>7, <1>9, <1>10, <1>11 DEF PollerInv, Undisturbed

\* Cancelling, and a day that passes, take nothing from what the runs know.
LEMMA CancelKeeps ==
    ASSUME PollerInv, NEW j \in Jobs, Cancel(j)
    PROVE  PollerInv'
  <1>1. PollerTypeOK /\ RunsFit /\ ScheduledOnce /\ CancelledStays
    BY DEF PollerInv
  <1>2. /\ j \in active /\ active' = active \ {j} /\ cancelled' = cancelled \cup {j}
        /\ UNCHANGED <<today, next, run, told, again, overlapped, crashes>>
    BY DEF Cancel, Go, history
  <1>3. PollerTypeOK'
    BY <1>1, <1>2 DEF PollerTypeOK
  <1>4. RunsFit' /\ ScheduledOnce' /\ CancelledStays'
    BY <1>1, <1>2 DEF RunsFit, ScheduledOnce, CancelledStays
  <1>5. ASSUME RunsKnow PROVE RunsKnow'
    <2>1. \A k \in Jobs : AtWork(k)' = AtWork(k)
      BY <1>2 DEF AtWork
    <2> QED
      BY <1>2, <1>5, <2>1 DEF RunsKnow, OneRun, AheadOfTold, RunKnows
  <1> QED
    BY <1>2, <1>3, <1>4, <1>5 DEF PollerInv, Undisturbed

\* A day passes: what was due is so still.
LEMMA DayKeeps ==
    ASSUME PollerInv, Day \/ UNCHANGED pollerVars
    PROVE  PollerInv'
  <1>1. /\ today' \in {today, today + 1} /\ (today' = today \/ today < MaxDay)
        /\ UNCHANGED <<next, active, cancelled, run, told, again, overlapped, crashes>>
    BY DEF Day, pollerVars, jobs, history
  <1>2. today' \in 0..MaxDay
    BY <1>1, SchedulerAssumption DEF PollerInv, PollerTypeOK
  <1>3. PollerTypeOK'
    BY <1>1, <1>2 DEF PollerInv, PollerTypeOK
  <1>4. \A k \in Jobs : AtWork(k)' = AtWork(k)
    BY <1>1 DEF AtWork
  <1> QED
    BY <1>1, <1>3, <1>4 DEF PollerInv, RunsFit, ScheduledOnce, CancelledStays,
       Undisturbed, RunsKnow, OneRun, AheadOfTold, RunKnows

-----------------------------------------------------------------------------
\* A run reads what is due.  If no other is under way, nobody has heard of it yet.
LEMMA TickKeeps ==
    ASSUME PollerInv, NEW r \in Runs, Tick(r)
    PROVE  PollerInv'
  <1> DEFINE read_ == [j \in Jobs |-> IF j \in Due THEN next[j] ELSE -1]
             v == [pc |-> "pick", day |-> today, due |-> read_]
  <1>1. PollerTypeOK /\ RunsFit /\ ScheduledOnce /\ CancelledStays
    BY DEF PollerInv
  <1>2. /\ run[r].pc = "idle" /\ RunGoes(r, v)
        /\ overlapped' = (overlapped \/ \E s \in Runs : run[s].pc # "idle")
        /\ UNCHANGED <<today, next, active, cancelled, told, again, crashes>>
    BY DEF Tick, RunAt, jobs, history, Never
  <1>3. /\ read_ \in [Jobs -> Instants]
        /\ \A j \in Jobs : read_[j] <= today
        /\ \A j \in Jobs : read_[j] # -1 => j \in active /\ read_[j] = next[j]
    BY <1>1 DEF PollerTypeOK, Due, Days, Never, Instants
  <1>4. v \in RunRecords
    BY <1>1, <1>3 DEF RunRecords, PollerTypeOK
  <1>5. run' \in [Runs -> RunRecords] /\ \A s \in Runs : run'[s] = IF s = r THEN v ELSE run[s]
    BY <1>1, <1>2, <1>4, RunMoves
  <1> HIDE DEF read_
  <1>6. PollerTypeOK'
    BY <1>1, <1>2, <1>5
    DEF PollerTypeOK, RunRecords, Days, Never, Instants
  <1>7. RunsFit' /\ ScheduledOnce' /\ CancelledStays'
    BY <1>1, <1>2, <1>3, <1>5 DEF RunsFit, ScheduledOnce, CancelledStays
  <1>8. ASSUME RunsKnow, ~overlapped' PROVE RunsKnow'
    <2>1. \A s \in Runs : run[s].pc = "idle"
      BY <1>2, <1>8
    <2>2. \A s \in Runs : run'[s].pc = IF s = r THEN "pick" ELSE "idle"
      BY <1>5, <2>1
    <2>3. \A j \in Jobs : ~AtWork(j) /\ ~AtWork(j)'
      BY <2>1, <2>2 DEF AtWork
    <2>4. OneRun' /\ again' = {}
      BY <1>2, <1>8, <2>2 DEF OneRun, RunsKnow
    <2>5. AheadOfTold'
      BY <1>2, <1>8, <2>3 DEF RunsKnow, AheadOfTold
    <2>6. \A j \in Jobs, u \in Users : read_[j] # -1 /\ j \notin Daily => told[<<j, u>>] = -1
      BY <1>3, <1>8, <2>3 DEF RunsKnow, AheadOfTold, Never
    <2>7. RunKnows'
      BY <1>2, <1>3, <1>5, <2>2, <2>6 DEF RunKnows, Never
    <2> QED
      BY <2>4, <2>5, <2>7 DEF RunsKnow
  <1> QED
    BY <1>2, <1>6, <1>7, <1>8 DEF PollerInv, Undisturbed

\* A run takes up one of its rows, or is through with them.
LEMMA PickKeeps ==
    ASSUME PollerInv, NEW r \in Runs, Pick(r)
    PROVE  PollerInv'
  <1>1. PollerTypeOK /\ RunsFit /\ ScheduledOnce /\ CancelledStays
    BY DEF PollerInv
  <1>2. PICK j \in DueRows(r), left \in {{}, Users} :
           RunGoes(r, [pc |-> "send", day |-> run[r].day, due |-> run[r].due,
                             job |-> j, left |-> left])
    BY DEF Pick
  <1> DEFINE v == [pc |-> "send", day |-> run[r].day, due |-> run[r].due, job |-> j, left |-> left]
  <1>3. /\ run[r].pc = "pick" /\ j \in Jobs /\ run[r].due[j] # -1 /\ left \subseteq Users
        /\ UNCHANGED <<today, next, active, cancelled, told, again, overlapped, crashes>>
    BY DEF Pick, RunAt, DueRows, Never, Go, jobs,
           history
  <1>4. /\ run[r].day \in 0..MaxDay /\ run[r].due \in [Jobs -> Instants]
        /\ v \in RunRecords
    BY <1>1, <1>3, RunsTyped DEF RunRecords
  <1>5. run' \in [Runs -> RunRecords] /\ \A s \in Runs : run'[s] = IF s = r THEN v ELSE run[s]
    BY <1>1, <1>2, <1>4, RunMoves
  <1>6. PollerTypeOK'
    BY <1>1, <1>3, <1>5, RunTypeKept
  <1>7. RunsFit' /\ ScheduledOnce' /\ CancelledStays'
    BY <1>1, <1>3, <1>5 DEF RunsFit, ScheduledOnce, CancelledStays, Never
  <1>8. ASSUME RunsKnow PROVE RunsKnow'
    <2>1. \A s \in Runs : s # r => run[s].pc = "idle"
      BY <1>3, <1>8 DEF RunsKnow, OneRun
    <2>2. OneRun' /\ again' = {}
      BY <1>3, <1>5, <1>8, <2>1 DEF OneRun, RunsKnow
    <2>3. \A k \in Jobs : ~AtWork(k) /\ (AtWork(k)' <=> k = j)
      BY <1>3, <1>5, <2>1 DEF AtWork
    <2>4. AheadOfTold'
      BY <1>3, <1>8, <2>3 DEF RunsKnow, AheadOfTold
    <2>5. /\ run[r].due[j] = next[j] /\ run[r].due[j] <= run[r].day
          /\ j \notin Daily => \A u \in Users : told[<<j, u>>] = -1
      BY <1>1, <1>3, <1>8, <2>3 DEF RunsKnow, RunKnows, RunsFit, Never
    <2>6. \A u \in Users : told[<<j, u>>] <= run[r].day /\ told[<<j, u>>] # run[r].day
      <3> SUFFICES ASSUME NEW u \in Users
                   PROVE  told[<<j, u>>] <= run[r].day /\ told[<<j, u>>] # run[r].day
        OBVIOUS
      <3>1. /\ told[<<j, u>>] \in 0..MaxDay \cup {-1} /\ next[j] \in 0..MaxDay + 1 \cup {-1}
            /\ MaxDay \in Nat
        BY <1>1, <1>3, SchedulerAssumption DEF PollerTypeOK, Never, Days
      <3>2. CASE told[<<j, u>>] = -1
        BY <1>4, <3>1, <3>2
      <3>3. CASE told[<<j, u>>] # -1
        <4>1. told[<<j, u>>] < next[j]
          BY <1>3, <1>8, <2>3, <2>5, <3>3 DEF RunsKnow, AheadOfTold, Never
        <4> QED
          BY <1>4, <2>5, <3>1, <4>1
      <3> QED
        BY <3>2, <3>3
    <2>7. RunKnows'
      BY <1>3, <1>5, <1>8, <2>1, <2>3, <2>5, <2>6 DEF RunKnows, RunsKnow, Never
    <2> QED
      BY <2>2, <2>4, <2>7 DEF RunsKnow
  <1> QED
    BY <1>3, <1>6, <1>7, <1>8 DEF PollerInv, Undisturbed

\* A run ends; what the others know does not change.
LEMMA EndRunKeeps ==
    ASSUME PollerInv, NEW r \in Runs, EndRun(r)
    PROVE  PollerInv'
  <1>1. PollerTypeOK /\ RunsFit /\ ScheduledOnce /\ CancelledStays
    BY DEF PollerInv
  <1>2. /\ run[r].pc = "pick" /\ RunGoes(r, IdleRun)
        /\ UNCHANGED <<today, next, active, cancelled, told, again, overlapped, crashes>>
    BY DEF EndRun, RunAt, Go, jobs, history
  <1>3. IdleRun \in RunRecords /\ IdleRun.pc = "idle"
    BY DEF RunRecords, IdleRun
  <1>4. /\ run' \in [Runs -> RunRecords]
        /\ \A s \in Runs : run'[s] = IF s = r THEN IdleRun ELSE run[s]
    BY <1>1, <1>2, <1>3, RunMoves
  <1>5. PollerTypeOK'
    BY <1>1, <1>2, <1>4, RunTypeKept
  <1>6. \A k \in Jobs : AtWork(k)' = AtWork(k)
    BY <1>2, <1>3, <1>4 DEF AtWork
  <1> QED
    BY <1>1, <1>2, <1>3, <1>4, <1>5, <1>6 DEF PollerInv, RunsFit, ScheduledOnce,
       CancelledStays, Undisturbed, RunsKnow, OneRun, AheadOfTold, RunKnows

-----------------------------------------------------------------------------
\* One recipient hears of it, or is skipped: the only step that tells anyone.
LEMMA SendKeeps ==
    ASSUME PollerInv, NEW r \in Runs, Send(r)
    PROVE  PollerInv'
  <1>1. PollerTypeOK /\ RunsFit /\ ScheduledOnce /\ CancelledStays
    BY DEF PollerInv
  <1> DEFINE j == run[r].job
             d == run[r].day
  <1>2. PICK u \in run[r].left :
           /\ RunGoes(r, [run[r] EXCEPT !.left = @ \ {u}])
           /\ \/ UNCHANGED history
              \/ /\ told' = [told EXCEPT ![<<j, u>>] = d]
                 /\ again' = IF told[<<j, u>>] = d
                                \/ (told[<<j, u>>] # Never /\ j \notin Daily)
                             THEN again \cup {<<j, u>>} ELSE again
    BY DEF Send
  <1> DEFINE v == [run[r] EXCEPT !.left = @ \ {u}]
  <1>3. /\ run[r].pc = "send"
        /\ UNCHANGED <<today, next, active, cancelled, overlapped, crashes>>
    BY DEF Send, RunAt, Go, jobs
  <1>4. run[r] \in [pc : {"send"}, day : 0..MaxDay, due : [Jobs -> Instants],
                    job : Jobs, left : SUBSET Users]
    BY <1>1, <1>3, RunsTyped
  <1>5. /\ v \in RunRecords /\ u \in Users /\ j \in Jobs /\ d \in 0..MaxDay
        /\ v.pc = "send" /\ v.day = d /\ v.due = run[r].due /\ v.job = j
        /\ v.left = run[r].left \ {u}
    BY <1>2, <1>4 DEF RunRecords
  <1>6. run' \in [Runs -> RunRecords] /\ \A s \in Runs : run'[s] = IF s = r THEN v ELSE run[s]
    BY <1>1, <1>2, <1>5, RunMoves
  <1>7. told' \in [Jobs \X Users -> 0..MaxDay \cup {-1}] /\ again' \subseteq Jobs \X Users
    BY <1>1, <1>2, <1>5 DEF PollerTypeOK, history, Never
  <1>8. \A k \in Jobs, w \in Users :
           told'[<<k, w>>] = told[<<k, w>>] \/ (k = j /\ w = u /\ told'[<<k, w>>] = d)
    BY <1>1, <1>2, <1>5 DEF PollerTypeOK, history
  <1> HIDE DEF v
  <1>9. PollerTypeOK'
    BY <1>1, <1>3, <1>6, <1>7 DEF PollerTypeOK, RunRecords, Days, Never, Instants
  <1>10. RunsFit' /\ ScheduledOnce' /\ CancelledStays'
    BY <1>1, <1>3, <1>5, <1>6 DEF RunsFit, ScheduledOnce, CancelledStays, Never
  <1>11. \A k \in Jobs : AtWork(k)' = AtWork(k)
    BY <1>3, <1>5, <1>6 DEF AtWork
  <1>12. AtWork(j)
    BY <1>3 DEF AtWork
  <1>13. ASSUME RunsKnow PROVE RunsKnow'
    <2>1. \A s \in Runs : s # r => run[s].pc = "idle"
      BY <1>3, <1>13 DEF RunsKnow, OneRun
    <2>2. OneRun'
      BY <1>3, <1>5, <1>6, <2>1 DEF OneRun
    <2>3. /\ told[<<j, u>>] # d
          /\ j \in Daily \/ told[<<j, u>>] = -1
          /\ run[r].due[j] = next[j] /\ next[j] # -1
      BY <1>1, <1>2, <1>3, <1>5, <1>13 DEF RunsKnow, RunKnows, RunsFit, Never
    <2>4. again' = {}
      BY <1>2, <1>13, <2>3 DEF RunsKnow, history, Never
    <2>5. AheadOfTold'
      <3> SUFFICES ASSUME NEW k \in Jobs, NEW w \in Users, told'[<<k, w>>] # -1
                   PROVE  /\ next[k] # -1
                          /\ AtWork(k) \/ IF k \in Daily THEN told'[<<k, w>>] < next[k]
                                          ELSE k \notin active
        BY <1>3, <1>11 DEF AheadOfTold, Never
      <3>1. CASE k = j
        BY <1>12, <2>3, <3>1
      <3>2. CASE k # j
        BY <1>8, <1>13, <3>2 DEF RunsKnow, AheadOfTold, Never
      <3> QED
        BY <3>1, <3>2
    <2>6. \A k \in Jobs : run[r].due[k] # -1 =>
             /\ run[r].due[k] = next[k]
             /\ k \in Daily \/ AtWork(k) \/ \A w \in Users : told'[<<k, w>>] = -1
      <3> SUFFICES ASSUME NEW k \in Jobs, run[r].due[k] # -1
                   PROVE  /\ run[r].due[k] = next[k]
                          /\ k \in Daily \/ AtWork(k) \/ \A w \in Users : told'[<<k, w>>] = -1
        OBVIOUS
      <3>1. /\ run[r].due[k] = next[k]
            /\ k \in Daily \/ AtWork(k) \/ \A w \in Users : told[<<k, w>>] = -1
        BY <1>3, <1>13 DEF RunsKnow, RunKnows, Never
      <3> QED
        BY <1>8, <1>12, <3>1
    <2>7. \A w \in Users :
             /\ told'[<<j, w>>] <= d
             /\ w \in run[r].left \ {u} =>
                   told'[<<j, w>>] # d /\ (j \in Daily \/ told'[<<j, w>>] = -1)
      <3> SUFFICES ASSUME NEW w \in Users
                   PROVE  /\ told'[<<j, w>>] <= d
                          /\ w \in run[r].left \ {u} =>
                                told'[<<j, w>>] # d /\ (j \in Daily \/ told'[<<j, w>>] = -1)
        OBVIOUS
      <3>1. /\ told[<<j, w>>] <= d
            /\ w \in run[r].left =>
                  told[<<j, w>>] # d /\ (j \in Daily \/ told[<<j, w>>] = -1)
        BY <1>3, <1>13 DEF RunsKnow, RunKnows, Never
      <3>2. told'[<<j, w>>] = told[<<j, w>>] \/ (w = u /\ told'[<<j, w>>] = d)
        BY <1>5, <1>8
      <3> HIDE DEF j, d
      <3> QED
        BY <1>5, <3>1, <3>2
    <2>8. RunKnows'
      BY <1>3, <1>5, <1>6, <1>11, <2>1, <2>6, <2>7 DEF RunKnows, Never
    <2> QED
      BY <2>2, <2>4, <2>5, <2>8 DEF RunsKnow
  <1> QED
    BY <1>3, <1>9, <1>10, <1>13 DEF PollerInv, Undisturbed

\* A daily broadcast goes past the day it was told, a one-off ends.
LEMMA FinishKeeps ==
    ASSUME PollerInv, NEW r \in Runs, Finish(r)
    PROVE  PollerInv'
  <1>1. PollerTypeOK /\ RunsFit /\ ScheduledOnce /\ CancelledStays
    BY DEF PollerInv
  <1> DEFINE j == run[r].job
             d == run[r].day
             at == run[r].due[j]
             v == [pc |-> "pick", day |-> d, due |-> [run[r].due EXCEPT ![j] = -1]]
  <1>2. /\ run[r].pc = "send" /\ RunGoes(r, v)
        /\ IF j \in Daily
           THEN next' = [next EXCEPT ![j] = Roll(j, at, d)] /\ UNCHANGED active
           ELSE active' = active \ {j} /\ UNCHANGED next
        /\ UNCHANGED <<today, cancelled, told, again, overlapped, crashes>>
    BY DEF Finish, RunAt, Go, history, Drop, Never
  <1>3. run[r] \in [pc : {"send"}, day : 0..MaxDay, due : [Jobs -> Instants],
                    job : Jobs, left : SUBSET Users]
    BY <1>1, <1>2, RunsTyped
  <1>4. /\ j \in Jobs /\ d \in 0..MaxDay /\ MaxDay \in Nat
        /\ at \in 0..MaxDay + 1 /\ at <= d
        /\ v \in RunRecords
    <2>1. at # -1 /\ at <= d
      BY <1>1, <1>2, <1>3 DEF RunsFit, Never
    <2>2. -1 \in Instants
      BY DEF Instants
    <2>3. v \in RunRecords
      BY <1>3, <2>2 DEF RunRecords
    <2>4. at \in Instants /\ j \in Jobs /\ d \in 0..MaxDay
      BY <1>3
    <2>5. MaxDay \in Nat
      BY SchedulerAssumption
    <2> HIDE DEF at, d, v, j
    <2> QED
      BY <2>1, <2>3, <2>4, <2>5 DEF Instants
  <1>5. Roll(j, at, d) = d + 1
    <2> HIDE DEF at, d, j
    <2> QED
      BY <1>4 DEF Roll
  <1>6. run' \in [Runs -> RunRecords] /\ \A s \in Runs : run'[s] = IF s = r THEN v ELSE run[s]
    BY <1>1, <1>2, <1>4, RunMoves
  <1>7. \A k \in Jobs : next'[k] = IF k = j /\ j \in Daily THEN d + 1 ELSE next[k]
    BY <1>1, <1>2, <1>4, <1>5 DEF PollerTypeOK
  <1>8. next' \in [Jobs -> Days \cup {-1}]
    <2>1. d + 1 \in Days
      <3> HIDE DEF d
      <3> QED
        BY <1>4 DEF Days
    <2> QED
      BY <1>1, <1>2, <1>4, <1>5, <2>1 DEF PollerTypeOK, Never
  <1>9. active' \subseteq active /\ (j \notin Daily => j \notin active')
    BY <1>2
  <1>10. PollerTypeOK'
    BY <1>1, <1>2, <1>6, <1>8, <1>9
    DEF PollerTypeOK, RunRecords, Days, Never, Instants
  <1>11. RunsFit'
    <2>1. \A k \in Jobs : v.due[k] = IF k = j THEN -1 ELSE run[r].due[k]
      BY <1>3
    <2>2. v.pc = "pick" /\ v.day = d
      OBVIOUS
    <2>3. \A k \in Jobs : run[r].due[k] <= d
      BY <1>1, <1>2 DEF RunsFit
    <2> HIDE DEF v, d, j, at
    <2>4. \A k \in Jobs : v.due[k] <= v.day
      BY <1>4, <2>1, <2>2, <2>3
    <2> QED
      BY <1>1, <1>6, <2>2, <2>4 DEF RunsFit
  <1>12. ScheduledOnce'
    <2>1. d + 1 # -1
      <3> HIDE DEF d
      <3> QED
        BY <1>4
    <2>2. active \subseteq Jobs /\ cancelled \subseteq Jobs
      BY <1>1 DEF PollerTypeOK
    <2> HIDE DEF d
    <2> QED
      BY <1>1, <1>2, <1>7, <1>9, <2>1, <2>2 DEF ScheduledOnce, Never
  <1>13. CancelledStays'
    BY <1>1, <1>2, <1>9 DEF CancelledStays
  <1>14. ASSUME RunsKnow PROVE RunsKnow'
    <2>1. \A s \in Runs : s # r => run[s].pc = "idle"
      BY <1>2, <1>14 DEF RunsKnow, OneRun
    <2>2. OneRun' /\ again' = {}
      BY <1>2, <1>6, <1>14, <2>1 DEF OneRun, RunsKnow
    <2>3. \A k \in Jobs : (AtWork(k) <=> k = j) /\ ~AtWork(k)'
      BY <1>2, <1>6, <2>1 DEF AtWork
    <2>4. \A u \in Users : told[<<j, u>>] <= d
      BY <1>2, <1>14 DEF RunsKnow, RunKnows
    <2>5. AheadOfTold'
      <3> SUFFICES ASSUME NEW k \in Jobs, NEW u \in Users, told[<<k, u>>] # -1
                   PROVE  /\ next'[k] # -1
                          /\ IF k \in Daily THEN told[<<k, u>>] < next'[k] ELSE k \notin active'
        BY <1>2, <2>3 DEF AheadOfTold, Never
      <3>1. /\ next[k] # -1
            /\ k = j \/ IF k \in Daily THEN told[<<k, u>>] < next[k] ELSE k \notin active
        BY <1>14, <2>3 DEF RunsKnow, AheadOfTold, Never
      <3>2. told[<<k, u>>] \in 0..MaxDay \cup {-1}
        BY <1>1 DEF PollerTypeOK, Never
      <3>3. CASE k = j
        <4> HIDE DEF j, d
        <4> QED
          BY <1>4, <1>7, <1>9, <2>4, <3>1, <3>2, <3>3
      <3>4. CASE k # j
        BY <1>7, <1>9, <3>1, <3>4
      <3> QED
        BY <3>3, <3>4
    <2>6. RunKnows'
      <3>1. \A k \in Jobs : v.due[k] = IF k = j THEN -1 ELSE run[r].due[k]
        BY <1>3
      <3>2. v.pc = "pick"
        OBVIOUS
      <3>3. \A k \in Jobs : run[r].due[k] # -1 =>
               /\ run[r].due[k] = next[k]
               /\ k \in Daily \/ k = j \/ \A u \in Users : told[<<k, u>>] = -1
        BY <1>2, <1>14, <2>3 DEF RunsKnow, RunKnows, Never
      <3> HIDE DEF v, j, d, at
      <3>4. \A k \in Jobs : v.due[k] # -1 =>
               /\ v.due[k] = next'[k]
               /\ k \in Daily \/ \A u \in Users : told[<<k, u>>] = -1
        BY <1>7, <3>1, <3>3
      <3> QED
        BY <1>2, <1>6, <2>1, <3>2, <3>4 DEF RunKnows, Never
    <2> QED
      BY <2>2, <2>5, <2>6 DEF RunsKnow
  <1> QED
    BY <1>2, <1>10, <1>11, <1>12, <1>13, <1>14 DEF PollerInv, Undisturbed

\* After a failure nothing is claimed of who has been told.
LEMMA RunFailKeeps ==
    ASSUME PollerInv, NEW S, RunsFail(S)
    PROVE  PollerInv'
  <1>1. PollerTypeOK /\ RunsFit /\ ScheduledOnce /\ CancelledStays
    BY DEF PollerInv
  <1>2. /\ crashes < MaxCrashes /\ crashes' = crashes + 1
        /\ run' = [r \in Runs |-> IF r \in S THEN IdleRun ELSE run[r]]
        /\ UNCHANGED <<today, next, active, cancelled, told, again, overlapped>>
    BY DEF RunsFail, jobs, history
  <1>3. crashes' \in 0..MaxCrashes /\ crashes' # 0
    BY <1>1, <1>2, SchedulerAssumption DEF PollerTypeOK
  <1>4. run' \in [Runs -> RunRecords]
    <2>1. IdleRun \in RunRecords /\ run \in [Runs -> RunRecords]
      BY <1>1, RunsTyped DEF RunRecords
    <2> QED
      BY <1>2, <2>1
  <1>5. PollerTypeOK'
    BY <1>1, <1>2, <1>3, <1>4
    DEF PollerTypeOK, RunRecords, Days, Never, Instants
  <1>6. RunsFit'
    <2>1. IdleRun.pc = "idle"
      BY DEF IdleRun
    <2> QED
      BY <1>1, <1>2, <2>1 DEF RunsFit
  <1>7. ScheduledOnce' /\ CancelledStays'
    BY <1>1, <1>2 DEF ScheduledOnce, CancelledStays
  <1> QED
    BY <1>3, <1>5, <1>6, <1>7 DEF PollerInv, Undisturbed

-----------------------------------------------------------------------------
\* The invariant holds however runs, admins, failures and days interleave.
THEOREM PollerInvariant ==
    PollerSpec => []PollerInv
  <1>1. PollerInit => PollerInv
    BY PollerInitInv
  <1>2. PollerInv /\ [PollerNext]_pollerVars => PollerInv'
    BY ScheduleKeeps, CancelKeeps, DayKeeps, TickKeeps, PickKeeps, EndRunKeeps, SendKeeps,
       FinishKeeps, RunFailKeeps
    DEF PollerNext
  <1> QED
    BY <1>1, <1>2, PTL DEF PollerSpec

\* For any number of jobs, users and runs, nobody is told twice as long as no two runs
\* overlap and none is cut short.
THEOREM NobodyIsToldTwice ==
    PollerSpec => []NotTwiceADay
  <1>1. PollerInv => NotTwiceADay
    BY DEF PollerInv, Undisturbed, RunsKnow, NotTwiceADay
  <1> QED
    BY <1>1, PollerInvariant, PTL

\* No run, however late, brings a cancelled broadcast back.
THEOREM CancellingIsFinal ==
    PollerSpec => []CancelledStays
  <1>1. PollerInv => CancelledStays
    BY DEF PollerInv
  <1> QED
    BY <1>1, PollerInvariant, PTL

-----------------------------------------------------------------------------
(* The offline copies of a course's videos.                                *)

Dated == {"fresh", "lapsed", "over"}

\* A listed copy that lost its token.
Keyless(l) == manifest[l] \in Dated /\ l \notin keys

\* A flow is about to list the lesson anew, whatever its entry says now.
Relisting(r, l) == r.pc = "write" \/ (r.pc \in {"store", "list"} /\ r.lesson = l)

\* A flow is about to take the entry away.
Unlisting(r, l) == r.pc \in {"write", "wipe", "wipeToken"} \/ (r.pc = "unlist" /\ r.lesson = l)

\* While r is the one flow there is: what it must still do, and what it knows of tokens.
KeysFit(r) ==
    /\ \A l \in file : Keyless(l) => mishaps # 0 /\ Relisting(r, l)
    /\ mishaps = 0 => \A l \in Lessons : Keyless(l) => Unlisting(r, l)
    /\ r.pc \in {"write", "rewrite"} =>
          \A l \in Lessons : r.copy[l] \in Dated /\ l \notin keys => mishaps # 0 /\ l \notin file
    /\ r.pc \in {"list", "relist"} /\ r.ticket \in Dated => r.lesson \in keys
    /\ r.pc \in {"deleteToken", "unlist", "wipeToken"} => r.lesson \notin file
    /\ r.pc = "check" /\ r.entry \in Dated => r.lesson \in keys
    /\ r.pc = "entry" => r.lesson \in file
    /\ r.pc = "play" /\ r.by = "device" => r.entry \in {"fresh", "legacy"}

\* The same of files, as long as the app was never killed and no call failed.
FilesFit(r) ==
    /\ \A l \in file : manifest[l] = "none" => Relisting(r, l)
    /\ r.pc \in {"write", "rewrite"} => \A l \in file : r.copy[l] # "none"
    /\ r.pc \in {"wipe", "wipeToken"} => file \subseteq r.todo
    /\ r.pc \in {"deleteToken", "unlist", "wipeToken"} => r.lesson \notin file

OneFlow == \A s, t \in Tasks : task[s] # IdleTask /\ task[t] # IdleTask => s = t

\* The flow there is, if any.
Current == IF Quiet THEN IdleTask ELSE task[CHOOSE t \in Tasks : task[t] # IdleTask]

CopiesInv ==
    /\ CopiesTypeOK
    /\ ~flowsMet => OneFlow
    /\ ~flowsMet /\ mishaps <= 1 => KeysFit(Current)
    /\ ~flowsMet /\ mishaps = 0 => FilesFit(Current)

-----------------------------------------------------------------------------
\* The type invariant, by where a flow is.
LEMMA FlowsTyped ==
    ASSUME NEW r \in TaskRecords
    PROVE  /\ r.pc \in {"idle", "fetch", "store", "list", "restore", "relist", "write",
                        "rewrite", "deleteFile", "deleteToken", "unlist", "entry", "refresh",
                        "check", "play", "readToWipe", "wipe", "wipeToken"}
           /\ r.pc = "idle" <=> r = IdleTask
           /\ r.pc \in Savings =>
                 r \in [pc : Savings, lesson : Lessons, ticket : Entries \ {"none"}]
           /\ r.pc = "write" => r \in [pc : {"write"}, copy : Manifests]
           /\ r.pc = "rewrite" => r \in [pc : {"rewrite"}, lesson : Lessons, copy : Manifests]
           /\ r.pc \in {"deleteFile", "deleteToken", "unlist", "entry"} =>
                 r \in [pc : {"deleteFile", "deleteToken", "unlist", "entry"}, lesson : Lessons]
           /\ r.pc \in {"check", "refresh"} =>
                 r \in [pc : {"check", "refresh"}, lesson : Lessons, entry : Entries \ {"none"}]
           /\ r.pc = "wipe" => r \in [pc : {"wipe"}, todo : SUBSET Lessons]
           /\ r.pc = "wipeToken" =>
                 r \in [pc : {"wipeToken"}, lesson : Lessons, todo : SUBSET Lessons]
  BY DEF TaskRecords, IdleTask, Savings

\* The same, for the flow of a task and the device it works on.
LEMMA DeviceTyped ==
    ASSUME CopiesInv
    PROVE  /\ \A t \in Tasks : task[t] \in TaskRecords
           /\ file \subseteq Lessons /\ keys \subseteq Lessons /\ manifest \in Manifests
           /\ mishaps \in Nat
  BY OfflineCourseAssumption DEF CopiesInv, CopiesTypeOK

\* What flows become, where nothing depends on the lesson's state.
LEMMA EndsTyped ==
    /\ IdleTask \in TaskRecords /\ IdleTask.pc = "idle"
    /\ NoEntries \in Manifests /\ \A l \in Lessons : NoEntries[l] = "none"
    /\ Terms \subseteq Entries \ {"none"} \/ access \notin {"active", "revoked", "expired"}
    /\ \A l \in Lessons : Removal(l) \in TaskRecords /\ Removal(l).pc = "deleteFile"
    /\ \A l \in Lessons, e \in Entries :
          \A by \in {"device", "unread", "server", "late"} :
             LET v == Plays(l, e, by)
             IN  /\ v \in TaskRecords /\ v.pc = "play"
                 /\ v.lesson = l /\ v.entry = e /\ v.by = by
  <1>1. IdleTask \in TaskRecords /\ IdleTask.pc = "idle"
    BY DEF IdleTask, TaskRecords
  <1>2. NoEntries \in Manifests /\ \A l \in Lessons : NoEntries[l] = "none"
    BY DEF NoEntries, Manifests, Entries
  <1>3. Terms \subseteq Entries \ {"none"} \/ access \notin {"active", "revoked", "expired"}
    <2>1. access = "active" => Terms = {"fresh"}
      BY DEF Terms
    <2>2. access = "revoked" => Terms = {"fresh", "over"}
      BY DEF Terms
    <2>3. access = "expired" => Terms = {"over"}
      BY DEF Terms
    <2> QED
      BY <2>1, <2>2, <2>3 DEF Entries
  <1>4. \A l \in Lessons : Removal(l) \in TaskRecords /\ Removal(l).pc = "deleteFile"
    BY DEF Removal, TaskRecords
  <1>5. ASSUME NEW l \in Lessons, NEW e \in Entries,
               NEW by \in {"device", "unread", "server", "late"}
        PROVE  LET v == Plays(l, e, by)
               IN  /\ v \in TaskRecords /\ v.pc = "play"
                   /\ v.lesson = l /\ v.entry = e /\ v.by = by
    BY DEF Plays, TaskRecords
  <1> QED
    BY <1>1, <1>2, <1>3, <1>4, <1>5

\* The flow that is not idle is the current one.
LEMMA CurrentFlow ==
    /\ OneFlow => \A t \in Tasks : task[t] # IdleTask => Current = task[t]
    /\ Quiet => Current = IdleTask
  BY DEF OneFlow, Current, Quiet

\* After a step of a flow that is alone, it is the current one, or there is none.
LEMMA NextFlow ==
    ASSUME NEW t \in Tasks, NEW v, task \in [Tasks -> TaskRecords], task' = [task EXCEPT ![t] = v],
           \A s \in Tasks : s # t => task[s] = IdleTask
    PROVE  OneFlow' /\ Current' = v
  <1>1. \A s \in Tasks : task'[s] = IF s = t THEN v ELSE IdleTask
    OBVIOUS
  <1>2. IdleTask' = IdleTask
    BY DEF IdleTask
  <1>3. OneFlow'
    BY <1>1, <1>2 DEF OneFlow
  <1>4. CASE v = IdleTask
    <2>1. Quiet'
      BY <1>1, <1>2, <1>4 DEF Quiet
    <2> QED
      BY <1>2, <1>3, <1>4, <2>1 DEF Current
  <1>5. CASE v # IdleTask
    <2>1. \A s \in Tasks : task'[s] # IdleTask <=> s = t
      BY <1>1, <1>5
    <2>2. ~Quiet'
      BY <2>1 DEF Quiet
    <2>3. (CHOOSE s \in Tasks : task'[s] # IdleTask) = t
      BY <2>1
    <2>4. Current' = task'[CHOOSE s \in Tasks : task'[s] # IdleTask]
      BY <1>2, <2>2 DEF Current
    <2> QED
      BY <1>1, <1>3, <2>3, <2>4
  <1> QED
    BY <1>3, <1>4, <1>5

\* A flow goes on: its step keeps the type, and of two flows it is still the one.
LEMMA FlowMoves ==
    ASSUME CopiesInv, NEW t \in Tasks, task[t].pc # "idle",
           NEW v \in TaskRecords, TaskGoes(t, v),
           file' \subseteq Lessons, keys' \subseteq Lessons, manifest' \in Manifests,
           UNCHANGED <<verdict, flowsMet>>, mishaps' \in 0..MaxMishaps
    PROVE  /\ CopiesTypeOK'
           /\ ~flowsMet => OneFlow' /\ Current' = v /\ Current = task[t]
  <1>1. task \in [Tasks -> TaskRecords] /\ task' = [task EXCEPT ![t] = v]
    BY DEF CopiesInv, CopiesTypeOK, TaskGoes
  <1>2. CopiesTypeOK'
    <2>1. task' \in [Tasks -> TaskRecords]
      BY <1>1
    <2>2. TaskRecords' = TaskRecords /\ Manifests' = Manifests
      BY DEF TaskRecords, Manifests, Savings, IdleTask, Entries
    <2> QED
      BY <2>1, <2>2 DEF CopiesInv, CopiesTypeOK, verdict
  <1>3. ASSUME ~flowsMet PROVE OneFlow' /\ Current' = v /\ Current = task[t]
    <2>1. task[t] # IdleTask
      BY DEF IdleTask
    <2>2. \A s \in Tasks : s # t => task[s] = IdleTask
      BY <1>3, <2>1 DEF CopiesInv, OneFlow
    <2> QED
      BY <1>1, <1>3, <2>1, <2>2, NextFlow, CurrentFlow DEF CopiesInv
  <1> QED
    BY <1>2, <1>3

\* What has to be shown of a step is what it leaves the flow with.
LEMMA FlowStep ==
    ASSUME CopiesInv, NEW t \in Tasks, NEW r, r = task[t], r.pc # "idle",
           NEW v \in TaskRecords, TaskGoes(t, v),
           file' \subseteq Lessons, keys' \subseteq Lessons, manifest' \in Manifests,
           UNCHANGED verdict, GoOn,
           KeysFit(r) => KeysFit(v)',
           FilesFit(r) => FilesFit(v)'
    PROVE  CopiesInv'
  <1>1. UNCHANGED <<verdict, flowsMet, mishaps>> /\ mishaps' \in 0..MaxMishaps
    BY DEF GoOn, CopiesInv, CopiesTypeOK
  <1>2. /\ CopiesTypeOK'
        /\ ~flowsMet => OneFlow' /\ Current' = v /\ Current = r
    BY <1>1, FlowMoves
  <1> QED
    BY <1>1, <1>2 DEF CopiesInv

\* A call fails in the flow: if it is the first mishap, no copy has lost its token so far;
\* of files nothing is said any more.
LEMMA FaultStep ==
    ASSUME CopiesInv, NEW t \in Tasks, NEW r, r = task[t], r.pc # "idle",
           NEW v \in TaskRecords, TaskGoes(t, v),
           file' \subseteq Lessons, keys' \subseteq Lessons, manifest' \in Manifests,
           UNCHANGED verdict, Fault,
           mishaps = 0 /\ mishaps' = 1 /\ KeysFit(r) => KeysFit(v)'
    PROVE  CopiesInv'
  <1>1. /\ mishaps \in Nat /\ mishaps' = mishaps + 1 /\ mishaps' \in 0..MaxMishaps
        /\ UNCHANGED <<verdict, flowsMet>>
    BY OfflineCourseAssumption DEF Fault, CopiesInv, CopiesTypeOK
  <1>2. /\ CopiesTypeOK'
        /\ ~flowsMet => OneFlow' /\ Current' = v /\ Current = r
    BY <1>1, FlowMoves
  <1>3. ASSUME ~flowsMet', mishaps' <= 1 PROVE KeysFit(Current)'
    <2>1. mishaps = 0 /\ mishaps' = 1 /\ ~flowsMet
      BY <1>1, <1>3
    <2>2. KeysFit(r)
      BY <1>2, <2>1 DEF CopiesInv
    <2>3. KeysFit(v)' /\ Current' = v
      BY <1>2, <2>1, <2>2
    <2> QED
      BY <2>3 DEF KeysFit, Keyless, Relisting, Unlisting
  <1>4. mishaps' # 0
    BY <1>1
  <1> QED
    BY <1>1, <1>2, <1>3, <1>4 DEF CopiesInv

\* A call fails and leaves the device as it is, the flow where it knows nothing of it.
LEMMA FaultLeaves ==
    ASSUME CopiesInv, NEW t \in Tasks, NEW r, r = task[t],
           r.pc # "idle",
           NEW v \in TaskRecords, TaskGoes(t, v), UNCHANGED <<verdict, device>>, Fault,
           \/ v.pc \in {"idle", "deleteFile", "wipe"}
           \/ v.pc = "play" /\ v.by # "device"
    PROVE  CopiesInv'
  <1>1. /\ file' \subseteq Lessons /\ keys' \subseteq Lessons /\ manifest' \in Manifests
        /\ file \subseteq Lessons /\ UNCHANGED <<file, keys, manifest>>
    BY DeviceTyped DEF device
  <1>2. mishaps = 0 /\ mishaps' = 1 /\ KeysFit(r) => KeysFit(v)'
    BY <1>1 DEF KeysFit, Keyless, Relisting, Unlisting, Dated
  <1> QED
    BY <1>1, <1>2, FaultStep

-----------------------------------------------------------------------------
\* A download saves the file, deletes it, or breaks off; until it is listed anew, its
\* entry may be one whose token an earlier mishap took.
LEMMA FetchKeeps ==
    ASSUME CopiesInv, NEW t \in Tasks, Fetch(t) PROVE CopiesInv'
  <1>1. PICK r \in TaskRecords : r = task[t]
    BY DeviceTyped
  <1>2. /\ r.pc = "fetch" /\ file \subseteq Lessons /\ keys \subseteq Lessons
        /\ manifest \in Manifests /\ UNCHANGED <<verdict, keys, manifest>>
    BY <1>1, DeviceTyped DEF Fetch, TaskAt
  <1>3. r \in [pc : Savings, lesson : Lessons, ticket : Entries \ {"none"}]
    BY <1>2, FlowsTyped DEF Savings
  <1>4. CASE Arrive(t)
    <2> DEFINE v == [r EXCEPT !.pc = IF r.ticket = "legacy" THEN "list" ELSE "store"]
    <2>1. /\ v \in TaskRecords /\ v.lesson = r.lesson /\ v.ticket = r.ticket
          /\ v.pc = (IF r.ticket = "legacy" THEN "list" ELSE "store")
      BY <1>3 DEF TaskRecords, Savings
    <2>2. TaskGoes(t, v) /\ file' = file \cup {r.lesson} /\ GoOn /\ UNCHANGED mishaps
      BY <1>1, <1>4 DEF Arrive, GoOn
    <2> HIDE DEF v
    <2>3. KeysFit(r) => KeysFit(v)'
      BY <1>2, <1>3, <2>1, <2>2 DEF KeysFit, Keyless, Relisting, Unlisting, Dated
    <2>4. FilesFit(r) => FilesFit(v)'
      BY <1>2, <1>3, <2>1, <2>2 DEF FilesFit, Relisting
    <2>5. file' \subseteq Lessons
      BY <1>2, <1>3, <2>2
    <2> QED
      BY <1>1, <1>2, <2>1, <2>2, <2>3, <2>4, <2>5, FlowStep
  <1>5. CASE BreakOff(t)
    <2>1. PICK v \in TaskRecords : v.pc = "idle" /\ TaskGoes(t, v)
      BY <1>5, EndsTyped DEF BreakOff, End
    <2>2. Fault /\ file' \subseteq file \cup {r.lesson}
      BY <1>1, <1>5 DEF BreakOff
    <2>3. mishaps = 0 /\ mishaps' = 1 /\ KeysFit(r) => KeysFit(v)'
      BY <1>2, <1>3, <2>1, <2>2 DEF KeysFit, Keyless, Relisting, Unlisting, Dated
    <2>4. file' \subseteq Lessons
      BY <1>2, <1>3, <2>2
    <2> QED
      BY <1>1, <1>2, <2>1, <2>2, <2>3, <2>4, FaultStep
  <1>6. CASE file' = file \ {r.lesson} /\ End(t) /\ GoOn
    <2>1. PICK v \in TaskRecords : v.pc = "idle" /\ TaskGoes(t, v)
      BY <1>6, EndsTyped DEF End
    <2>2. UNCHANGED mishaps /\ file' \subseteq Lessons
      BY <1>2, <1>6 DEF GoOn
    <2>3. KeysFit(r) => KeysFit(v)'
      BY <1>2, <1>6, <2>1, <2>2 DEF KeysFit, Keyless, Relisting, Unlisting, Dated
    <2>4. FilesFit(r) => FilesFit(v)'
      BY <1>2, <1>6, <2>1 DEF FilesFit, Relisting
    <2> QED
      BY <1>1, <1>2, <1>6, <2>1, <2>2, <2>3, <2>4, FlowStep
  <1> QED
    BY <1>1, <1>4, <1>5, <1>6 DEF Fetch

\* A token is stored before its entry is written; one that was half stored is no harm.
LEMMA StoreTokenKeeps ==
    ASSUME CopiesInv, NEW t \in Tasks, StoreToken(t) PROVE CopiesInv'
  <1>1. PICK r \in TaskRecords : r = task[t]
    BY DeviceTyped
  <1>2. /\ r.pc \in {"store", "restore"} /\ file \subseteq Lessons /\ keys \subseteq Lessons
        /\ manifest \in Manifests /\ UNCHANGED <<verdict, file, manifest>>
    BY <1>1, DeviceTyped DEF StoreToken, TaskAt
  <1>3. r \in [pc : Savings, lesson : Lessons, ticket : Entries \ {"none"}]
    BY <1>2, FlowsTyped DEF Savings
  <1> DEFINE v == [r EXCEPT !.pc = IF r.pc = "store" THEN "list" ELSE "relist"]
             u == IF r.pc = "store" THEN IdleTask ELSE Plays(r.lesson, r.ticket, "late")
  <1>4. \/ keys' = keys \cup {r.lesson} /\ TaskGoes(t, v) /\ GoOn
        \/ keys' \in {keys, keys \cup {r.lesson}} /\ TaskGoes(t, u) /\ Fault
    BY <1>1 DEF StoreToken, TaskAt
  <1>5. keys \subseteq keys' /\ keys' \subseteq Lessons
    BY <1>2, <1>3, <1>4
  <1>6. CASE keys' = keys \cup {r.lesson} /\ TaskGoes(t, v) /\ GoOn
    <2>1. /\ v \in TaskRecords /\ v.lesson = r.lesson /\ v.ticket = r.ticket
          /\ v.pc = (IF r.pc = "store" THEN "list" ELSE "relist")
      BY <1>3 DEF TaskRecords, Savings
    <2>2. TaskGoes(t, v) /\ UNCHANGED mishaps
      BY <1>6 DEF GoOn
    <2> HIDE DEF v
    <2>3. KeysFit(r) => KeysFit(v)'
      BY <1>2, <1>3, <1>6, <2>1, <2>2 DEF KeysFit, Keyless, Relisting, Unlisting, Dated
    <2>4. FilesFit(r) => FilesFit(v)'
      BY <1>2, <1>3, <2>1, <2>2 DEF FilesFit, Relisting
    <2> QED
      BY <1>1, <1>2, <1>5, <1>6, <2>1, <2>2, <2>3, <2>4, FlowStep
  <1>7. CASE TaskGoes(t, u) /\ Fault
    <2>1. u \in TaskRecords /\ (u.pc = "idle" \/ (u.pc = "play" /\ u.by = "late"))
      BY <1>3, EndsTyped
    <2>2. TaskGoes(t, u) /\ Fault
      BY <1>7
    <2> HIDE DEF u
    <2>3. mishaps = 0 /\ mishaps' = 1 /\ KeysFit(r) => KeysFit(u)'
      BY <1>2, <1>3, <1>5, <2>1 DEF KeysFit, Keyless, Relisting, Unlisting, Dated
    <2> QED
      BY <1>1, <1>2, <1>5, <2>1, <2>2, <2>3, FaultStep
  <1> HIDE DEF u, v
  <1> QED
    BY <1>4, <1>6, <1>7

\* The manifest is read, and the entry of this lesson put in.
LEMMA ReadToListKeeps ==
    ASSUME CopiesInv, NEW t \in Tasks, ReadToList(t) PROVE CopiesInv'
  <1>1. PICK r \in TaskRecords : r = task[t]
    BY DeviceTyped
  <1>2. /\ r.pc = "list" /\ file \subseteq Lessons /\ keys \subseteq Lessons
        /\ manifest \in Manifests /\ UNCHANGED <<verdict, file, keys, manifest>>
    BY <1>1, DeviceTyped DEF ReadToList, TaskAt, device
  <1>3. r \in [pc : Savings, lesson : Lessons, ticket : Entries \ {"none"}]
    BY <1>2, FlowsTyped DEF Savings
  <1>4. PICK m \in {manifest, NoEntries} :
           /\ Read(m)
           /\ TaskGoes(t, [pc |-> "write", copy |-> [m EXCEPT ![r.lesson] = r.ticket]])
    BY <1>1 DEF ReadToList
  <1>5. m \in Manifests
    BY <1>2, EndsTyped
  <1>6. PICK c \in Manifests : c = [m EXCEPT ![r.lesson] = r.ticket]
    BY <1>3, <1>5 DEF Manifests
  <1> DEFINE v == [pc |-> "write", copy |-> c]
  <1>7. /\ v \in TaskRecords /\ TaskGoes(t, v) /\ v.pc = "write" /\ v.copy = c
    BY <1>4, <1>6 DEF TaskRecords
  <1>8. \A l \in Lessons : c[l] = IF l = r.lesson THEN r.ticket ELSE m[l]
    BY <1>5, <1>6 DEF Manifests
  <1> HIDE DEF v
  <1>9. CASE m = manifest /\ GoOn
    <2>1. UNCHANGED mishaps
      BY <1>9 DEF GoOn
    <2>2. KeysFit(r) => KeysFit(v)'
      BY <1>2, <1>3, <1>7, <1>8, <1>9, <2>1 DEF KeysFit, Keyless, Relisting, Unlisting, Dated
    <2>3. FilesFit(r) => FilesFit(v)'
      BY <1>2, <1>3, <1>7, <1>8, <1>9 DEF FilesFit, Relisting
    <2> QED
      BY <1>1, <1>2, <1>7, <1>9, <2>2, <2>3, FlowStep
  <1>10. CASE m = NoEntries /\ Fault
    <2>1. \A l \in Lessons : c[l] = IF l = r.lesson THEN r.ticket ELSE "none"
      BY <1>8, <1>10, EndsTyped
    <2>2. mishaps = 0 /\ mishaps' = 1 /\ KeysFit(r) => KeysFit(v)'
      BY <1>2, <1>3, <1>7, <2>1 DEF KeysFit, Keyless, Relisting, Unlisting, Dated
    <2> QED
      BY <1>1, <1>2, <1>7, <1>10, <2>2, FaultStep
  <1> QED
    BY <1>4, <1>9, <1>10 DEF Read

\* What was read is written back.
LEMMA WriteManifestKeeps ==
    ASSUME CopiesInv, NEW t \in Tasks, WriteManifest(t) PROVE CopiesInv'
  <1>1. PICK r \in TaskRecords : r = task[t]
    BY DeviceTyped
  <1>2. /\ r.pc = "write" /\ file \subseteq Lessons /\ keys \subseteq Lessons
        /\ manifest' = r.copy /\ GoOn /\ UNCHANGED <<verdict, file, keys, mishaps>>
    BY <1>1, DeviceTyped DEF WriteManifest, TaskAt, GoOn
  <1>3. manifest' \in Manifests
    BY <1>2, FlowsTyped
  <1>4. PICK v \in TaskRecords : v.pc = "idle" /\ TaskGoes(t, v)
    BY EndsTyped DEF WriteManifest, End
  <1>5. KeysFit(r) => KeysFit(v)'
    BY <1>2, <1>4 DEF KeysFit, Keyless, Relisting, Unlisting, Dated
  <1>6. FilesFit(r) => FilesFit(v)'
    BY <1>2, <1>4 DEF FilesFit, Relisting
  <1> QED
    BY <1>1, <1>2, <1>3, <1>4, <1>5, <1>6, FlowStep

\* A flow gives up at a call that failed: the device stays as it is.
LEMMA GiveUpKeeps ==
    ASSUME CopiesInv, NEW t \in Tasks, GiveUp(t) PROVE CopiesInv'
  <1>1. task[t].pc # "idle" /\ Fault /\ UNCHANGED <<verdict, device>>
    BY DEF GiveUp, TaskAt
  <1>2. PICK v \in TaskRecords : v.pc = "idle" /\ TaskGoes(t, v)
    BY EndsTyped DEF GiveUp, End
  <1> QED
    BY <1>1, <1>2, FaultLeaves

-----------------------------------------------------------------------------
\* A removal takes the file first.
LEMMA DeleteFileKeeps ==
    ASSUME CopiesInv, NEW t \in Tasks, DeleteFile(t)
    PROVE  CopiesInv'
  <1>1. PICK r \in TaskRecords : r = task[t]
    BY DeviceTyped
  <1> DEFINE v == [r EXCEPT !.pc = "deleteToken"]
  <1>2. /\ r.pc = "deleteFile" /\ file \subseteq Lessons
        /\ keys \subseteq Lessons /\ manifest \in Manifests
        /\ file' = file \ {r.lesson}
        /\ GoOn /\ UNCHANGED <<verdict, keys, manifest, mishaps>>
        /\ TaskGoes(t, v)
    BY <1>1, DeviceTyped DEF DeleteFile, TaskAt, GoOn
  <1>3. r \in [pc : {"deleteFile", "deleteToken", "unlist", "entry"}, lesson : Lessons]
    BY <1>2, FlowsTyped
  <1>4. v \in TaskRecords /\ v.lesson = r.lesson /\ v.pc = "deleteToken"
    BY <1>3 DEF TaskRecords
  <1> HIDE DEF v
  <1>5. KeysFit(r) => KeysFit(v)'
    BY <1>2, <1>3, <1>4 DEF KeysFit, Keyless, Relisting, Unlisting, Dated
  <1>6. FilesFit(r) => FilesFit(v)'
    BY <1>2, <1>3, <1>4 DEF FilesFit, Relisting
  <1>7. file' \subseteq Lessons
    BY <1>2
  <1> QED
    BY <1>1, <1>2, <1>4, <1>5, <1>6, <1>7, FlowStep

\* Then the token, or not.
LEMMA DeleteTokenKeeps ==
    ASSUME CopiesInv, NEW t \in Tasks, DeleteToken(t)
    PROVE  CopiesInv'
  <1>1. PICK r \in TaskRecords : r = task[t]
    BY DeviceTyped
  <1> DEFINE v == [r EXCEPT !.pc = "unlist"]
  <1>2. /\ r.pc = "deleteToken" /\ file \subseteq Lessons
        /\ keys \subseteq Lessons /\ manifest \in Manifests
        /\ UNCHANGED <<verdict, file, manifest>>
        /\ TaskGoes(t, v)
        /\ \/ keys' = keys \ {r.lesson} /\ GoOn
           \/ UNCHANGED keys /\ Fault
    BY <1>1, DeviceTyped DEF DeleteToken, DropToken, TaskAt
  <1>3. r \in [pc : {"deleteFile", "deleteToken", "unlist", "entry"}, lesson : Lessons]
    BY <1>2, FlowsTyped
  <1>4. v \in TaskRecords /\ v.lesson = r.lesson /\ v.pc = "unlist" /\ keys' \subseteq Lessons
    BY <1>2, <1>3 DEF TaskRecords
  <1> HIDE DEF v
  <1>5. CASE keys' = keys \ {r.lesson} /\ GoOn
    <2>1. UNCHANGED mishaps
      BY <1>5 DEF GoOn
    <2>2. KeysFit(r) => KeysFit(v)'
      BY <1>2, <1>3, <1>4, <1>5, <2>1 DEF KeysFit, Keyless, Relisting, Unlisting, Dated
    <2>3. FilesFit(r) => FilesFit(v)'
      BY <1>2, <1>3, <1>4 DEF FilesFit, Relisting
    <2> QED
      BY <1>1, <1>2, <1>4, <1>5, <2>2, <2>3, FlowStep
  <1>6. CASE UNCHANGED keys /\ Fault
    <2>1. mishaps = 0 /\ mishaps' = 1 /\ KeysFit(r) => KeysFit(v)'
      BY <1>2, <1>3, <1>4, <1>6 DEF KeysFit, Keyless, Relisting, Unlisting, Dated
    <2> QED
      BY <1>1, <1>2, <1>4, <1>6, <2>1, FaultStep
  <1> QED
    BY <1>2, <1>5, <1>6

\* The manifest is read, and the entry of this lesson taken out.
LEMMA ReadToUnlistKeeps ==
    ASSUME CopiesInv, NEW t \in Tasks, ReadToUnlist(t) PROVE CopiesInv'
  <1>1. PICK r \in TaskRecords : r = task[t]
    BY DeviceTyped
  <1>2. /\ r.pc = "unlist" /\ file \subseteq Lessons /\ keys \subseteq Lessons
        /\ manifest \in Manifests /\ UNCHANGED <<verdict, file, keys, manifest>>
    BY <1>1, DeviceTyped DEF ReadToUnlist, TaskAt, device
  <1>3. r.lesson \in Lessons
    BY <1>2, FlowsTyped
  <1>4. PICK m \in {manifest, NoEntries} :
           /\ Read(m)
           /\ TaskGoes(t, [pc |-> "write", copy |-> [m EXCEPT ![r.lesson] = "none"]])
    BY <1>1 DEF ReadToUnlist
  <1>5. m \in Manifests
    BY <1>2, EndsTyped
  <1>6. PICK c \in Manifests : c = [m EXCEPT ![r.lesson] = "none"]
    BY <1>3, <1>5 DEF Manifests, Entries
  <1> DEFINE v == [pc |-> "write", copy |-> c]
  <1>7. /\ v \in TaskRecords /\ TaskGoes(t, v) /\ v.pc = "write" /\ v.copy = c
    BY <1>4, <1>6 DEF TaskRecords
  <1>8. \A l \in Lessons : c[l] = IF l = r.lesson THEN "none" ELSE m[l]
    BY <1>5, <1>6 DEF Manifests
  <1> HIDE DEF v
  <1>9. CASE m = manifest /\ GoOn
    <2>1. UNCHANGED mishaps
      BY <1>9 DEF GoOn
    <2>2. KeysFit(r) => KeysFit(v)'
      BY <1>2, <1>3, <1>7, <1>8, <1>9, <2>1 DEF KeysFit, Keyless, Relisting, Unlisting, Dated
    <2>3. FilesFit(r) => FilesFit(v)'
      BY <1>2, <1>3, <1>7, <1>8, <1>9 DEF FilesFit, Relisting
    <2> QED
      BY <1>1, <1>2, <1>7, <1>9, <2>2, <2>3, FlowStep
  <1>10. CASE m = NoEntries /\ Fault
    <2>1. \A l \in Lessons : c[l] = "none"
      BY <1>8, <1>10, EndsTyped
    <2>2. mishaps = 0 /\ mishaps' = 1 /\ KeysFit(r) => KeysFit(v)'
      BY <1>2, <1>3, <1>7, <2>1 DEF KeysFit, Keyless, Relisting, Unlisting, Dated
    <2> QED
      BY <1>1, <1>2, <1>7, <1>10, <2>2, FaultStep
  <1> QED
    BY <1>4, <1>9, <1>10 DEF Read

-----------------------------------------------------------------------------
\* A wipe goes through the lessons it found listed: none, if it could not read.
LEMMA ReadToWipeKeeps ==
    ASSUME CopiesInv, NEW t \in Tasks, ReadToWipe(t)
    PROVE  CopiesInv'
  <1>1. PICK r \in TaskRecords : r = task[t]
    BY DeviceTyped
  <1>2. /\ r.pc = "readToWipe" /\ file \subseteq Lessons /\ keys \subseteq Lessons
        /\ manifest \in Manifests /\ UNCHANGED <<verdict, file, keys, manifest>>
    BY <1>1, DeviceTyped DEF ReadToWipe, TaskAt, device
  <1>3. PICK m \in {manifest, NoEntries} :
           /\ Read(m)
           /\ TaskGoes(t, [pc |-> "wipe", todo |-> {l \in Lessons : m[l] # "none"}])
    BY DEF ReadToWipe
  <1>4. PICK S \in SUBSET Lessons : S = {l \in Lessons : m[l] # "none"}
    OBVIOUS
  <1> DEFINE v == [pc |-> "wipe", todo |-> S]
  <1>5. v \in TaskRecords /\ v.pc = "wipe" /\ v.todo = S /\ TaskGoes(t, v)
    BY <1>3, <1>4 DEF TaskRecords
  <1> HIDE DEF v
  <1>6. CASE m = manifest /\ GoOn
    <2>1. UNCHANGED mishaps
      BY <1>6 DEF GoOn
    <2>2. KeysFit(r) => KeysFit(v)'
      BY <1>2, <1>5, <2>1 DEF KeysFit, Keyless, Relisting, Unlisting, Dated
    <2>3. FilesFit(r) => FilesFit(v)'
      BY <1>2, <1>4, <1>5, <1>6 DEF FilesFit, Relisting
    <2> QED
      BY <1>1, <1>2, <1>5, <1>6, <2>2, <2>3, FlowStep
  <1>7. CASE Fault
    <2>1. UNCHANGED <<verdict, device>>
      BY <1>2 DEF device
    <2> QED
      BY <1>1, <1>2, <1>5, <1>7, <2>1, FaultLeaves
  <1> QED
    BY <1>3, <1>6, <1>7 DEF Read

\* File by file.
LEMMA WipeFileKeeps ==
    ASSUME CopiesInv, NEW t \in Tasks, WipeFile(t)
    PROVE  CopiesInv'
  <1>1. PICK r \in TaskRecords : r = task[t]
    BY DeviceTyped
  <1>2. /\ r.pc = "wipe" /\ file \subseteq Lessons /\ keys \subseteq Lessons
        /\ manifest \in Manifests /\ GoOn /\ UNCHANGED <<verdict, keys, manifest, mishaps>>
    BY <1>1, DeviceTyped DEF WipeFile, TaskAt, GoOn
  <1>3. r \in [pc : {"wipe"}, todo : SUBSET Lessons]
    BY <1>2, FlowsTyped
  <1>4. PICK l \in r.todo :
           /\ file' = file \ {l}
           /\ TaskGoes(t, [pc |-> "wipeToken", lesson |-> l, todo |-> r.todo \ {l}])
    BY <1>1 DEF WipeFile
  <1> DEFINE v == [pc |-> "wipeToken", lesson |-> l, todo |-> r.todo \ {l}]
  <1>5. /\ v \in TaskRecords /\ v.pc = "wipeToken" /\ v.lesson = l /\ v.todo = r.todo \ {l}
        /\ TaskGoes(t, v)
    BY <1>3, <1>4 DEF TaskRecords
  <1> HIDE DEF v
  <1>6. KeysFit(r) => KeysFit(v)'
    BY <1>2, <1>4, <1>5 DEF KeysFit, Keyless, Relisting, Unlisting, Dated
  <1>7. FilesFit(r) => FilesFit(v)'
    BY <1>2, <1>4, <1>5 DEF FilesFit, Relisting
  <1>8. file' \subseteq Lessons
    BY <1>2, <1>4
  <1> QED
    BY <1>1, <1>2, <1>5, <1>6, <1>7, <1>8, FlowStep

\* And token by token, or not.
LEMMA WipeTokenKeeps ==
    ASSUME CopiesInv, NEW t \in Tasks, WipeToken(t)
    PROVE  CopiesInv'
  <1>1. PICK r \in TaskRecords : r = task[t]
    BY DeviceTyped
  <1> DEFINE v == [pc |-> "wipe", todo |-> r.todo]
  <1>2. /\ r.pc = "wipeToken" /\ file \subseteq Lessons /\ keys \subseteq Lessons
        /\ manifest \in Manifests /\ UNCHANGED <<verdict, file, manifest>>
        /\ TaskGoes(t, v)
        /\ \/ keys' = keys \ {r.lesson} /\ GoOn
           \/ UNCHANGED keys /\ Fault
    BY <1>1, DeviceTyped DEF WipeToken, DropToken, TaskAt
  <1>3. r \in [pc : {"wipeToken"}, lesson : Lessons, todo : SUBSET Lessons]
    BY <1>2, FlowsTyped
  <1>4. v \in TaskRecords /\ v.pc = "wipe" /\ v.todo = r.todo
    BY <1>3 DEF TaskRecords
  <1> HIDE DEF v
  <1>5. CASE keys' = keys \ {r.lesson} /\ GoOn
    <2>1. UNCHANGED mishaps /\ keys' \subseteq Lessons
      BY <1>2, <1>5 DEF GoOn
    <2>2. KeysFit(r) => KeysFit(v)'
      BY <1>2, <1>3, <1>4, <1>5, <2>1 DEF KeysFit, Keyless, Relisting, Unlisting, Dated
    <2>3. FilesFit(r) => FilesFit(v)'
      BY <1>2, <1>3, <1>4 DEF FilesFit, Relisting
    <2> QED
      BY <1>1, <1>2, <1>4, <1>5, <2>1, <2>2, <2>3, FlowStep
  <1>6. CASE UNCHANGED keys /\ Fault
    <2>1. UNCHANGED <<verdict, device>>
      BY <1>2, <1>6 DEF device
    <2> QED
      BY <1>1, <1>2, <1>4, <1>6, <2>1, FaultLeaves
  <1> QED
    BY <1>2, <1>5, <1>6

\* At the end of a wipe nothing is left of the files it read of, so nothing is listed.
LEMMA WipeManifestKeeps ==
    ASSUME CopiesInv, NEW t \in Tasks, WipeManifest(t) PROVE CopiesInv'
  <1>1. PICK r \in TaskRecords : r = task[t]
    BY DeviceTyped
  <1>2. /\ r.pc = "wipe" /\ r.todo = {} /\ file \subseteq Lessons /\ keys \subseteq Lessons
        /\ manifest' = NoEntries /\ GoOn /\ UNCHANGED <<verdict, file, keys, mishaps>>
    BY <1>1, DeviceTyped DEF WipeManifest, TaskAt, GoOn
  <1>3. manifest' \in Manifests /\ \A l \in Lessons : manifest'[l] = "none"
    BY <1>2, EndsTyped
  <1>4. PICK v \in TaskRecords : v.pc = "idle" /\ TaskGoes(t, v)
    BY EndsTyped DEF WipeManifest, End
  <1>5. KeysFit(r) => KeysFit(v)'
    BY <1>2, <1>3, <1>4 DEF KeysFit, Keyless, Relisting, Unlisting, Dated
  <1>6. FilesFit(r) => FilesFit(v)'
    BY <1>2, <1>3, <1>4 DEF FilesFit, Relisting
  <1> QED
    BY <1>1, <1>2, <1>3, <1>4, <1>5, <1>6, FlowStep

-----------------------------------------------------------------------------
\* A flow of the player goes on: it changes nothing on the device, and knows no more of
\* tokens than the entry it read.
LEMMA PlayerStep ==
    ASSUME CopiesInv, NEW t \in Tasks, NEW r, r = task[t],
           r.pc \in {"entry", "check", "refresh", "relist", "play"},
           NEW v \in TaskRecords, TaskGoes(t, v), GoOn,
           UNCHANGED <<verdict, device>>,
           \/ v.pc \in {"idle", "deleteFile", "refresh", "restore"}
           \/ v.pc = "play" /\ (v.by = "device" => v.entry \in {"fresh", "legacy"})
           \/ /\ r.pc = "entry" /\ v.pc = "check"
              /\ v.lesson \in Lessons /\ v.lesson = r.lesson /\ v.entry = manifest[r.lesson]
    PROVE  CopiesInv'
  <1>1. /\ file \subseteq Lessons /\ keys \subseteq Lessons /\ manifest \in Manifests
        /\ UNCHANGED <<file, keys, manifest, mishaps>>
    BY DeviceTyped DEF GoOn, device
  <1>2. KeysFit(r) => KeysFit(v)'
    BY <1>1 DEF KeysFit, Keyless, Relisting, Unlisting, Dated
  <1>3. FilesFit(r) => FilesFit(v)'
    BY <1>1 DEF FilesFit, Relisting
  <1> QED
    BY <1>1, <1>2, <1>3, FlowStep

\* The player reads the entry.
LEMMA ReadEntryKeeps ==
    ASSUME CopiesInv, NEW t \in Tasks, ReadEntry(t)
    PROVE  CopiesInv'
  <1>1. PICK r \in TaskRecords : r = task[t]
    BY DeviceTyped
  <1>2. r.pc = "entry" /\ UNCHANGED <<verdict, device>>
    BY <1>1 DEF ReadEntry, TaskAt
  <1>3. r.lesson \in Lessons
    BY <1>2, FlowsTyped
  <1> DEFINE v(m) == IF m[r.lesson] = "none" THEN IdleTask
                     ELSE IF m[r.lesson] = "over" THEN Removal(r.lesson)
                     ELSE [pc |-> "check", lesson |-> r.lesson, entry |-> m[r.lesson]]
  <1>4. PICK m \in {manifest, NoEntries} : Read(m) /\ TaskGoes(t, v(m))
    BY <1>1 DEF ReadEntry
  <1>5. CASE m = manifest /\ GoOn
    <2>1. manifest[r.lesson] \in Entries
      BY <1>3, DeviceTyped DEF Manifests
    <2>2. PICK w : w = v(manifest)
      OBVIOUS
    <2>3. /\ w \in TaskRecords
          /\ \/ w.pc \in {"idle", "deleteFile"}
             \/ w.pc = "check" /\ w.lesson = r.lesson /\ w.entry = manifest[r.lesson]
      BY <1>3, <2>1, <2>2, EndsTyped DEF TaskRecords
    <2>4. TaskGoes(t, w)
      BY <1>4, <1>5, <2>2
    <2> HIDE DEF v
    <2> QED
      BY <1>1, <1>2, <1>3, <1>5, <2>3, <2>4, PlayerStep
  <1>6. CASE m = NoEntries /\ Fault
    <2>1. TaskGoes(t, IdleTask)
      BY <1>3, <1>4, <1>6, EndsTyped
    <2> HIDE DEF v
    <2> QED
      BY <1>1, <1>2, <1>6, <2>1, EndsTyped, FaultLeaves
  <1> HIDE DEF v
  <1> QED
    BY <1>4, <1>5, <1>6 DEF Read

\* It looks for the token: a copy that should have one and has none is not played as
\* valid before its deadline, unless the keychain failed.
LEMMA CheckKeeps ==
    ASSUME CopiesInv, NEW t \in Tasks, Check(t)
    PROVE  CopiesInv'
  <1>1. PICK r \in TaskRecords : r = task[t]
    BY DeviceTyped
  <1>2. r.pc = "check" /\ UNCHANGED <<verdict, device>>
    BY <1>1 DEF Check, TaskAt
  <1>3. r \in [pc : {"check", "refresh"}, lesson : Lessons, entry : Entries \ {"none"}]
    BY <1>2, FlowsTyped
  <1>4. /\ file \subseteq Lessons /\ keys \subseteq Lessons /\ manifest \in Manifests
        /\ UNCHANGED <<file, keys, manifest>>
    BY <1>2, DeviceTyped DEF device
  <1>5. CASE Valid(t) /\ TaskGoes(t, Plays(r.lesson, r.entry, "device")) /\ GoOn
    <2> DEFINE v == Plays(r.lesson, r.entry, "device")
    <2>1. /\ v \in TaskRecords /\ v.pc = "play" /\ v.by = "device" /\ v.entry = r.entry
          /\ TaskGoes(t, v)
      BY <1>3, <1>5, EndsTyped
    <2>2. r.lesson \notin keys \/ r.entry = "fresh"
      BY <1>1, <1>5 DEF Valid
    <2>3. UNCHANGED mishaps
      BY <1>5 DEF GoOn
    <2> HIDE DEF v
    <2>4. KeysFit(r) => KeysFit(v)'
      BY <1>2, <1>3, <1>4, <2>1, <2>2, <2>3
      DEF KeysFit, Keyless, Relisting, Unlisting, Dated, Entries
    <2>5. FilesFit(r) => FilesFit(v)'
      BY <1>2, <1>4, <2>1 DEF FilesFit, Relisting
    <2> QED
      BY <1>1, <1>2, <1>4, <1>5, <2>1, <2>4, <2>5, FlowStep
  <1>6. CASE TaskGoes(t, [r EXCEPT !.pc = "refresh"]) /\ GoOn
    <2> DEFINE v == [r EXCEPT !.pc = "refresh"]
    <2>1. v \in TaskRecords /\ v.pc = "refresh" /\ TaskGoes(t, v)
      BY <1>3, <1>6 DEF TaskRecords
    <2> HIDE DEF v
    <2> QED
      BY <1>1, <1>2, <1>6, <2>1, PlayerStep
  <1>7. CASE TaskGoes(t, Plays(r.lesson, r.entry, "unread")) /\ Fault
    <2> DEFINE v == Plays(r.lesson, r.entry, "unread")
    <2>1. v \in TaskRecords /\ v.pc = "play" /\ v.by = "unread" /\ TaskGoes(t, v)
      BY <1>3, <1>7, EndsTyped
    <2> HIDE DEF v
    <2> QED
      BY <1>1, <1>2, <1>7, <2>1, FaultLeaves
  <1> QED
    BY <1>1, <1>5, <1>6, <1>7 DEF Check

\* It reconnects, and shows what it was given.
LEMMA RefreshKeeps ==
    ASSUME CopiesInv, NEW t \in Tasks, Refresh(t) \/ PlayBack(t)
    PROVE  CopiesInv'
  <1>1. PICK r \in TaskRecords : r = task[t]
    BY DeviceTyped
  <1>2. r.pc \in {"refresh", "play"} /\ GoOn /\ UNCHANGED <<verdict, device>>
    BY <1>1 DEF Refresh, PlayBack, TaskAt
  <1>3. CASE PlayBack(t)
    <2>1. TaskGoes(t, IdleTask)
      BY <1>3 DEF PlayBack, End
    <2> QED
      BY <1>1, <1>2, <2>1, EndsTyped, PlayerStep
  <1>4. CASE Refresh(t)
    <2>1. r \in [pc : {"check", "refresh"}, lesson : Lessons, entry : Entries \ {"none"}]
      BY <1>1, <1>4, FlowsTyped DEF Refresh, TaskAt
    <2>2. Terms \subseteq Entries \ {"none"}
      BY EndsTyped DEF CopiesInv, CopiesTypeOK
    <2>3. ASSUME NEW ticket \in Terms, TaskGoes(t, Saving("restore", r.lesson, ticket))
          PROVE  CopiesInv'
      <3> DEFINE v == Saving("restore", r.lesson, ticket)
      <3>1. v \in TaskRecords /\ v.pc = "restore" /\ TaskGoes(t, v)
        BY <2>1, <2>2, <2>3 DEF Saving, Savings, TaskRecords
      <3> HIDE DEF v
      <3> QED
        BY <1>1, <1>2, <3>1, PlayerStep
    <2>4. ASSUME TaskGoes(t, Removal(r.lesson)) PROVE CopiesInv'
      BY <1>1, <1>2, <2>1, <2>4, EndsTyped, PlayerStep
    <2>5. ASSUME TaskGoes(t, Plays(r.lesson, r.entry, "late")) PROVE CopiesInv'
      <3> DEFINE v == Plays(r.lesson, r.entry, "late")
      <3>1. v \in TaskRecords /\ v.pc = "play" /\ v.by = "late" /\ TaskGoes(t, v)
        BY <2>1, <2>5, EndsTyped
      <3> HIDE DEF v
      <3> QED
        BY <1>1, <1>2, <3>1, PlayerStep
    <2> QED
      BY <1>1, <1>4, <2>3, <2>4, <2>5 DEF Refresh
  <1> QED
    BY <1>3, <1>4

\* The entry of a refresh is changed if it is still read.
LEMMA ReadToRelistKeeps ==
    ASSUME CopiesInv, NEW t \in Tasks, ReadToRelist(t) PROVE CopiesInv'
  <1>1. PICK r \in TaskRecords : r = task[t]
    BY DeviceTyped
  <1>2. /\ r.pc = "relist" /\ file \subseteq Lessons /\ keys \subseteq Lessons
        /\ manifest \in Manifests
        /\ UNCHANGED <<verdict, device>> /\ UNCHANGED <<file, keys, manifest>>
    BY <1>1, DeviceTyped DEF ReadToRelist, TaskAt, device
  <1>3. r \in [pc : Savings, lesson : Lessons, ticket : Entries \ {"none"}]
    BY <1>2, FlowsTyped DEF Savings
  <1> DEFINE u == Plays(r.lesson, r.ticket, "server")
             v(m) == [pc |-> "rewrite", lesson |-> r.lesson,
                      copy |-> [m EXCEPT ![r.lesson] = r.ticket]]
  <1>4. PICK m \in {manifest, NoEntries} :
           /\ Read(m)
           /\ TaskGoes(t, IF m[r.lesson] = "none" THEN u ELSE v(m))
    BY <1>1 DEF ReadToRelist
  <1>5. u \in TaskRecords /\ u.pc = "play" /\ u.by = "server"
    BY <1>3, EndsTyped
  <1>6. CASE m[r.lesson] = "none"
    <2>1. TaskGoes(t, u)
      BY <1>4, <1>6
    <2> HIDE DEF u, v
    <2>2. GoOn \/ Fault
      BY <1>4 DEF Read
    <2>3. ASSUME GoOn PROVE CopiesInv'
      BY <1>1, <1>2, <1>5, <2>1, <2>3, PlayerStep
    <2>4. ASSUME Fault PROVE CopiesInv'
      BY <1>1, <1>2, <1>5, <2>1, <2>4, FaultLeaves
    <2> QED
      BY <2>2, <2>3, <2>4
  <1>7. CASE m[r.lesson] # "none"
    <2>1. m = manifest /\ GoOn /\ UNCHANGED mishaps
      BY <1>3, <1>4, <1>7, EndsTyped DEF Read, GoOn
    <2>2. PICK c \in Manifests : c = [manifest EXCEPT ![r.lesson] = r.ticket]
      BY <1>2, <1>3 DEF Manifests
    <2>3. PICK w : w = v(m)
      OBVIOUS
    <2>4. /\ w \in TaskRecords /\ w.pc = "rewrite" /\ w.lesson = r.lesson /\ w.copy = c
          /\ TaskGoes(t, w)
      BY <1>3, <1>4, <1>7, <2>1, <2>2, <2>3 DEF TaskRecords
    <2>5. \A l \in Lessons : c[l] = IF l = r.lesson THEN r.ticket ELSE manifest[l]
      BY <1>2, <2>2 DEF Manifests
    <2> HIDE DEF u, v
    <2>6. KeysFit(r) => KeysFit(w)'
      BY <1>2, <1>3, <2>1, <2>4, <2>5 DEF KeysFit, Keyless, Relisting, Unlisting, Dated
    <2>7. FilesFit(r) => FilesFit(w)'
      BY <1>2, <1>3, <2>4, <2>5 DEF FilesFit, Relisting
    <2> QED
      BY <1>1, <1>2, <2>1, <2>4, <2>6, <2>7, FlowStep
  <1> HIDE DEF u, v
  <1> QED
    BY <1>6, <1>7

\* It is written, or the copy is handed out as lapsed.
LEMMA RewriteKeeps ==
    ASSUME CopiesInv, NEW t \in Tasks, Rewrite(t) PROVE CopiesInv'
  <1>1. PICK r \in TaskRecords : r = task[t]
    BY DeviceTyped
  <1>2. /\ r.pc = "rewrite" /\ file \subseteq Lessons /\ keys \subseteq Lessons
        /\ manifest \in Manifests /\ UNCHANGED <<verdict, file, keys>>
    BY <1>1, DeviceTyped DEF Rewrite, TaskAt
  <1>3. r \in [pc : {"rewrite"}, lesson : Lessons, copy : Manifests]
    BY <1>2, FlowsTyped
  <1>4. r.lesson \in Lessons /\ r.copy \in Manifests /\ r.copy[r.lesson] \in Entries
    BY <1>3 DEF Manifests
  <1>5. CASE manifest' = r.copy /\ TaskGoes(t, Plays(r.lesson, r.copy[r.lesson], "server")) /\ GoOn
    <2>1. PICK v \in TaskRecords : v.pc = "play" /\ v.by = "server" /\ TaskGoes(t, v)
      BY <1>4, <1>5, EndsTyped
    <2>2. UNCHANGED mishaps
      BY <1>5 DEF GoOn
    <2>3. KeysFit(r) => KeysFit(v)'
      BY <1>2, <1>4, <1>5, <2>1, <2>2 DEF KeysFit, Keyless, Relisting, Unlisting, Dated
    <2>4. FilesFit(r) => FilesFit(v)'
      BY <1>2, <1>4, <1>5, <2>1 DEF FilesFit, Relisting
    <2> QED
      BY <1>1, <1>2, <1>4, <1>5, <2>1, <2>3, <2>4, FlowStep
  <1>6. CASE UNCHANGED manifest /\ TaskGoes(t, Plays(r.lesson, r.copy[r.lesson], "late")) /\ Fault
    <2>1. PICK v \in TaskRecords : v.pc = "play" /\ v.by = "late" /\ TaskGoes(t, v)
      BY <1>4, <1>6, EndsTyped
    <2>2. UNCHANGED <<verdict, device>>
      BY <1>2, <1>6 DEF device
    <2> QED
      BY <1>1, <1>2, <1>6, <2>1, <2>2, FaultLeaves
  <1> QED
    BY <1>1, <1>5, <1>6 DEF Rewrite

-----------------------------------------------------------------------------
\* A flow starts: alone, or flows have met from now on.
LEMMA StartStep ==
    ASSUME CopiesInv, NEW t \in Tasks, NEW v \in TaskRecords, StartTask(t, v),
           UNCHANGED <<verdict, device>>,
           \/ v.pc \in {"fetch", "deleteFile", "readToWipe"}
           \/ v.pc = "entry" /\ v.lesson \in file
    PROVE  CopiesInv'
  <1>1. /\ task \in [Tasks -> TaskRecords] /\ task' = [task EXCEPT ![t] = v]
        /\ flowsMet \in BOOLEAN /\ flowsMet' = (flowsMet \/ ~Quiet)
        /\ UNCHANGED <<verdict, file, keys, manifest, mishaps>>
    BY DEF CopiesInv, CopiesTypeOK, StartTask, TaskGoes, verdict, device
  <1>2. CopiesTypeOK'
    BY <1>1 DEF CopiesInv, CopiesTypeOK, Manifests, verdict
  <1>3. IdleTask.pc = "idle"
    BY DEF IdleTask
  <1>4. ASSUME ~flowsMet' PROVE ~flowsMet /\ OneFlow' /\ Current' = v /\ Current = IdleTask
    <2>1. ~flowsMet /\ Quiet
      BY <1>1, <1>4
    <2>2. \A s \in Tasks : s # t => task[s] = IdleTask
      BY <2>1 DEF Quiet
    <2> QED
      BY <1>1, <2>1, <2>2, NextFlow, CurrentFlow
  <1>5. KeysFit(IdleTask) => KeysFit(v)'
    BY <1>1, <1>3 DEF KeysFit, Keyless, Relisting, Unlisting, Dated
  <1>6. FilesFit(IdleTask) => FilesFit(v)'
    BY <1>1, <1>3 DEF FilesFit, Relisting
  <1> QED
    BY <1>1, <1>2, <1>4, <1>5, <1>6 DEF CopiesInv

\* Every start is one of these: a download, a removal, a wipe, or playing what is there.
LEMMA StartKeeps ==
    ASSUME CopiesInv, NEW t \in Tasks,
           \/ Load(t)
           \/ \E l \in Lessons : Download(t, l) \/ Remove(t, l) \/ Play(t, l)
    PROVE  CopiesInv'
  <1>1. CASE Load(t)
    <2> DEFINE v == [pc |-> "readToWipe"]
    <2>1. v \in TaskRecords /\ v.pc = "readToWipe"
      BY DEF TaskRecords
    <2>2. StartTask(t, v) /\ UNCHANGED <<verdict, device>>
      BY <1>1 DEF Load
    <2> HIDE DEF v
    <2> QED
      BY <2>1, <2>2, StartStep
  <1>2. ASSUME NEW l \in Lessons, Download(t, l) PROVE CopiesInv'
    <2>1. PICK ticket \in Terms \cup {"legacy"} : StartTask(t, Saving("fetch", l, ticket))
      BY <1>2 DEF Download
    <2> DEFINE v == Saving("fetch", l, ticket)
    <2>2. v \in TaskRecords /\ v.pc = "fetch"
      <3>1. ticket \in Entries \ {"none"}
        BY <2>1, EndsTyped DEF CopiesInv, CopiesTypeOK, Entries
      <3> QED
        BY <3>1 DEF TaskRecords, Saving, Savings
    <2>3. StartTask(t, v) /\ UNCHANGED <<verdict, device>>
      BY <1>2, <2>1 DEF Download
    <2> HIDE DEF v
    <2> QED
      BY <2>2, <2>3, StartStep
  <1>3. ASSUME NEW l \in Lessons, Remove(t, l) PROVE CopiesInv'
    <2> DEFINE v == Removal(l)
    <2>1. v \in TaskRecords /\ v.pc = "deleteFile"
      BY DEF TaskRecords, Removal
    <2>2. StartTask(t, v) /\ UNCHANGED <<verdict, device>>
      BY <1>3 DEF Remove
    <2> HIDE DEF v
    <2> QED
      BY <2>1, <2>2, StartStep
  <1>4. ASSUME NEW l \in Lessons, Play(t, l) PROVE CopiesInv'
    <2> DEFINE v == [pc |-> "entry", lesson |-> l]
    <2>1. v \in TaskRecords /\ v.pc = "entry" /\ v.lesson = l
      BY DEF TaskRecords
    <2>2. /\ StartTask(t, v) /\ l \in file
          /\ UNCHANGED <<verdict, device>>
      BY <1>4 DEF Play
    <2> HIDE DEF v
    <2> QED
      BY <2>1, <2>2, StartStep
  <1> QED
    BY <1>1, <1>2, <1>3, <1>4

-----------------------------------------------------------------------------
\* Time changes what an entry says of its deadline, never whether there is an entry, nor
\* whether it has a deadline.
LEMMA AgedKind ==
    ASSUME NEW S, NEW old \in SUBSET {"fresh", "lapsed"}, NEW new \in {"lapsed", "over"},
           NEW e \in Entries, NEW l
    PROVE  /\ Aged(e, l, S, old, new) \in Entries
           /\ Aged(e, l, S, old, new) \in Dated <=> e \in Dated
           /\ Aged(e, l, S, old, new) = "none" <=> e = "none"
  BY DEF Aged, Entries, Dated

\* Flows at the same point, with the same lesson and the same kind of entries in hand.
SameKind(r, v) ==
    /\ v \in TaskRecords /\ v.pc = r.pc
    /\ r.pc \in {"write", "rewrite"} => \A l \in Lessons :
          /\ v.copy[l] \in Dated <=> r.copy[l] \in Dated
          /\ v.copy[l] = "none" <=> r.copy[l] = "none"
    /\ r.pc \in Savings => v.lesson = r.lesson /\ (v.ticket \in Dated <=> r.ticket \in Dated)
    /\ r.pc \in {"check", "refresh"} =>
          v.lesson = r.lesson /\ (v.entry \in Dated <=> r.entry \in Dated)
    /\ r.pc \notin {"write", "rewrite", "check", "refresh"} \cup Savings => v = r

\* Time leaves a flow where it is, with what it has in hand of the same kind.
LEMMA AgedFlow ==
    ASSUME NEW S, NEW old \in SUBSET {"fresh", "lapsed"}, NEW new \in {"lapsed", "over"},
           NEW r \in TaskRecords, NEW v, v = AgeInHand(r, S, old, new)
    PROVE  SameKind(r, v)
  <1>1. CASE r.pc \in {"write", "rewrite"}
    <2>1. r.copy \in Manifests
      BY <1>1, FlowsTyped
    <2>2. PICK c : c = Age(r.copy, S, old, new)
      OBVIOUS
    <2>3. \A l \in Lessons : c[l] = Aged(r.copy[l], l, S, old, new)
      BY <2>2 DEF Age
    <2>4. \A l \in Lessons :
            /\ c[l] \in Entries
            /\ c[l] \in Dated <=> r.copy[l] \in Dated
            /\ c[l] = "none" <=> r.copy[l] = "none"
      BY <2>1, <2>3, AgedKind DEF Manifests
    <2>5. c \in Manifests
      BY <2>2, <2>4 DEF Age, Manifests
    <2>6. v = [r EXCEPT !.copy = c]
      BY <1>1, <2>2 DEF AgeInHand
    <2>7. CASE r.pc = "write"
      <3>1. v.pc = "write" /\ v.copy = c /\ v \in [pc : {"write"}, copy : Manifests]
        BY <2>5, <2>6, <2>7, FlowsTyped
      <3> QED
        BY <2>4, <2>7, <3>1 DEF SameKind, TaskRecords, Savings
    <2>8. CASE r.pc = "rewrite"
      <3>1. /\ v.pc = "rewrite" /\ v.copy = c
            /\ v \in [pc : {"rewrite"}, lesson : Lessons, copy : Manifests]
        BY <2>5, <2>6, <2>8, FlowsTyped
      <3> QED
        BY <2>4, <2>8, <3>1 DEF SameKind, TaskRecords, Savings
    <2> QED
      BY <1>1, <2>7, <2>8
  <1>2. CASE r.pc \in Savings
    <2>1. r \in [pc : Savings, lesson : Lessons, ticket : Entries \ {"none"}]
      BY <1>2, FlowsTyped
    <2>2. PICK e : e = Aged(r.ticket, r.lesson, S, old, new)
      OBVIOUS
    <2>3. e \in Entries \ {"none"} /\ (e \in Dated <=> r.ticket \in Dated)
      BY <2>1, <2>2, AgedKind
    <2>4. v = [r EXCEPT !.ticket = e]
      BY <1>2, <2>2 DEF AgeInHand, Savings
    <2>5. /\ v.pc = r.pc /\ v.lesson = r.lesson /\ v.ticket = e
          /\ v \in [pc : Savings, lesson : Lessons, ticket : Entries \ {"none"}]
      BY <2>1, <2>3, <2>4
    <2> QED
      BY <1>2, <2>3, <2>5 DEF SameKind, TaskRecords, Savings
  <1>3. CASE r.pc \in {"check", "refresh"}
    <2>1. r \in [pc : {"check", "refresh"}, lesson : Lessons, entry : Entries \ {"none"}]
      BY <1>3, FlowsTyped
    <2>2. PICK e : e = Aged(r.entry, r.lesson, S, old, new)
      OBVIOUS
    <2>3. e \in Entries \ {"none"} /\ (e \in Dated <=> r.entry \in Dated)
      BY <2>1, <2>2, AgedKind
    <2>4. v = [r EXCEPT !.entry = e]
      BY <1>3, <2>2 DEF AgeInHand, Savings
    <2>5. /\ v.pc = r.pc /\ v.lesson = r.lesson /\ v.entry = e
          /\ v \in [pc : {"check", "refresh"}, lesson : Lessons, entry : Entries \ {"none"}]
      BY <2>1, <2>3, <2>4
    <2> QED
      BY <1>3, <2>3, <2>5 DEF SameKind, TaskRecords, Savings
  <1>4. CASE r.pc \notin {"write", "rewrite", "check", "refresh"} \cup Savings
    BY <1>4 DEF SameKind, AgeInHand
  <1> QED
    BY <1>1, <1>2, <1>3, <1>4

\* Time passes for everything dated at once, so nothing the invariant compares changes.
LEMMA AgeKeeps ==
    ASSUME CopiesInv, NEW S, NEW old \in SUBSET {"fresh", "lapsed"},
           NEW new \in {"lapsed", "over"}, AgeAll(S, old, new),
           access' \in {"active", "revoked", "expired"},
           UNCHANGED <<grants, previews, file, keys, flowsMet, mishaps>>
    PROVE  CopiesInv'
  <1> DEFINE aged(r) == AgeInHand(r, S, old, new)
  <1>1. /\ task \in [Tasks -> TaskRecords] /\ task' = [t \in Tasks |-> aged(task[t])]
        /\ file \subseteq Lessons /\ keys \subseteq Lessons /\ manifest \in Manifests
        /\ manifest' = Age(manifest, S, old, new)
    BY DEF CopiesInv, CopiesTypeOK, AgeAll
  <1>2. \A l \in Lessons : manifest'[l] = Aged(manifest[l], l, S, old, new)
    BY <1>1 DEF Age
  <1>3. \A l \in Lessons :
          /\ manifest'[l] \in Entries
          /\ manifest'[l] \in Dated <=> manifest[l] \in Dated
          /\ manifest'[l] = "none" <=> manifest[l] = "none"
    BY <1>1, <1>2, AgedKind DEF Manifests
  <1>4. manifest' \in Manifests
    BY <1>1, <1>3 DEF Age, Manifests
  <1>5. ASSUME NEW t \in Tasks PROVE task'[t] \in TaskRecords /\ task'[t].pc = task[t].pc
    <2>1. PICK r \in TaskRecords : r = task[t]
      BY <1>1
    <2>2. PICK v : v = task'[t]
      OBVIOUS
    <2>3. v = AgeInHand(r, S, old, new)
      BY <1>1, <2>1, <2>2
    <2>4. SameKind(r, v)
      BY <2>3, AgedFlow
    <2> QED
      BY <2>1, <2>2, <2>4 DEF SameKind
  <1>6. CopiesTypeOK'
    BY <1>1, <1>4, <1>5 DEF CopiesInv, CopiesTypeOK, Manifests, Entries
  <1>7. IdleTask' = IdleTask /\ IdleTask \in TaskRecords /\ aged(IdleTask) = IdleTask
    <2>1. IdleTask \in TaskRecords /\ IdleTask.pc = "idle" /\ "idle" \notin Savings
      BY DEF IdleTask, TaskRecords, Savings
    <2>2. PICK v : v = AgeInHand(IdleTask, S, old, new)
      OBVIOUS
    <2>3. SameKind(IdleTask, v)
      BY <2>1, <2>2, AgedFlow
    <2>4. v = IdleTask
      BY <2>1, <2>3 DEF SameKind
    <2> QED
      BY <2>1, <2>2, <2>4 DEF IdleTask
  <1>8. \A t \in Tasks : task'[t] = IdleTask <=> task[t] = IdleTask
    BY <1>1, <1>5, FlowsTyped
  <1>9. ASSUME OneFlow PROVE OneFlow' /\ Current' = aged(Current) /\ Current \in TaskRecords
    <2>1. OneFlow'
      BY <1>7, <1>8, <1>9 DEF OneFlow
    <2>2. CASE Quiet
      <3>1. Quiet'
        BY <1>7, <1>8, <2>2 DEF Quiet
      <3> QED
        BY <1>7, <2>1, <2>2, <3>1 DEF Current
    <2>3. CASE ~Quiet
      <3>1. PICK t \in Tasks : task[t] # IdleTask
        BY <2>3 DEF Quiet
      <3>2. \A s \in Tasks : task[s] # IdleTask <=> s = t
        BY <1>9, <3>1 DEF OneFlow
      <3>3. \A s \in Tasks : task'[s] # IdleTask <=> s = t
        BY <1>8, <3>2
      <3>4. (CHOOSE s \in Tasks : task'[s] # IdleTask) = t
        BY <3>3
      <3>5. Current = task[t]
        BY <1>9, <3>1, CurrentFlow
      <3>6. ~Quiet'
        BY <1>7, <3>3 DEF Quiet
      <3>7. Current' = task'[CHOOSE s \in Tasks : task'[s] # IdleTask]
        BY <1>7, <3>6 DEF Current
      <3> QED
        BY <1>1, <2>1, <3>4, <3>5, <3>7
    <2> QED
      BY <2>2, <2>3
  <1>10. ASSUME NEW r \in TaskRecords, NEW v, v = aged(r)
         PROVE  (KeysFit(r) => KeysFit(v)') /\ (FilesFit(r) => FilesFit(v)')
    <2>1. /\ v.pc = r.pc
          /\ r.pc \in {"write", "rewrite"} => \A l \in Lessons :
                /\ v.copy[l] \in Dated <=> r.copy[l] \in Dated
                /\ v.copy[l] = "none" <=> r.copy[l] = "none"
          /\ r.pc \in {"fetch", "store", "list", "restore", "relist"} =>
                v.lesson = r.lesson /\ (v.ticket \in Dated <=> r.ticket \in Dated)
          /\ r.pc \in {"check", "refresh"} =>
                v.lesson = r.lesson /\ (v.entry \in Dated <=> r.entry \in Dated)
          /\ r.pc \notin {"write", "rewrite", "check", "refresh",
                          "fetch", "store", "list", "restore", "relist"} => v = r
      <3>1. v = AgeInHand(r, S, old, new)
        BY <1>10
      <3>2. SameKind(r, v)
        BY <3>1, AgedFlow
      <3> QED
        BY <3>2 DEF SameKind, Savings
    <2>2. Dated' = Dated
      BY DEF Dated
    <2> HIDE DEF aged
    <2>3. \A l \in Lessons : Keyless(l)' <=> Keyless(l)
      BY <1>3, <2>2 DEF Keyless
    <2>4. \A l : (Relisting(v, l) <=> Relisting(r, l)) /\ (Unlisting(v, l) <=> Unlisting(r, l))
      BY <2>1 DEF Relisting, Unlisting
    <2>5. KeysFit(r) => KeysFit(v)'
      BY <1>1, <2>1, <2>2, <2>3, <2>4 DEF KeysFit
    <2>6. FilesFit(r) => FilesFit(v)'
      BY <1>1, <1>3, <2>1, <2>4 DEF FilesFit
    <2> QED
      BY <2>5, <2>6
  <1> HIDE DEF aged
  <1> QED
    BY <1>6, <1>9, <1>10 DEF CopiesInv

\* The app is killed with no other flow about: if nothing has gone wrong before, what is
\* left on the device of a copy that was listed has its token.
LEMMA CrashKeeps ==
    ASSUME CopiesInv, Crash PROVE CopiesInv'
  <1>1. /\ task' = [t \in Tasks |-> IdleTask] /\ mishaps' = mishaps + 1
        /\ mishaps \in 0..MaxMishaps /\ mishaps' \in 0..MaxMishaps
        /\ UNCHANGED <<verdict, file, keys, manifest, flowsMet>>
    BY OfflineCourseAssumption DEF Crash, Fault, device, CopiesInv, CopiesTypeOK
  <1>2. IdleTask \in TaskRecords /\ IdleTask' = IdleTask /\ IdleTask.pc = "idle"
    BY DEF TaskRecords, IdleTask
  <1>3. CopiesTypeOK'
    BY <1>1, <1>2 DEF CopiesInv, CopiesTypeOK, Manifests, verdict
  <1>4. Quiet' /\ OneFlow'
    BY <1>1, <1>2 DEF Quiet, OneFlow
  <1>5. Current' = IdleTask
    BY <1>2, <1>4 DEF Current
  <1>6. ASSUME ~flowsMet', mishaps' <= 1 PROVE mishaps = 0 /\ KeysFit(Current)
    BY <1>1, <1>6 DEF CopiesInv
  <1>7. ASSUME mishaps = 0, KeysFit(Current) PROVE KeysFit(IdleTask)'
    BY <1>1, <1>2, <1>7 DEF KeysFit, Keyless, Dated
  <1>8. mishaps' # 0
    BY <1>1
  <1> QED
    BY <1>2, <1>3, <1>4, <1>5, <1>6, <1>7, <1>8 DEF CopiesInv

\* The server's verdict changes nothing the invariant speaks of.
LEMMA ServerKeeps ==
    ASSUME CopiesInv, access' \in {"active", "revoked", "expired"}, grants' \in 0..MaxGrants,
           previews' \subseteq Lessons,
           UNCHANGED <<file, keys, manifest, task, flowsMet, mishaps>>
    PROVE  CopiesInv'
  BY DEF CopiesInv, CopiesTypeOK, OneFlow, Current, Quiet, IdleTask, KeysFit, FilesFit,
         Keyless, Relisting, Unlisting, Dated, Manifests, TaskRecords, Entries,
         Savings

-----------------------------------------------------------------------------
\* The device is empty at first.
LEMMA CopiesInitInv ==
    ASSUME CopiesInit PROVE CopiesInv
  <1>1. IdleTask \in TaskRecords /\ IdleTask.pc = "idle"
    BY DEF TaskRecords, IdleTask
  <1>2. CopiesTypeOK
    <2>1. 0 \in 0..MaxMishaps /\ 0 \in 0..MaxGrants
      BY OfflineCourseAssumption
    <2>2. task \in [Tasks -> TaskRecords]
      BY <1>1 DEF CopiesInit
    <2>3. manifest \in Manifests
      BY EndsTyped DEF CopiesInit
    <2> QED
      BY <2>1, <2>2, <2>3 DEF CopiesInit, CopiesTypeOK
  <1>3. Quiet /\ OneFlow
    BY DEF CopiesInit, Quiet, OneFlow
  <1>4. Current = IdleTask
    BY <1>3 DEF Current
  <1>5. KeysFit(IdleTask) /\ FilesFit(IdleTask)
    BY <1>1, EndsTyped DEF CopiesInit, KeysFit, FilesFit, Keyless, Dated
  <1> QED
    BY <1>2, <1>3, <1>4, <1>5 DEF CopiesInv

\* Every step of the app, of time and of the server.
LEMMA CopiesStep ==
    ASSUME CopiesInv, [CopiesNext]_copiesVars
    PROVE  CopiesInv'
  <1>1. ASSUME NEW t \in Tasks, Advance(t) PROVE CopiesInv'
    BY <1>1, FetchKeeps, StoreTokenKeeps, ReadToListKeeps, WriteManifestKeeps, GiveUpKeeps,
       DeleteFileKeeps, DeleteTokenKeeps, ReadToUnlistKeeps,
       ReadToWipeKeeps, WipeFileKeeps, WipeTokenKeeps, WipeManifestKeeps,
       ReadEntryKeeps, CheckKeeps, RefreshKeeps, ReadToRelistKeeps, RewriteKeeps DEF Advance
  <1>2. ASSUME NEW l \in Lessons, Lapse(l) PROVE CopiesInv'
    <2>1. /\ AgeAll({l}, {"fresh"}, "lapsed")
          /\ access' \in {"active", "revoked", "expired"}
          /\ UNCHANGED <<grants, previews, file, keys, flowsMet, mishaps>>
      BY <1>2 DEF Lapse, verdict, CopiesInv, CopiesTypeOK
    <2> QED
      BY <2>1, AgeKeeps
  <1>3. ASSUME NEW S \in SUBSET Lessons, Expire(S) PROVE CopiesInv'
    <2>1. /\ AgeAll(S, {"fresh", "lapsed"}, "over")
          /\ access' \in {"active", "revoked", "expired"}
          /\ UNCHANGED <<grants, previews, file, keys, flowsMet, mishaps>>
      BY <1>3 DEF Expire, CopiesInv, CopiesTypeOK
    <2> QED
      BY <2>1, AgeKeeps
  <1>4. ASSUME \/ \E l \in Lessons : TogglePreview(l)
               \/ Revoke \/ Restore \/ UNCHANGED copiesVars
        PROVE  CopiesInv'
    <2>1. /\ access' \in {"active", "revoked", "expired"} /\ grants' \in 0..MaxGrants
          /\ previews' \subseteq Lessons
          /\ UNCHANGED <<file, keys, manifest, task, flowsMet, mishaps>>
      BY <1>4, OfflineCourseAssumption
      DEF TogglePreview, Revoke, Restore, copiesVars, verdict, device, CopiesInv, CopiesTypeOK
    <2> QED
      BY <2>1, ServerKeeps
  <1> QED
    BY <1>1, <1>2, <1>3, <1>4, StartKeeps, CrashKeeps DEF CopiesNext

\* The invariant that says, of a flow that is alone, what it must still do at each await.
THEOREM CopiesInvariant ==
    CopiesSpec => []CopiesInv
  <1>1. CopiesInit => CopiesInv
    BY CopiesInitInv
  <1>2. CopiesInv /\ [CopiesNext]_copiesVars => CopiesInv'
    BY CopiesStep
  <1> QED
    BY <1>1, <1>2, PTL DEF CopiesSpec

\* Whatever flows overlap and whatever goes wrong, the flows, the manifest and what is on
\* the device stay what the code takes them for.
THEOREM CopiesTypeCorrect ==
    CopiesSpec => []CopiesTypeOK
  <1>1. CopiesInv => CopiesTypeOK
    BY DEF CopiesInv
  <1> QED
    BY <1>1, CopiesInvariant, PTL

\* For any number of lessons: with no two flows at once, and through one mishap, a listed
\* copy that was saved with a token still has it (removeLesson deletes the file first and
\* stops if it cannot, a download stores the token before the entry).
THEOREM TokensStayWithCopies ==
    CopiesSpec => []KeysGoWithCopy
  <1>1. ASSUME CopiesInv PROVE KeysGoWithCopy
    <2>1. Quiet => Current = IdleTask
      BY DEF Current
    <2>2. IdleTask.pc = "idle"
      BY DEF IdleTask
    <2> QED
      BY <1>1, <2>1, <2>2
      DEF CopiesInv, CopiesTypeOK, KeysFit, Keyless, Relisting, Dated, KeysGoWithCopy
  <1> QED
    BY <1>1, CopiesInvariant, PTL

\* For any number of lessons: with no two flows at once, no kill and no call that fails, a
\* file on the device is a copy the player lists.
THEOREM FilesAreListed ==
    CopiesSpec => []FileIsListed
  <1>1. ASSUME CopiesInv PROVE FileIsListed
    <2>1. Quiet => Current = IdleTask
      BY DEF Current
    <2>2. IdleTask.pc = "idle"
      BY DEF IdleTask
    <2> QED
      BY <1>1, <2>1, <2>2
      DEF CopiesInv, FilesFit, Relisting, FileIsListed, Playable
  <1> QED
    BY <1>1, CopiesInvariant, PTL

\* For any number of lessons: with no two flows at once, and through one mishap, a copy with
\* a deadline that the device plays as valid by itself, from a keychain it could read, was
\* checked before that deadline: its token is still there when the check looks for it.
THEOREM DeadlinesAreChecked ==
    CopiesSpec => []PlaysWithinGrant
  <1>1. ASSUME CopiesInv, ~flowsMet, mishaps <= 1, NEW t \in Tasks, TaskAt(t, "play"),
               task[t].by = "device"
        PROVE  task[t].entry \in {"fresh", "legacy"}
    <2>1. task[t].pc = "play" /\ task[t] # IdleTask
      BY <1>1 DEF TaskAt, IdleTask
    <2>2. Current = task[t]
      BY <1>1, <2>1, CurrentFlow DEF CopiesInv
    <2>3. KeysFit(Current)
      BY <1>1 DEF CopiesInv
    <2> QED
      BY <1>1, <2>1, <2>2, <2>3 DEF KeysFit
  <1>2. CopiesInv => PlaysWithinGrant
    BY <1>1 DEF PlaysWithinGrant
  <1> QED
    BY <1>2, CopiesInvariant, PTL
=============================================================================
