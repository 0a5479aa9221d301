---------------------------- MODULE MCMessaging ----------------------------
(***************************************************************************)
(* A SINGLE package of one text and one audio message bought first, for    *)
(* one consultant, and a CHAT package with unlimited texts for any.        *)
(***************************************************************************)
EXTENDS Messaging, TLC

CONSTANTS book, chat, c1, c2

MCLimit == [p \in Packages |-> [k \in Kinds |->
                IF p = chat /\ k = "text" THEN Unlimited ELSE 1]]
MCStartedAt == [p \in Packages |-> IF p = book THEN 1 ELSE 2]
MCServes == [c \in Conversations |-> IF c = c1 THEN Packages ELSE Packages \ {book}]
MCMode == [p \in Packages |-> IF p = book THEN "SINGLE" ELSE "CHAT"]

\* Counters that only grow are capped: two messages on book, one past its limit,
\* and one on chat.
MaxMessages == [p \in Packages |-> IF p = book THEN 2 ELSE 1]

MessagesBound == \A p \in Packages, k \in Kinds : messages[p][k] <= MaxMessages[p]

Symmetry == Permutations(Handlers)
=============================================================================
