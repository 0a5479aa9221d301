----------------------------- MODULE MCMeetings -----------------------------
(***************************************************************************)
(* A package of one session and one without a limit, bought in that order. *)
(***************************************************************************)
EXTENDS Meetings, TLC

CONSTANTS small, open

MCLimit == [p \in Packages |-> [k \in Kinds |-> IF p = small THEN 1 ELSE Unlimited]]
MCStartedAt == [p \in Packages |-> IF p = small THEN 1 ELSE 2]

\* Counters that only grow are capped: small one past its overrun, open at one.
MaxUsed == [p \in Packages |-> IF p = small THEN 3 ELSE 1]

UsedBound == \A p \in Packages : used[p]["session"] <= MaxUsed[p]

Symmetry == Permutations(Handlers) \cup Permutations(Meetings)
=============================================================================
