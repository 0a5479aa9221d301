--------------------------- MODULE MCSubscriptions ---------------------------
(***************************************************************************)
(* A plan of one day and a lifetime plan; reminders start on the day a     *)
(* subscription ends, and grace lasts a day.                               *)
(***************************************************************************)
EXTENDS Subscriptions, Functions, TLC

CONSTANTS monthly, lifetime, MaxGrants

MCDuration == [p \in Plans |-> IF p = lifetime THEN Null ELSE 1]

\* Counters that only grow are capped: grants, and with them rows and days.
GrantsBound == FoldFunction(+, 0, grants) <= MaxGrants

Symmetry == Permutations(Handlers) \cup Permutations(Orders)
=============================================================================
