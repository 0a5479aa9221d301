------------------------------- MODULE Usage -------------------------------
(***************************************************************************)
(* UsageService: the allowances of consultation packages, which messaging  *)
(* and meetings check in one query and consume in another.  The increment  *)
(* itself is atomic; nothing ties it to the check.                         *)
(***************************************************************************)
EXTENDS Naturals, FiniteSets

CONSTANTS Packages,   \* the client's purchases of consultation packages
          NoPackage,
          Kinds,      \* "text", "audio", "video", "session"
          Unlimited,  \* a limit column that is null
          Limit,      \* package -> kind -> allowance
          StartedAt,  \* package -> when it was bought
          Handlers    \* requests in flight at a time

ASSUME UsageAssumption ==
    /\ NoPackage \notin Packages
    /\ Unlimited \notin Nat
    /\ Limit \in [Packages -> [Kinds -> Nat \cup {Unlimited}]]
    /\ StartedAt \in [Packages -> Nat]
    /\ IsFiniteSet(Handlers)
    /\ Handlers # {}

VARIABLES standing,  \* Purchase.status
          expired,   \* purchases past their expiresAt
          used       \* textUsed, audioUsed, videoUsed, sessionsUsed

usageVars == <<standing, expired, used>>

UsageTypeOK ==
    /\ standing \in [Packages -> {"PENDING", "ACTIVE", "CANCELLED"}]
    /\ expired \subseteq Packages
    /\ used \in [Packages -> [Kinds -> Nat]]

UsageInit ==
    /\ standing = [p \in Packages |-> "PENDING"]
    /\ expired = {}
    /\ used = [p \in Packages |-> [k \in Kinds |-> 0]]

Metered(p, kind) == Limit[p][kind] # Unlimited

HasRoom(p, kind) == Metered(p, kind) => used[p][kind] < Limit[p][kind]

Usable(candidates, kind) ==
    {p \in candidates : standing[p] = "ACTIVE" /\ p \notin expired /\ HasRoom(p, kind)}

\* What findUsablePurchase may return, of the packages the client may use with
\* the consultant: the usable one bought first, or null.
FindUsablePurchase(candidates, kind) ==
    LET usable == Usable(candidates, kind) IN
    IF usable = {} THEN {NoPackage}
    ELSE {p \in usable : \A q \in usable : StartedAt[p] <= StartedAt[q]}

Consume(p, kind) == used' = [used EXCEPT ![p][kind] = @ + 1]

-----------------------------------------------------------------------------
\* The payment is confirmed, now or after a cancellation.
ActivatePackage(p) ==
    /\ standing' = [standing EXCEPT ![p] = "ACTIVE"]
    /\ UNCHANGED <<expired, used>>

CancelPackage(p) ==
    /\ standing' = [standing EXCEPT ![p] = "CANCELLED"]
    /\ UNCHANGED <<expired, used>>

\* The clock passes expiresAt, which is fixed when the package is bought.
Expire(p) ==
    /\ expired' = expired \cup {p}
    /\ UNCHANGED <<standing, used>>

PackageStep(p) == ActivatePackage(p) \/ CancelPackage(p) \/ Expire(p)

\* The most a limit can be passed by: every request but one reads the counter
\* before the last unit is taken and adds to it afterwards.
Overrun == Cardinality(Handlers) - 1
=============================================================================
