---------------------------- MODULE Attribution ----------------------------
(***************************************************************************)
(* AttributionService.recordSale, the "core money hook" markPaid calls     *)
(* after a payment is marked PAID, with the bonus points it awards through *)
(* GamificationService.awardBonusPoints.                                   *)
(*                                                                         *)
(* A call is a small state machine: every await of the code is a step, and *)
(* calls of different webhook handlers interleave at each of them.  The    *)
(* tables are counts of rows per payment, so that a second row would show; *)
(* a create on a column that is @unique throws when the row is there.      *)
(* Amounts, channels and currencies are left out: no property reads them.  *)
(***************************************************************************)
EXTENDS Naturals

CONSTANTS Payments,  \* payment rows
          Handlers,  \* webhook (or admin) requests in flight at a time
          Users,
          NoUser,    \* no referral code owner
          NoPayment, \* the handler works on nothing
          Buyer,     \* payment -> the user who pays
          CodeOwner  \* payment -> the owner of the referral code the buyer
                     \* signed up with, or NoUser

ASSUME AttributionAssumption ==
    /\ NoUser \notin Users
    /\ NoPayment \notin Payments
    /\ Buyer \in [Payments -> Users]
    /\ CodeOwner \in [Payments -> Users \cup {NoUser}]

VARIABLES attribution,  \* SaleAttribution rows per payment
          commission,   \* Commission rows per payment
          reward,       \* ReferralReward rows per payment
          awarded,      \* bonus awards made per payment and role
          stat,         \* users with a UserGameStat row
          call,         \* the recordSale call each handler is inside
          cut           \* payments whose recording call was ended by an error

attributionVars == <<attribution, commission, reward, awarded, stat, call, cut>>

Roles == {"referrer", "referred"}

\* Mutant of Referrer: a buyer's own code counts.
AnyReferrer(p) == CodeOwner[p]

\* "A buyer can never earn commission on their own purchase."
Referrer(p) == IF CodeOwner[p] = Buyer[p] THEN NoUser ELSE CodeOwner[p]
Referred(p) == Referrer(p) # NoUser

Beneficiary(p, role) == IF role = "referrer" THEN Referrer(p) ELSE Buyer[p]

CallPcs == {"idle", "seen", "attribute", "commission", "rewardSeen", "reward",
            "stat", "newStat", "award"}

NoCall == [pc |-> "idle", p |-> NoPayment, role |-> "referrer"]

AttributionTypeOK ==
    /\ attribution \in [Payments -> Nat]
    /\ commission \in [Payments -> Nat]
    /\ reward \in [Payments -> Nat]
    /\ awarded \in [Payments -> [Roles -> Nat]]
    /\ stat \subseteq Users
    /\ call \in [Handlers -> [pc : CallPcs, p : Payments \cup {NoPayment}, role : Roles]]
    /\ \A h \in Handlers : call[h].pc # "idle" => call[h].p \in Payments
    /\ cut \subseteq Payments

AttributionInit ==
    /\ attribution = [p \in Payments |-> 0]
    /\ commission = [p \in Payments |-> 0]
    /\ reward = [p \in Payments |-> 0]
    /\ awarded = [p \in Payments |-> [r \in Roles |-> 0]]
    /\ stat = {}
    /\ call = [h \in Handlers |-> NoCall]
    /\ cut = {}

-----------------------------------------------------------------------------
At(h, pc) == call[h].pc = pc

Goto(h, pc) == call' = [call EXCEPT ![h].pc = pc]

Return(h) == call' = [call EXCEPT ![h] = NoCall]

\* markPaid calls recordSale.
StartCall(h, p) ==
    /\ At(h, "idle")
    /\ call' = [call EXCEPT ![h] = [pc |-> "seen", p |-> p, role |-> "referrer"]]
    /\ UNCHANGED <<attribution, commission, reward, awarded, stat, cut>>

\* findUnique by paymentId: "one attribution row per payment".
SeenBefore(h) ==
    /\ At(h, "seen")
    /\ IF attribution[call[h].p] > 0 THEN Return(h) ELSE Goto(h, "attribute")
    /\ UNCHANGED <<attribution, commission, reward, awarded, stat, cut>>

\* saleAttribution.create; paymentId is @unique, so the loser of a race throws.
CreateAttribution(h) ==
    LET p == call[h].p IN
    /\ At(h, "attribute")
    /\ attribution[p] = 0
    /\ attribution' = [attribution EXCEPT ![p] = @ + 1]
    /\ IF Referred(p) THEN Goto(h, "commission") ELSE Return(h)
    /\ UNCHANGED <<commission, reward, awarded, stat, cut>>

\* Mutant of CreateCommission: the call returns without the reward.
CreateCommissionOnly(h) ==
    /\ At(h, "commission")
    /\ commission' = [commission EXCEPT ![call[h].p] = @ + 1]
    /\ Return(h)
    /\ UNCHANGED <<attribution, reward, awarded, stat, cut>>

\* commission.create; attributionId is @unique.
CreateCommission(h) ==
    LET p == call[h].p IN
    /\ At(h, "commission")
    /\ commission' = [commission EXCEPT ![p] = @ + 1]
    /\ Goto(h, "rewardSeen")
    /\ UNCHANGED <<attribution, reward, awarded, stat, cut>>

\* referralReward.findUnique by paymentId.
RewardSeen(h) ==
    /\ At(h, "rewardSeen")
    /\ IF reward[call[h].p] > 0 THEN Return(h) ELSE Goto(h, "reward")
    /\ UNCHANGED <<attribution, commission, reward, awarded, stat, cut>>

\* referralReward.create; paymentId is @unique.
CreateReward(h) ==
    LET p == call[h].p IN
    /\ At(h, "reward")
    /\ reward[p] = 0
    /\ reward' = [reward EXCEPT ![p] = @ + 1]
    /\ Goto(h, "stat")
    /\ UNCHANGED <<attribution, commission, awarded, stat, cut>>

\* awardBonusPoints -> getOrCreateStat: the find.
FindStat(h) ==
    /\ At(h, "stat")
    /\ Goto(h, IF Beneficiary(call[h].p, call[h].role) \in stat THEN "award" ELSE "newStat")
    /\ UNCHANGED <<attribution, commission, reward, awarded, stat, cut>>

\* getOrCreateStat: the create; userId is @unique.
CreateStat(h) ==
    LET u == Beneficiary(call[h].p, call[h].role) IN
    /\ At(h, "newStat")
    /\ u \notin stat
    /\ stat' = stat \cup {u}
    /\ Goto(h, "award")
    /\ UNCHANGED <<attribution, commission, reward, awarded, cut>>

\* Mutant of Award: the retry of a lost answer awards the same role again.
AwardAgain(h) ==
    /\ At(h, "award")
    /\ awarded' = [awarded EXCEPT ![call[h].p][call[h].role] = @ + 1]
    /\ Goto(h, "stat")
    /\ UNCHANGED <<attribution, commission, reward, stat, cut>>

\* The atomic increment of bonusPoints, then the other role or the end.
Award(h) ==
    LET p == call[h].p IN
    /\ At(h, "award")
    /\ awarded' = [awarded EXCEPT ![p][call[h].role] = @ + 1]
    /\ IF call[h].role = "referrer"
       THEN call' = [call EXCEPT ![h].pc = "stat", ![h].role = "referred"]
       ELSE Return(h)
    /\ UNCHANGED <<attribution, commission, reward, stat, cut>>

\* The call that created the attribution row: no other call passes "attribute".
OwnsSale(h, p) == call[h].p = p /\ call[h].pc \notin {"idle", "seen", "attribute"}

\* A create that meets its unique constraint, or any await that rejects, ends
\* the call: recordSale's own try, or the one around it in markPaid, swallows
\* the error.
CallThrows(h) ==
    /\ ~ At(h, "idle")
    /\ cut' = cut \cup {p \in Payments : OwnsSale(h, p)}
    /\ Return(h)
    /\ UNCHANGED <<attribution, commission, reward, awarded, stat>>

\* getOrCreateStat on behalf of another endpoint (profile, check-in).
OtherStat(u) ==
    /\ u \notin stat
    /\ stat' = stat \cup {u}
    /\ UNCHANGED <<attribution, commission, reward, awarded, call, cut>>

CallStep(h) ==
    \/ SeenBefore(h)
    \/ CreateAttribution(h)
    \/ CreateCommission(h)
    \/ RewardSeen(h)
    \/ CreateReward(h)
    \/ FindStat(h)
    \/ CreateStat(h)
    \/ Award(h)

AttributionNext ==
    \/ \E h \in Handlers, p \in Payments : StartCall(h, p)
    \/ \E h \in Handlers : CallStep(h) \/ CallThrows(h)
    \/ \E u \in Users : OtherStat(u)

AttributionSpec == AttributionInit /\ [][AttributionNext]_attributionVars

-----------------------------------------------------------------------------
\* A commission is earned at most once per payment and only by a referrer other
\* than the buyer, however many handlers record the sale (recordSale,
\* "Idempotent per payment").
OneCommissionPerSale ==
    \A p \in Payments :
        /\ attribution[p] <= 1
        /\ commission[p] <= attribution[p]
        /\ commission[p] > 0 => Referrer(p) \in Users \ {Buyer[p]}

\* Bonus points are awarded at most once per payment and role, only behind a
\* reward row, and to the buyer only after the referrer: awardBonusPoints
\* leaves idempotency to its caller.
NoDoubleBonus ==
    \A p \in Payments :
        /\ reward[p] <= 1
        /\ awarded[p]["referrer"] <= reward[p]
        /\ awarded[p]["referred"] <= awarded[p]["referrer"]

\* A referred sale that has its attribution row has its commission, its reward
\* row and both bonus awards too, unless the call that created the row is still
\* at work or was cut by an error: recordSale returns early when the row is
\* there, so no later delivery can add what is missing.
RecordedWholeUnlessCut ==
    \A p \in Payments :
        attribution[p] > 0 /\ Referred(p) /\ p \notin cut =>
            \/ \E h \in Handlers : OwnsSale(h, p)
            \/ /\ commission[p] = 1
               /\ reward[p] = 1
               /\ \A role \in Roles : awarded[p][role] = 1
=============================================================================
