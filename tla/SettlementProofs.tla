-------------------------- MODULE SettlementProofs --------------------------
(***************************************************************************)
(* Settlement for any number of payments, items, users and handlers, on    *)
(* top of Attribution: at most one commission and one bonus award per role *)
(* and sale and nothing missing from a recorded sale that no error cut;    *)
(* the safety properties of payments; and that the code keeps              *)
(* SettlementPromise.                                                      *)
(***************************************************************************)
EXTENDS Settlement, TLAPS

(***************************************************************************)
(* Attribution.  The inductive invariant says who may still write for a    *)
(* sale.  The unique paymentId lets one call past "attribute"; that call,  *)
(* the owner, is alone from then on, and its pc tells exactly which rows   *)
(* are there.                                                              *)
(***************************************************************************)
RoleFitsPc ==
    \A h \in Handlers :
        call[h].pc \notin {"stat", "newStat", "award"} => call[h].role = "referrer"

OneOwner ==
    \A p \in Payments : \A g, h \in Handlers :
        OwnsSale(g, p) /\ OwnsSale(h, p) => g = h

\* The rows of a sale, as far as the pc of its owner tells.
RowsFitOwner ==
    \A h \in Handlers, p \in Payments : OwnsSale(h, p) =>
        /\ Referred(p)
        /\ attribution[p] = 1
        /\ commission[p] = IF call[h].pc = "commission" THEN 0 ELSE 1
        /\ reward[p] = IF call[h].pc \in {"commission", "rewardSeen", "reward"} THEN 0 ELSE 1
        /\ awarded[p]["referrer"] = IF call[h].role = "referrer" THEN 0 ELSE 1
        /\ awarded[p]["referred"] = 0

\* No row without the rows before it.
RowsInOrder ==
    \A p \in Payments :
        /\ attribution[p] <= 1
        /\ commission[p] <= attribution[p]
        /\ commission[p] > 0 => Referred(p)
        /\ reward[p] <= commission[p]
        /\ awarded[p]["referrer"] <= reward[p]
        /\ awarded[p]["referred"] <= awarded[p]["referrer"]

AttributionInv ==
    /\ AttributionTypeOK
    /\ RoleFitsPc
    /\ OneOwner
    /\ RowsFitOwner
    /\ RowsInOrder
    /\ RecordedWholeUnlessCut

-----------------------------------------------------------------------------
\* Every call starts idle and every table empty.
LEMMA AttributionInitInv == AttributionInit => AttributionInv
  <1> SUFFICES ASSUME AttributionInit PROVE AttributionInv
    OBVIOUS
  <1> USE DEF AttributionInit, NoCall, OwnsSale
  <1>1. AttributionTypeOK
    BY DEF AttributionTypeOK, CallPcs, Roles
  <1>2. RoleFitsPc /\ OneOwner /\ RowsFitOwner
    BY DEF RoleFitsPc, OneOwner, RowsFitOwner
  <1>3. RowsInOrder /\ RecordedWholeUnlessCut
    BY DEF RowsInOrder, RecordedWholeUnlessCut, Roles
  <1> QED BY <1>1, <1>2, <1>3 DEF AttributionInv

\* The referrer is a user other than the buyer.
LEMMA ReferrerIsAnother ==
    ASSUME NEW p \in Payments, Referred(p)
    PROVE  Referrer(p) \in Users \ {Buyer[p]}
  BY AttributionAssumption DEF Referred, Referrer

\* What Goto does to the calls.
LEMMA GotoCall ==
    ASSUME AttributionTypeOK, NEW h \in Handlers, NEW pc \in CallPcs,
           call[h].pc # "idle", Goto(h, pc)
    PROVE  /\ call' \in [Handlers -> [pc : CallPcs, p : Payments \cup {NoPayment},
                                      role : Roles]]
           /\ \A g \in Handlers : call'[g].pc # "idle" => call'[g].p \in Payments
           /\ call'[h].pc = pc /\ call'[h].p = call[h].p /\ call'[h].role = call[h].role
           /\ \A g \in Handlers \ {h} : call'[g] = call[g]
  BY DEF AttributionTypeOK, Goto

\* What Return does to the calls.
LEMMA ReturnCall ==
    ASSUME AttributionTypeOK, NEW h \in Handlers, Return(h)
    PROVE  /\ call' \in [Handlers -> [pc : CallPcs, p : Payments \cup {NoPayment},
                                      role : Roles]]
           /\ \A g \in Handlers : call'[g].pc # "idle" => call'[g].p \in Payments
           /\ call'[h].pc = "idle" /\ call'[h].role = "referrer"
           /\ \A g \in Handlers \ {h} : call'[g] = call[g]
  BY DEF AttributionTypeOK, Return, NoCall, CallPcs, Roles

\* StartCall keeps the invariant: the new call owns nothing yet.
LEMMA StartCallInv ==
    ASSUME AttributionInv, NEW h \in Handlers, NEW p \in Payments, StartCall(h, p)
    PROVE  AttributionInv'
  <1> USE DEF AttributionInv, OwnsSale
  <1>1. AttributionTypeOK'
    BY DEF AttributionTypeOK, StartCall, CallPcs, Roles
  <1>2. /\ call'[h].pc = "seen" /\ call'[h].role = "referrer"
        /\ \A g \in Handlers \ {h} : call'[g] = call[g]
        /\ call[h].pc = "idle"
    BY DEF AttributionTypeOK, StartCall, At
  <1>3. RoleFitsPc' /\ OneOwner'
    BY <1>2 DEF RoleFitsPc, OneOwner
  <1>4. RowsFitOwner'
    BY <1>2 DEF RowsFitOwner, StartCall
  <1>5. RowsInOrder'
    BY DEF RowsInOrder, StartCall
  <1>6. RecordedWholeUnlessCut'
    BY <1>2 DEF RecordedWholeUnlessCut, StartCall
  <1> QED BY <1>1, <1>3, <1>4, <1>5, <1>6

\* A sale that was recorded before changes no count.
LEMMA SeenBeforeInv ==
    ASSUME AttributionInv, NEW h \in Handlers, SeenBefore(h)
    PROVE  AttributionInv'
  <1> USE DEF AttributionInv, OwnsSale
  <1>1. UNCHANGED <<attribution, commission, reward, awarded, stat, cut>>
    BY DEF SeenBefore
  <1>2. /\ call' \in [Handlers -> [pc : CallPcs, p : Payments \cup {NoPayment},
                                   role : Roles]]
        /\ \A g \in Handlers : call'[g].pc # "idle" => call'[g].p \in Payments
        /\ call'[h].pc \in {"idle", "attribute"} /\ call'[h].role = "referrer"
        /\ \A g \in Handlers \ {h} : call'[g] = call[g]
        /\ call[h].pc = "seen"
    BY GotoCall, ReturnCall DEF SeenBefore, At, CallPcs, RoleFitsPc
  <1>3. AttributionTypeOK'
    BY <1>1, <1>2 DEF AttributionTypeOK
  <1>4. RoleFitsPc' /\ OneOwner'
    BY <1>2 DEF RoleFitsPc, OneOwner
  <1>5. RowsFitOwner'
    BY <1>1, <1>2 DEF RowsFitOwner
  <1>6. RowsInOrder'
    BY <1>1 DEF RowsInOrder
  <1>7. RecordedWholeUnlessCut'
    BY <1>1, <1>2 DEF RecordedWholeUnlessCut
  <1> QED BY <1>3, <1>4, <1>5, <1>6, <1>7

\* CreateAttribution makes its call the owner: by paymentId's uniqueness there is
\* no other, and by RowsInOrder no later row.
LEMMA CreateAttributionInv ==
    ASSUME AttributionInv, NEW h \in Handlers, CreateAttribution(h)
    PROVE  AttributionInv'
  <1> USE DEF AttributionInv, OwnsSale
  <1> DEFINE p == call[h].p
  <1>1. /\ attribution' = [attribution EXCEPT ![p] = @ + 1]
        /\ attribution[p] = 0
        /\ UNCHANGED <<commission, reward, awarded, stat, cut>>
    BY DEF CreateAttribution
  <1>2. p \in Payments /\ call[h].pc = "attribute" /\ call[h].role = "referrer"
    BY DEF CreateAttribution, At, AttributionTypeOK, RoleFitsPc
  <1>3. /\ call' \in [Handlers -> [pc : CallPcs, p : Payments \cup {NoPayment},
                                   role : Roles]]
        /\ \A g \in Handlers : call'[g].pc # "idle" => call'[g].p \in Payments
        /\ call'[h].role = "referrer"
        /\ IF Referred(p) THEN call'[h].pc = "commission" /\ call'[h].p = p
                          ELSE call'[h].pc = "idle"
        /\ \A g \in Handlers \ {h} : call'[g] = call[g]
    BY <1>2, GotoCall, ReturnCall DEF CreateAttribution, CallPcs
  <1>4. AttributionTypeOK'
    BY <1>1, <1>2, <1>3 DEF AttributionTypeOK
  <1>5. \A q \in Payments : attribution'[q] = IF q = p THEN 1 ELSE attribution[q]
    BY <1>1, <1>2 DEF AttributionTypeOK
  <1>6. RoleFitsPc'
    BY <1>3 DEF RoleFitsPc
  <1>7. \A g \in Handlers : ~ OwnsSale(g, p)
    BY <1>1, <1>2 DEF RowsFitOwner
  <1>8. OneOwner'
    BY <1>3, <1>7 DEF OneOwner
  <1>9. commission[p] = 0 /\ reward[p] = 0
        /\ awarded[p]["referrer"] = 0 /\ awarded[p]["referred"] = 0
    BY <1>1, <1>2 DEF RowsInOrder, AttributionTypeOK, Roles
  <1>10. RowsFitOwner'
    BY <1>1, <1>3, <1>5, <1>7, <1>9 DEF RowsFitOwner
  <1>11. RowsInOrder'
    BY <1>1, <1>5, <1>9 DEF RowsInOrder
  <1>12. RecordedWholeUnlessCut'
    BY <1>1, <1>2, <1>3, <1>5 DEF RecordedWholeUnlessCut
  <1> QED BY <1>4, <1>6, <1>8, <1>10, <1>11, <1>12

\* The steps of an owner: it has a payment of its own, and no other call owns it.
LEMMA OwnerAlone ==
    ASSUME AttributionInv, NEW h \in Handlers,
           call[h].pc \notin {"idle", "seen", "attribute"}
    PROVE  /\ call[h].p \in Payments
           /\ OwnsSale(h, call[h].p)
           /\ \A g \in Handlers \ {h} : ~ OwnsSale(g, call[h].p)
  BY DEF AttributionInv, AttributionTypeOK, OneOwner, OwnsSale

\* The one owner of the sale writes its commission.
LEMMA CreateCommissionInv ==
    ASSUME AttributionInv, NEW h \in Handlers, CreateCommission(h)
    PROVE  AttributionInv'
  <1> USE DEF AttributionInv, OwnsSale
  <1> DEFINE p == call[h].p
  <1>1. /\ commission' = [commission EXCEPT ![p] = @ + 1]
        /\ UNCHANGED <<attribution, reward, awarded, stat, cut>>
        /\ call[h].pc = "commission"
    BY DEF CreateCommission, At
  <1>2. /\ p \in Payments
        /\ \A g \in Handlers \ {h} : ~ OwnsSale(g, p)
    BY <1>1, OwnerAlone
  <1>3. /\ call' \in [Handlers -> [pc : CallPcs, p : Payments \cup {NoPayment},
                                   role : Roles]]
        /\ \A g \in Handlers : call'[g].pc # "idle" => call'[g].p \in Payments
        /\ call'[h].pc = "rewardSeen" /\ call'[h].p = p /\ call'[h].role = call[h].role
        /\ \A g \in Handlers \ {h} : call'[g] = call[g]
    BY <1>1, GotoCall DEF CreateCommission, CallPcs
  <1>4. /\ Referred(p) /\ attribution[p] = 1 /\ commission[p] = 0 /\ reward[p] = 0
        /\ call[h].role = "referrer"
        /\ awarded[p]["referrer"] = 0 /\ awarded[p]["referred"] = 0
    BY <1>1, <1>2 DEF RowsFitOwner, RoleFitsPc
  <1>5. \A q \in Payments : commission'[q] = IF q = p THEN 1 ELSE commission[q]
    BY <1>1, <1>2, <1>4 DEF AttributionTypeOK
  <1>6. AttributionTypeOK'
    BY <1>1, <1>2, <1>3 DEF AttributionTypeOK
  <1>7. RoleFitsPc' /\ OneOwner'
    BY <1>1, <1>3, <1>4 DEF RoleFitsPc, OneOwner
  <1>8. RowsFitOwner'
    BY <1>1, <1>2, <1>3, <1>4, <1>5 DEF RowsFitOwner
  <1>9. RowsInOrder'
    BY <1>1, <1>4, <1>5 DEF RowsInOrder
  <1>10. RecordedWholeUnlessCut'
    BY <1>1, <1>2, <1>3, <1>5 DEF RecordedWholeUnlessCut
  <1> QED BY <1>6, <1>7, <1>8, <1>9, <1>10

\* The steps that only read, or only touch the stat table: the owner moves to a
\* pc that the same rows fit.  RewardSeen never finds a reward, because the sale
\* has no other owner.
LEMMA QuietStepInv ==
    ASSUME AttributionInv, NEW h \in Handlers,
           RewardSeen(h) \/ FindStat(h) \/ CreateStat(h)
    PROVE  AttributionInv'
  <1> USE DEF AttributionInv, OwnsSale
  <1> DEFINE p == call[h].p
  <1>1. /\ UNCHANGED <<attribution, commission, reward, awarded, cut>>
        /\ call[h].pc \in {"rewardSeen", "stat", "newStat"}
    BY DEF RewardSeen, FindStat, CreateStat, At
  <1>2. /\ p \in Payments
        /\ \A g \in Handlers \ {h} : ~ OwnsSale(g, p)
    BY <1>1, OwnerAlone
  <1>3. PICK pc \in CallPcs :
           /\ Goto(h, pc)
           /\ IF call[h].pc = "rewardSeen" THEN pc = "reward" ELSE pc \in {"newStat", "award"}
    <2>1. CASE RewardSeen(h)
      <3>1. call[h].pc = "rewardSeen" /\ reward[p] = 0
        BY <1>2, <2>1 DEF RewardSeen, At, RowsFitOwner
      <3> QED BY <2>1, <3>1 DEF RewardSeen, CallPcs
    <2>2. CASE FindStat(h)
      BY <2>2 DEF FindStat, At, CallPcs
    <2>3. CASE CreateStat(h)
      BY <2>3 DEF CreateStat, At, CallPcs
    <2> QED BY <2>1, <2>2, <2>3
  <1>4. /\ call' \in [Handlers -> [pc : CallPcs, p : Payments \cup {NoPayment},
                                   role : Roles]]
        /\ \A g \in Handlers : call'[g].pc # "idle" => call'[g].p \in Payments
        /\ call'[h].pc = pc /\ call'[h].p = p /\ call'[h].role = call[h].role
        /\ \A g \in Handlers \ {h} : call'[g] = call[g]
    BY <1>1, <1>3, GotoCall
  <1>5. AttributionTypeOK'
    <2>1. stat' \subseteq Users
      <3>1. CASE CreateStat(h)
        <4>1. Referred(p) /\ call[h].role \in Roles
          BY <1>1, <1>2 DEF RowsFitOwner, AttributionTypeOK
        <4>2. Beneficiary(p, call[h].role) \in Users
          BY <1>2, <4>1, ReferrerIsAnother, AttributionAssumption DEF Beneficiary
        <4> QED BY <3>1, <4>2 DEF CreateStat, AttributionTypeOK
      <3>2. CASE ~ CreateStat(h)
        BY <3>2 DEF RewardSeen, FindStat, AttributionTypeOK
      <3> QED BY <3>1, <3>2
    <2> QED BY <1>1, <1>4, <2>1 DEF AttributionTypeOK
  <1>6. RoleFitsPc' /\ OneOwner'
    BY <1>1, <1>3, <1>4 DEF RoleFitsPc, OneOwner
  <1>7. RowsFitOwner'
    BY <1>1, <1>2, <1>3, <1>4 DEF RowsFitOwner
  <1>8. RowsInOrder'
    BY <1>1 DEF RowsInOrder
  <1>9. RecordedWholeUnlessCut'
    BY <1>1, <1>2, <1>3, <1>4 DEF RecordedWholeUnlessCut
  <1> QED BY <1>5, <1>6, <1>7, <1>8, <1>9

\* The one owner of the sale writes its reward.
LEMMA CreateRewardInv ==
    ASSUME AttributionInv, NEW h \in Handlers, CreateReward(h)
    PROVE  AttributionInv'
  <1> USE DEF AttributionInv, OwnsSale
  <1> DEFINE p == call[h].p
  <1>1. /\ reward' = [reward EXCEPT ![p] = @ + 1]
        /\ UNCHANGED <<attribution, commission, awarded, stat, cut>>
        /\ call[h].pc = "reward"
    BY DEF CreateReward, At
  <1>2. /\ p \in Payments
        /\ \A g \in Handlers \ {h} : ~ OwnsSale(g, p)
    BY <1>1, OwnerAlone
  <1>3. /\ call' \in [Handlers -> [pc : CallPcs, p : Payments \cup {NoPayment},
                                   role : Roles]]
        /\ \A g \in Handlers : call'[g].pc # "idle" => call'[g].p \in Payments
        /\ call'[h].pc = "stat" /\ call'[h].p = p /\ call'[h].role = call[h].role
        /\ \A g \in Handlers \ {h} : call'[g] = call[g]
    BY <1>1, GotoCall DEF CreateReward, CallPcs
  <1>4. /\ Referred(p) /\ attribution[p] = 1 /\ commission[p] = 1 /\ reward[p] = 0
        /\ call[h].role = "referrer"
        /\ awarded[p]["referrer"] = 0 /\ awarded[p]["referred"] = 0
    BY <1>1, <1>2 DEF RowsFitOwner, RoleFitsPc
  <1>5. \A q \in Payments : reward'[q] = IF q = p THEN 1 ELSE reward[q]
    BY <1>1, <1>2, <1>4 DEF AttributionTypeOK
  <1>6. AttributionTypeOK'
    BY <1>1, <1>2, <1>3 DEF AttributionTypeOK
  <1>7. RoleFitsPc' /\ OneOwner'
    BY <1>1, <1>3, <1>4 DEF RoleFitsPc, OneOwner
  <1>8. RowsFitOwner'
    BY <1>1, <1>2, <1>3, <1>4, <1>5 DEF RowsFitOwner
  <1>9. RowsInOrder'
    BY <1>1, <1>4, <1>5 DEF RowsInOrder
  <1>10. RecordedWholeUnlessCut'
    BY <1>1, <1>2, <1>3, <1>5 DEF RecordedWholeUnlessCut
  <1> QED BY <1>6, <1>7, <1>8, <1>9, <1>10

\* Award is where the owner gives a sale up, with all its rows in place.
LEMMA AwardInv ==
    ASSUME AttributionInv, NEW h \in Handlers, Award(h)
    PROVE  AttributionInv'
  <1> USE DEF AttributionInv, OwnsSale
  <1> DEFINE p == call[h].p
             role == call[h].role
  <1>1. /\ awarded' = [awarded EXCEPT ![p][role] = @ + 1]
        /\ UNCHANGED <<attribution, commission, reward, stat, cut>>
        /\ call[h].pc = "award"
    BY DEF Award, At
  <1>2. /\ p \in Payments /\ role \in Roles
        /\ \A g \in Handlers \ {h} : ~ OwnsSale(g, p)
    BY <1>1, OwnerAlone DEF AttributionTypeOK
  <1>3. /\ call' \in [Handlers -> [pc : CallPcs, p : Payments \cup {NoPayment},
                                   role : Roles]]
        /\ \A g \in Handlers : call'[g].pc # "idle" => call'[g].p \in Payments
        /\ IF role = "referrer"
           THEN call'[h].pc = "stat" /\ call'[h].p = p /\ call'[h].role = "referred"
           ELSE call'[h].pc = "idle" /\ call'[h].role = "referrer"
        /\ \A g \in Handlers \ {h} : call'[g] = call[g]
    <2>1. CASE role = "referrer"
      BY <1>2, <2>1 DEF Award, AttributionTypeOK, CallPcs, Roles
    <2>2. CASE role # "referrer"
      BY <2>2, ReturnCall DEF Award
    <2> QED BY <2>1, <2>2
  <1>4. /\ Referred(p) /\ attribution[p] = 1 /\ commission[p] = 1 /\ reward[p] = 1
        /\ awarded[p]["referrer"] = IF role = "referrer" THEN 0 ELSE 1
        /\ awarded[p]["referred"] = 0
    BY <1>1, <1>2 DEF RowsFitOwner
  <1>5. /\ awarded' \in [Payments -> [Roles -> Nat]]
        /\ \A q \in Payments \ {p} : awarded'[q] = awarded[q]
        /\ awarded'[p]["referrer"] = 1
        /\ awarded'[p]["referred"] = IF role = "referrer" THEN 0 ELSE 1
    BY <1>1, <1>2, <1>4 DEF AttributionTypeOK, Roles
  <1>6. AttributionTypeOK'
    BY <1>1, <1>3, <1>5 DEF AttributionTypeOK
  <1>7. RoleFitsPc' /\ OneOwner'
    BY <1>1, <1>2, <1>3 DEF RoleFitsPc, OneOwner
  <1>8. RowsFitOwner'
    BY <1>1, <1>2, <1>3, <1>4, <1>5 DEF RowsFitOwner
  <1>9. RowsInOrder'
    BY <1>1, <1>4, <1>5 DEF RowsInOrder
  <1>10. RecordedWholeUnlessCut'
    <2>1. CASE role = "referrer"
      BY <1>1, <1>2, <1>3, <1>5, <2>1 DEF RecordedWholeUnlessCut
    <2>2. CASE role = "referred"
      BY <1>1, <1>3, <1>4, <1>5, <2>2 DEF RecordedWholeUnlessCut, Roles
    <2> QED BY <1>2, <2>1, <2>2 DEF Roles
  <1> QED BY <1>6, <1>7, <1>8, <1>9, <1>10

\* An error gives the sale up too, and the history remembers it.
LEMMA CallThrowsInv ==
    ASSUME AttributionInv, NEW h \in Handlers, CallThrows(h)
    PROVE  AttributionInv'
  <1> USE DEF AttributionInv, OwnsSale
  <1>1. /\ UNCHANGED <<attribution, commission, reward, awarded, stat>>
        /\ cut' = cut \cup {p \in Payments : OwnsSale(h, p)}
    BY DEF CallThrows
  <1>2. /\ call' \in [Handlers -> [pc : CallPcs, p : Payments \cup {NoPayment},
                                   role : Roles]]
        /\ \A g \in Handlers : call'[g].pc # "idle" => call'[g].p \in Payments
        /\ call'[h].pc = "idle" /\ call'[h].role = "referrer"
        /\ \A g \in Handlers \ {h} : call'[g] = call[g]
    BY ReturnCall DEF CallThrows
  <1>3. AttributionTypeOK'
    BY <1>1, <1>2 DEF AttributionTypeOK
  <1>4. RoleFitsPc' /\ OneOwner'
    BY <1>2 DEF RoleFitsPc, OneOwner
  <1>5. RowsFitOwner'
    BY <1>1, <1>2 DEF RowsFitOwner
  <1>6. RowsInOrder'
    BY <1>1 DEF RowsInOrder
  <1>7. RecordedWholeUnlessCut'
    BY <1>1, <1>2 DEF RecordedWholeUnlessCut
  <1> QED BY <1>3, <1>4, <1>5, <1>6, <1>7

\* A step outside recordSale, or none.
LEMMA OtherInv ==
    ASSUME AttributionInv,
           (\E u \in Users : OtherStat(u)) \/ UNCHANGED attributionVars
    PROVE  AttributionInv'
  <1>1. /\ UNCHANGED <<attribution, commission, reward, awarded, call, cut>>
        /\ stat' \subseteq Users
    BY DEF OtherStat, attributionVars, AttributionInv, AttributionTypeOK
  <1>2. AttributionTypeOK'
    BY <1>1 DEF AttributionInv, AttributionTypeOK
  <1> QED BY <1>1, <1>2 DEF AttributionInv, RoleFitsPc, OneOwner, RowsFitOwner,
             RowsInOrder, RecordedWholeUnlessCut, OwnsSale

\* A step of recording a sale, taken by any of several calls at work on it, keeps
\* the tables, the owner and its pc in step.
LEMMA AttributionNextInv ==
    ASSUME AttributionInv, [AttributionNext]_attributionVars
    PROVE  AttributionInv'
  <1>1. ASSUME NEW h \in Handlers, NEW p \in Payments, StartCall(h, p)
        PROVE  AttributionInv'
    BY <1>1, StartCallInv
  <1>2. ASSUME NEW h \in Handlers, CallStep(h)
        PROVE  AttributionInv'
    BY <1>2, SeenBeforeInv, CreateAttributionInv, CreateCommissionInv, QuietStepInv,
       CreateRewardInv, AwardInv DEF CallStep
  <1>3. ASSUME NEW h \in Handlers, CallThrows(h)
        PROVE  AttributionInv'
    BY <1>3, CallThrowsInv
  <1>4. ASSUME (\E u \in Users : OtherStat(u)) \/ UNCHANGED attributionVars
        PROVE  AttributionInv'
    BY <1>4, OtherInv
  <1> QED BY <1>1, <1>2, <1>3, <1>4 DEF AttributionNext

-----------------------------------------------------------------------------
\* The invariant holds throughout.
THEOREM AttributionInvariant == AttributionSpec => []AttributionInv
  <1>1. AttributionInv /\ [AttributionNext]_attributionVars => AttributionInv'
    BY AttributionNextInv
  <1> QED BY AttributionInitInv, <1>1, PTL DEF AttributionSpec

\* What the invariant means for a sale.
LEMMA AttributionInvImplies ==
    AttributionInv => OneCommissionPerSale /\ NoDoubleBonus /\ RecordedWholeUnlessCut
  <1> SUFFICES ASSUME AttributionInv
               PROVE  OneCommissionPerSale /\ NoDoubleBonus
    BY DEF AttributionInv
  <1>1. OneCommissionPerSale
    BY ReferrerIsAnother DEF AttributionInv, RowsInOrder, OneCommissionPerSale
  <1>2. \A p \in Payments : reward[p] <= 1
    <2> TAKE p \in Payments
    <2>1. attribution[p] \in Nat /\ commission[p] \in Nat /\ reward[p] \in Nat
      BY DEF AttributionInv, AttributionTypeOK
    <2>2. attribution[p] <= 1 /\ commission[p] <= attribution[p] /\ reward[p] <= commission[p]
      BY DEF AttributionInv, RowsInOrder
    <2> QED BY <2>1, <2>2
  <1>3. NoDoubleBonus
    BY <1>2 DEF AttributionInv, RowsInOrder, NoDoubleBonus
  <1> QED BY <1>1, <1>3

\* However many handlers record a sale, it earns at most one commission, and none
\* for its own buyer.
THEOREM CommissionEarnedOnce == AttributionSpec => []OneCommissionPerSale
  BY AttributionInvariant, AttributionInvImplies, PTL

\* No role is awarded twice for a sale.
THEOREM BonusAwardedOnce == AttributionSpec => []NoDoubleBonus
  BY AttributionInvariant, AttributionInvImplies, PTL

\* A recorded sale lacks nothing unless an error cut the call that recorded it.
THEOREM SaleRecordedWhole == AttributionSpec => []RecordedWholeUnlessCut
  BY AttributionInvariant, AttributionInvImplies, PTL

-----------------------------------------------------------------------------
(***************************************************************************)
(* Settlement.  The inductive invariant adds to its properties what a      *)
(* request knows at each of its pcs.  What it knows only ever becomes true *)
(* once (a payment is confirmed, an item is held, a sale is released), so  *)
(* no step of another request can take it away; the status is the          *)
(* exception, and nothing rests on it after it is written.                 *)
(***************************************************************************)
RequestKnows(h) ==
    LET pc == request[h].pc
        p == request[h].p IN
    /\ pc # "idle" => p \in Payments
    /\ pc \notin {"idle", "fail"} => p \in confirmed
    /\ pc = "activate" => p \in Purchases
    /\ pc \in {"fulfill", "grant"} => p \in Orders
    /\ pc = "ship" => p \in HardCopies
    /\ pc \in {"payoutSeen", "payout"} => p \in Tenanted /\ Released(p)
    /\ pc = "grant" => \A i \in Goods[p] \ request[h].todo : <<Buyer[p], i>> \in entitled
    /\ pc = "grant" => request[h].todo \subseteq Goods[p]

RequestsKnow == \A h \in Handlers : RequestKnows(h)

\* An attribution call belongs to the request that awaits it.
CallsAwaited ==
    \A h \in Handlers : call[h].pc # "idle" =>
        request[h].pc = "attribute" /\ request[h].p = call[h].p

SettlementInv ==
    /\ TypeOK
    /\ AttributionInv
    /\ RequestsKnow
    /\ CallsAwaited
    /\ AccessOnlyAfterConfirmation
    /\ PaidOrderIsComplete
    /\ PayoutOnlyForReleasedSale
    /\ WithheldOnlyIfBroken

-----------------------------------------------------------------------------
\* The shop opens with nothing sold.
LEMMA SettlementInitInv == Init => SettlementInv
  <1> SUFFICES ASSUME Init PROVE SettlementInv
    OBVIOUS
  <1>1. AttributionInv
    BY AttributionInitInv DEF Init
  <1>2. TypeOK
    BY <1>1 DEF Init, TypeOK, AttributionInv, Pcs, NoRequest, HardCopyStatuses
  <1>3. RequestsKnow /\ CallsAwaited
    BY DEF Init, AttributionInit, RequestsKnow, RequestKnows, CallsAwaited, NoRequest, NoCall
  <1>4. AccessOnlyAfterConfirmation
    BY SettlementAssumption DEF Init, AttributionInit, AccessOnlyAfterConfirmation
  <1>5. PaidOrderIsComplete /\ PayoutOnlyForReleasedSale
    BY SettlementAssumption
       DEF Init, PaidOrderIsComplete, PayoutOnlyForReleasedSale
  <1>6. WithheldOnlyIfBroken
    BY SettlementAssumption DEF Init, WithheldOnlyIfBroken, DigitalSales
  <1> QED BY <1>1, <1>2, <1>3, <1>4, <1>5, <1>6 DEF SettlementInv

\* Every step is one for the attribution tables, or leaves them alone.
LEMMA StepIsAttributionStep ==
    ASSUME SettlementInv, [Next]_vars
    PROVE  [AttributionNext]_attributionVars
  <1>1. ASSUME NEW h \in Handlers, Notify(h)
        PROVE  AttributionNext
    <2>1. request[h].p \in Payments
      BY <1>1 DEF Notify, Doing, SettlementInv, RequestsKnow, RequestKnows
    <2> QED BY <1>1, <2>1 DEF Notify, AttributionNext
  <1>2. ASSUME NEW h \in Handlers, Attribute(h) \/ AttributeThrows(h)
        PROVE  AttributionNext
    BY <1>2 DEF Attribute, AttributeThrows, AttributionNext
  <1>3. ASSUME NEW h \in Handlers, Abort(h)
        PROVE  [AttributionNext]_attributionVars
    BY <1>3 DEF Abort, AttributionNext
  <1>4. ASSUME NEW u \in Users, OtherStat(u)
        PROVE  AttributionNext
    BY <1>4 DEF AttributionNext
  <1>5. ASSUME NEW h \in Handlers,
               \/ Pay(h) \/ Activate(h) \/ Fulfill(h) \/ OrderPaid(h) \/ Ship(h)
               \/ \E i \in Items : Grant(h, i)
               \/ PayoutSeen(h) \/ CreatePayout(h) \/ PayoutThrows(h)
               \/ Finish(h) \/ Fail(h)
               \/ \E p \in Payments : MarkPaid(h, p) \/ MarkFailed(h, p)
        PROVE  UNCHANGED attributionVars
    BY <1>5 DEF Pay, Activate, Fulfill, OrderPaid, Ship, Grant, PayoutSeen, CreatePayout,
       PayoutThrows, Finish, Fail, MarkPaid, MarkFailed
  <1>6. ASSUME \/ \E p \in Purchases : CancelPurchase(p)
               \/ \E p \in HardCopies, s \in HardCopyStatuses : UpdateHardCopy(p, s)
               \/ UNCHANGED vars
        PROVE  UNCHANGED attributionVars
    BY <1>6 DEF CancelPurchase, UpdateHardCopy, vars
  <1> QED BY <1>1, <1>2, <1>3, <1>4, <1>5, <1>6 DEF Next, HandlerStep

\* The type of the requests, on its own for the steps that disturb more.
RequestsTyped ==
    request \in [Handlers -> [pc : Pcs, p : Payments \cup {NoPayment},
                              mint : BOOLEAN, todo : SUBSET Items]]

\* Continue keeps the type.
LEMMA ContinueTyped ==
    ASSUME RequestsTyped, NEW h \in Handlers, NEW pc \in Pcs, Continue(h, pc)
    PROVE  RequestsTyped'
  BY DEF RequestsTyped, Continue

\* Types, action by action.
LEMMA StepTypeOK ==
    ASSUME SettlementInv, [Next]_vars
    PROVE  TypeOK'
  <1>1. AttributionTypeOK'
    BY StepIsAttributionStep, AttributionNextInv DEF SettlementInv, AttributionInv
  <1> USE <1>1 DEF SettlementInv, TypeOK
  <1>0. RequestsTyped
    BY DEF RequestsTyped
  <1>2. ASSUME NEW h \in Handlers, NEW p \in Payments, MarkPaid(h, p) PROVE TypeOK'
    <2>1. "pay" \in Pcs /\ p \in Payments \cup {NoPayment} /\ {} \in SUBSET Items
      BY DEF Pcs
    <2>2. [pc |-> "pay", p |-> p, mint |-> receipt[p] = 0, todo |-> {}]
             \in [pc : Pcs, p : Payments \cup {NoPayment}, mint : BOOLEAN, todo : SUBSET Items]
      BY <2>1, Zenon
    <2>3. RequestsTyped'
      BY <1>0, <1>2, <2>2 DEF MarkPaid, RequestsTyped
    <2> QED BY <1>2, <2>3 DEF MarkPaid, RequestsTyped
  <1>3. ASSUME NEW h \in Handlers, NEW p \in Payments, MarkFailed(h, p) PROVE TypeOK'
    BY <1>3 DEF MarkFailed, Pcs
  <1>4. ASSUME NEW h \in Handlers, Pay(h) PROVE TypeOK'
    <2>1. RequestsTyped'
      BY <1>0, <1>4, ContinueTyped DEF Pay, Pcs
    <2>2. request[h].p \in Payments
      BY <1>4 DEF Pay, Doing, RequestsKnow, RequestKnows
    <2>3. receipt' \in [Payments -> Nat]
      BY <1>4, <2>2 DEF Pay
    <2> QED BY <1>4, <2>1, <2>3 DEF Pay, RequestsTyped
  <1>5. ASSUME NEW h \in Handlers, Activate(h) PROVE TypeOK'
    <2>1. RequestsTyped'
      BY <1>0, <1>5, ContinueTyped DEF Activate, AfterRelease, Pcs
    <2> QED BY <1>5, <2>1 DEF Activate, RequestsTyped
  <1>6. ASSUME NEW h \in Handlers, Fulfill(h) PROVE TypeOK'
    <2>1. request[h].p \in Orders
      BY <1>6 DEF Fulfill, Doing, RequestsKnow, RequestKnows
    <2>2. Goods[request[h].p] \subseteq Items
      BY <2>1, SettlementAssumption
    <2> QED BY <1>6, <2>2 DEF Fulfill, Continue, Pcs
  <1>7. ASSUME NEW h \in Handlers, NEW i \in Items, Grant(h, i) PROVE TypeOK'
    <2>1. Buyer[request[h].p] \in Users
      BY <1>7, AttributionAssumption DEF Grant, Doing, RequestsKnow, RequestKnows
    <2> QED BY <1>7, <2>1 DEF Grant, Pcs
  <1>8. ASSUME NEW h \in Handlers, OrderPaid(h) PROVE TypeOK'
    <2>1. RequestsTyped'
      BY <1>0, <1>8, ContinueTyped DEF OrderPaid, AfterRelease, Pcs
    <2> QED BY <1>8, <2>1 DEF OrderPaid, RequestsTyped
  <1>9. ASSUME NEW h \in Handlers, Ship(h) PROVE TypeOK'
    BY <1>9 DEF Ship, Continue, Pcs, HardCopyStatuses
  <1>10. ASSUME NEW h \in Handlers, PayoutSeen(h) \/ PayoutThrows(h) PROVE TypeOK'
    BY <1>10 DEF PayoutSeen, PayoutThrows, Continue, Pcs
  <1>11. ASSUME NEW h \in Handlers, CreatePayout(h) PROVE TypeOK'
    <2>1. RequestsTyped'
      BY <1>0, <1>11, ContinueTyped DEF CreatePayout, Pcs
    <2>2. request[h].p \in Payments
      BY <1>11 DEF CreatePayout, Doing, RequestsKnow, RequestKnows
    <2>3. payouts' \in [Payments -> Nat]
      BY <1>11, <2>2 DEF CreatePayout
    <2> QED BY <1>11, <2>1, <2>3 DEF CreatePayout, RequestsTyped
  <1>12. ASSUME NEW h \in Handlers, Notify(h) PROVE TypeOK'
    BY <1>12 DEF Notify, Continue, Pcs
  <1>13. ASSUME NEW h \in Handlers, Attribute(h) \/ AttributeThrows(h) PROVE TypeOK'
    BY <1>13 DEF Attribute, AttributeThrows, settlementVars
  <1>14. ASSUME NEW h \in Handlers, Finish(h) PROVE TypeOK'
    BY <1>14 DEF Finish, NoRequest, Pcs
  <1>15. ASSUME NEW h \in Handlers, Fail(h) PROVE TypeOK'
    BY <1>15 DEF Fail, NoRequest, Pcs
  <1>16. ASSUME NEW h \in Handlers, Abort(h) PROVE TypeOK'
    <2>1. broken' \subseteq Payments
      BY <1>16 DEF Abort, Releasing, RequestsKnow, RequestKnows
    <2> QED BY <1>16, <2>1 DEF Abort, NoRequest, Pcs
  <1>17. ASSUME NEW p \in Purchases, CancelPurchase(p) PROVE TypeOK'
    BY <1>17 DEF CancelPurchase
  <1>18. ASSUME NEW p \in HardCopies, NEW s \in HardCopyStatuses, UpdateHardCopy(p, s)
         PROVE  TypeOK'
    BY <1>18 DEF UpdateHardCopy
  <1>19. ASSUME UNCHANGED settlementVars PROVE TypeOK'
    BY <1>19 DEF settlementVars
  <1> QED BY <1>2, <1>3, <1>4, <1>5, <1>6, <1>7, <1>8, <1>9, <1>10, <1>11, <1>12, <1>13,
          <1>14, <1>15, <1>16, <1>17, <1>18, <1>19 DEF Next, HandlerStep, vars

\* What is confirmed, held or released stays so.
LEMMA StepIsMonotone ==
    ASSUME SettlementInv, [Next]_vars
    PROVE  /\ confirmed \subseteq confirmed'
           /\ entitled \subseteq entitled'
           /\ \A p \in DigitalSales : Released(p) => Released(p)'
  <1> USE DEF Released
  <1>1. ASSUME NEW h \in Handlers, Activate(h)
        PROVE  \A p \in DigitalSales : Released(p) => Released(p)'
    BY <1>1 DEF Activate, SettlementInv, TypeOK
  <1>2. ASSUME NEW h \in Handlers, OrderPaid(h)
        PROVE  \A p \in DigitalSales : Released(p) => Released(p)'
    BY <1>2 DEF OrderPaid, SettlementInv, TypeOK, DigitalSales
  <1>3. ASSUME NEW q \in Purchases, CancelPurchase(q)
        PROVE  \A p \in DigitalSales : Released(p) => Released(p)'
    BY <1>3 DEF CancelPurchase, SettlementInv, TypeOK
  <1>4. ASSUME UNCHANGED <<purchase, order>>
        PROVE  \A p \in DigitalSales : Released(p) => Released(p)'
    BY <1>4
  <1> QED BY <1>1, <1>2, <1>3, <1>4 DEF Next, HandlerStep, vars, settlementVars,
       MarkPaid, MarkFailed, Pay, Activate, Fulfill, Grant, OrderPaid, Ship, PayoutSeen,
       CreatePayout, PayoutThrows, Notify, Attribute, AttributeThrows, Finish, Fail, Abort,
       CancelPurchase, UpdateHardCopy

\* A request that does not move goes on knowing what it knows.
LEMMA StandingRequestKnows ==
    ASSUME SettlementInv, [Next]_vars, NEW g \in Handlers, request'[g] = request[g]
    PROVE  RequestKnows(g)'
  <1>1. RequestKnows(g)
    BY DEF SettlementInv, RequestsKnow
  <1>2. Tenanted \subseteq DigitalSales
    BY SettlementAssumption DEF DigitalSales
  <1> QED BY <1>1, <1>2, StepIsMonotone DEF RequestKnows

\* What Continue does to the requests.
LEMMA ContinueMovesOne ==
    ASSUME TypeOK, NEW h \in Handlers, NEW pc, Continue(h, pc)
    PROVE  /\ request'[h].pc = pc
           /\ request'[h].p = request[h].p /\ request'[h].todo = request[h].todo
           /\ \A g \in Handlers \ {h} : request'[g] = request[g]
  BY DEF Continue, TypeOK

\* What a request knows, action by action.
LEMMA StepRequestsKnow ==
    ASSUME SettlementInv, [Next]_vars
    PROVE  RequestsKnow'
  <1> USE DEF SettlementInv
  <1>1. ASSUME NEW h \in Handlers, RequestKnows(h)',
               \A g \in Handlers \ {h} : request'[g] = request[g]
        PROVE  RequestsKnow'
    BY <1>1, StandingRequestKnows DEF RequestsKnow
  <1>2. ASSUME UNCHANGED request
        PROVE  RequestsKnow'
    BY <1>2, StandingRequestKnows DEF RequestsKnow
  <1>3. ASSUME NEW h \in Handlers, request' = [request EXCEPT ![h] = NoRequest]
        PROVE  RequestsKnow'
    <2>1. request'[h].pc = "idle" /\ \A g \in Handlers \ {h} : request'[g] = request[g]
      BY <1>3 DEF NoRequest, TypeOK
    <2> QED BY <1>1, <2>1 DEF RequestKnows
  <1>4. ASSUME NEW h \in Handlers, NEW p \in Payments, MarkPaid(h, p) \/ MarkFailed(h, p)
        PROVE  RequestsKnow'
    <2>1. CASE UNCHANGED request
      BY <1>2, <2>1
    <2>2. CASE request' # request
      <3>1. /\ request'[h].p = p /\ p \in Payments
            /\ request'[h].pc \in {"pay", "fail"}
            /\ request'[h].pc = "pay" => p \in confirmed'
            /\ \A g \in Handlers \ {h} : request'[g] = request[g]
        BY <1>4, <2>2 DEF MarkPaid, MarkFailed, TypeOK
      <3> QED BY <1>1, <3>1 DEF RequestKnows
    <2> QED BY <2>1, <2>2
  <1>5. ASSUME NEW h \in Handlers, Pay(h)
        PROVE  RequestsKnow'
    <2> DEFINE p == request[h].p
    <2>1. p \in Payments /\ p \in confirmed'
      BY <1>5, StepIsMonotone DEF Pay, Doing, RequestsKnow, RequestKnows
    <2>2. /\ request'[h].p = p
          /\ \A g \in Handlers \ {h} : request'[g] = request[g]
          /\ request'[h].pc = IF p \in Purchases THEN "activate"
                              ELSE IF p \in Orders THEN "fulfill" ELSE "ship"
      BY <1>5, ContinueMovesOne, SettlementAssumption DEF Pay
    <2>3. p \in Purchases \cup Orders \cup HardCopies
      BY <2>1, SettlementAssumption
    <2> QED BY <1>1, <2>1, <2>2, <2>3 DEF RequestKnows
  <1>6. ASSUME NEW h \in Handlers, Activate(h) \/ OrderPaid(h)
        PROVE  RequestsKnow'
    <2>1. PICK p \in Payments : p = request[h].p
      BY <1>6 DEF Activate, OrderPaid, Doing, RequestsKnow, RequestKnows
    <2>2. /\ p \in confirmed'
          /\ Activate(h) => p \in Purchases
          /\ OrderPaid(h) => p \in Orders
      BY <1>6, <2>1, StepIsMonotone DEF Activate, OrderPaid, Doing, RequestsKnow, RequestKnows
    <2>3. Released(p)'
      BY <1>6, <2>1, <2>2, SettlementAssumption DEF Activate, OrderPaid, Released, TypeOK
    <2>4. /\ request'[h].pc = AfterRelease(p) /\ request'[h].p = p
          /\ \A g \in Handlers \ {h} : request'[g] = request[g]
      BY <1>6, <2>1, ContinueMovesOne DEF Activate, OrderPaid
    <2> QED BY <1>1, <2>2, <2>3, <2>4 DEF RequestKnows, AfterRelease
  <1>7. ASSUME NEW h \in Handlers, Fulfill(h)
        PROVE  RequestsKnow'
    <2> DEFINE p == request[h].p
    <2>1. p \in Orders /\ p \in Payments /\ p \in confirmed'
      BY <1>7, StepIsMonotone DEF Fulfill, Doing, RequestsKnow, RequestKnows
    <2>2. /\ request'[h].p = p
          /\ \A g \in Handlers \ {h} : request'[g] = request[g]
          /\ \/ request'[h].pc = "notify"
             \/ request'[h].pc = "grant" /\ request'[h].todo = Goods[p]
      BY <1>7, ContinueMovesOne DEF Fulfill, TypeOK
    <2> QED BY <1>1, <2>1, <2>2 DEF RequestKnows
  <1>8. ASSUME NEW h \in Handlers, NEW i \in Items, Grant(h, i)
        PROVE  RequestsKnow'
    <2> DEFINE p == request[h].p
    <2>1. RequestKnows(h) /\ request[h].pc = "grant" /\ p \in confirmed'
      BY <1>8, StepIsMonotone DEF Grant, Doing, RequestsKnow, RequestKnows
    <2>2. /\ request'[h].p = p /\ request'[h].pc = "grant"
          /\ request'[h].todo = request[h].todo \ {i}
          /\ \A g \in Handlers \ {h} : request'[g] = request[g]
      BY <1>8, <2>1 DEF Grant, TypeOK
    <2>3. entitled' = entitled \cup {<<Buyer[p], i>>}
      BY <1>8 DEF Grant
    <2> QED BY <1>1, <2>1, <2>2, <2>3 DEF RequestKnows
  <1>9. ASSUME NEW h \in Handlers,
               Ship(h) \/ PayoutSeen(h) \/ CreatePayout(h) \/ PayoutThrows(h) \/ Notify(h)
        PROVE  RequestsKnow'
    <2>1. /\ request[h].pc \notin {"idle", "fail"}
          /\ request'[h].pc \in {"notify", "payout", "attribute"}
          /\ request'[h].pc = "payout" => request[h].pc = "payoutSeen"
          /\ request'[h].p = request[h].p
          /\ \A g \in Handlers \ {h} : request'[g] = request[g]
      BY <1>9, ContinueMovesOne
         DEF Ship, PayoutSeen, CreatePayout, PayoutThrows, Notify, Doing
    <2>2. RequestKnows(h) /\ confirmed \subseteq confirmed'
      BY StepIsMonotone DEF RequestsKnow
    <2>3. request'[h].pc = "payout" => Released(request[h].p)'
      BY <1>9, <2>1, <2>2, StepIsMonotone, SettlementAssumption DEF RequestKnows, DigitalSales
    <2> QED BY <1>1, <2>1, <2>2, <2>3 DEF RequestKnows
  <1>10. ASSUME NEW h \in Handlers, Finish(h) \/ Fail(h) \/ Abort(h)
         PROVE  RequestsKnow'
    BY <1>10, <1>3 DEF Finish, Fail, Abort
  <1>11. ASSUME \/ \E h \in Handlers : Attribute(h) \/ AttributeThrows(h)
                \/ \E p \in Purchases : CancelPurchase(p)
                \/ \E p \in HardCopies, s \in HardCopyStatuses : UpdateHardCopy(p, s)
                \/ UNCHANGED settlementVars
         PROVE  RequestsKnow'
    BY <1>11, <1>2 DEF Attribute, AttributeThrows, CancelPurchase, UpdateHardCopy, settlementVars
  <1> QED BY <1>4, <1>5, <1>6, <1>7, <1>8, <1>9, <1>10, <1>11 DEF Next, HandlerStep, vars

\* A call is made and awaited by one request.
LEMMA StepCallsAwaited ==
    ASSUME SettlementInv, [Next]_vars
    PROVE  CallsAwaited'
  <1> USE DEF SettlementInv, CallsAwaited
  <1>1. ASSUME NEW h \in Handlers, UNCHANGED call, request[h].pc # "attribute" \/ At(h, "idle"),
               \A g \in Handlers \ {h} : request'[g] = request[g]
        PROVE  CallsAwaited'
    BY <1>1 DEF At
  <1>2. ASSUME NEW h \in Handlers,
               \/ Pay(h) \/ Activate(h) \/ OrderPaid(h) \/ Ship(h) \/ Fulfill(h)
               \/ PayoutSeen(h) \/ CreatePayout(h) \/ PayoutThrows(h)
        PROVE  CallsAwaited'
    <2>1. UNCHANGED call /\ request[h].pc # "attribute"
      BY <1>2 DEF Pay, Activate, OrderPaid, Ship, Fulfill, PayoutSeen, CreatePayout,
         PayoutThrows, Doing, attributionVars
    <2>2. \A g \in Handlers \ {h} : request'[g] = request[g]
      BY <1>2, ContinueMovesOne DEF Pay, Activate, OrderPaid, Ship, Fulfill, PayoutSeen,
         CreatePayout, PayoutThrows, TypeOK
    <2> QED BY <1>1, <2>1, <2>2
  <1>3. ASSUME NEW h \in Handlers,
               \/ \E i \in Items : Grant(h, i)
               \/ \E p \in Payments : MarkPaid(h, p) \/ MarkFailed(h, p)
               \/ Finish(h) \/ Fail(h)
        PROVE  CallsAwaited'
    <2>1. UNCHANGED call /\ (request[h].pc # "attribute" \/ At(h, "idle"))
      BY <1>3 DEF Grant, MarkPaid, MarkFailed, Finish, Fail, Doing, attributionVars
    <2>2. \A g \in Handlers \ {h} : request'[g] = request[g]
      BY <1>3 DEF Grant, MarkPaid, MarkFailed, Finish, Fail, TypeOK
    <2> QED BY <1>1, <2>1, <2>2
  <1>4. ASSUME NEW h \in Handlers, Notify(h)
        PROVE  CallsAwaited'
    <2>1. /\ request'[h].pc = "attribute" /\ request'[h].p = request[h].p
          /\ \A g \in Handlers \ {h} : request'[g] = request[g]
      BY <1>4, ContinueMovesOne DEF Notify
    <2>2. /\ call'[h].p = request[h].p
          /\ \A g \in Handlers \ {h} : call'[g] = call[g]
      BY <1>4 DEF Notify, StartCall, TypeOK, AttributionTypeOK
    <2> QED BY <2>1, <2>2
  <1>5. ASSUME NEW h \in Handlers, Attribute(h) \/ AttributeThrows(h)
        PROVE  CallsAwaited'
    <2>1. UNCHANGED request /\ call[h].pc # "idle"
      BY <1>5 DEF Attribute, AttributeThrows, settlementVars, CallStep, CallThrows, At,
         SeenBefore, CreateAttribution, CreateCommission, RewardSeen, CreateReward, FindStat,
         CreateStat, Award
    <2>2. /\ call'[h].pc # "idle" => call'[h].p = call[h].p
          /\ \A g \in Handlers \ {h} : call'[g] = call[g]
      BY <1>5 DEF Attribute, AttributeThrows, CallStep, CallThrows, Goto, Return, NoCall,
         SeenBefore, CreateAttribution, CreateCommission, RewardSeen, CreateReward, FindStat,
         CreateStat, Award, TypeOK, AttributionTypeOK
    <2> QED BY <2>1, <2>2
  <1>6. ASSUME NEW h \in Handlers, Abort(h)
        PROVE  CallsAwaited'
    <2>1. \A g \in Handlers \ {h} : request'[g] = request[g]
      BY <1>6 DEF Abort, TypeOK
    <2>2. call'[h].pc = "idle" /\ \A g \in Handlers \ {h} : call'[g] = call[g]
      BY <1>6 DEF Abort, At, attributionVars, CallThrows, Return, NoCall, TypeOK, AttributionTypeOK
    <2> QED BY <2>1, <2>2
  <1>7. ASSUME UNCHANGED <<request, call>>
        PROVE  CallsAwaited'
    BY <1>7
  <1> QED BY <1>2, <1>3, <1>4, <1>5, <1>6, <1>7
       DEF Next, HandlerStep, vars, settlementVars, attributionVars, CancelPurchase,
           UpdateHardCopy, OtherStat

\* Nothing comes before the confirmation: what makes a purchase ACTIVE, hands an
\* item over or records a sale is a request that knows its payment is confirmed.
LEMMA StepAccess ==
    ASSUME SettlementInv, [Next]_vars
    PROVE  AccessOnlyAfterConfirmation'
  <1> USE DEF SettlementInv
  <1>1. \A p \in Purchases : purchase'[p] = "ACTIVE" => p \in confirmed'
    <2>1. ASSUME NEW h \in Handlers, Activate(h), NEW p \in Purchases, purchase'[p] = "ACTIVE"
          PROVE  p \in confirmed'
      <3>1. request[h].p \in confirmed
        BY <2>1 DEF Activate, Doing, RequestsKnow, RequestKnows
      <3>2. p = request[h].p \/ purchase[p] = "ACTIVE"
        BY <2>1 DEF Activate, TypeOK
      <3> QED BY <3>1, <3>2, StepIsMonotone DEF AccessOnlyAfterConfirmation
    <2>2. ASSUME NEW q \in Purchases, CancelPurchase(q),
                 NEW p \in Purchases, purchase'[p] = "ACTIVE"
          PROVE  p \in confirmed'
      <3>1. purchase[p] = "ACTIVE"
        BY <2>2 DEF CancelPurchase, TypeOK
      <3> QED BY <3>1, StepIsMonotone DEF AccessOnlyAfterConfirmation
    <2>3. ASSUME UNCHANGED purchase, NEW p \in Purchases, purchase'[p] = "ACTIVE"
          PROVE  p \in confirmed'
      BY <2>3, StepIsMonotone DEF AccessOnlyAfterConfirmation
    <2>4. UNCHANGED purchase \/ (\E h \in Handlers : Activate(h))
          \/ (\E q \in Purchases : CancelPurchase(q))
      BY DEF Next, HandlerStep, vars, settlementVars, MarkPaid, MarkFailed, Pay, Fulfill,
         Grant, OrderPaid, Ship, PayoutSeen, CreatePayout, PayoutThrows, Notify, Attribute,
         AttributeThrows, Finish, Fail, Abort, UpdateHardCopy
    <2> QED BY <2>1, <2>2, <2>3, <2>4
  <1>2. \A x \in entitled' :
           \E o \in Orders \cap confirmed' : x[1] = Buyer[o] /\ x[2] \in Goods[o]
    <2>1. ASSUME NEW h \in Handlers, NEW i \in Items, Grant(h, i), NEW x \in entitled' \ entitled
          PROVE  \E o \in Orders \cap confirmed' : x[1] = Buyer[o] /\ x[2] \in Goods[o]
      <3>1. x = <<Buyer[request[h].p], i>>
        BY <2>1 DEF Grant
      <3>2. request[h].p \in Orders \cap confirmed' /\ i \in Goods[request[h].p]
        BY <2>1, StepIsMonotone DEF Grant, Doing, RequestsKnow, RequestKnows
      <3> QED BY <3>1, <3>2
    <2>2. UNCHANGED entitled \/ \E h \in Handlers, i \in Items : Grant(h, i)
      BY DEF Next, HandlerStep, vars, settlementVars, MarkPaid, MarkFailed, Pay, Fulfill,
         Activate, OrderPaid, Ship, PayoutSeen, CreatePayout, PayoutThrows, Notify, Attribute,
         AttributeThrows, Finish, Fail, Abort, CancelPurchase, UpdateHardCopy
    <2> QED BY <2>1, <2>2, StepIsMonotone DEF AccessOnlyAfterConfirmation
  <1>3. \A p \in Payments : attribution'[p] > 0 => p \in confirmed'
    <2>1. ASSUME NEW h \in Handlers, CreateAttribution(h), NEW p \in Payments,
                 attribution'[p] > 0
          PROVE  p \in confirmed'
      <3>1. call[h].p \in confirmed
        BY <2>1 DEF CreateAttribution, At, CallsAwaited, RequestsKnow, RequestKnows
      <3>2. p = call[h].p \/ attribution'[p] = attribution[p]
        BY <2>1 DEF CreateAttribution, AttributionInv, AttributionTypeOK
      <3> QED BY <2>1, <3>1, <3>2, StepIsMonotone DEF AccessOnlyAfterConfirmation
    <2>2. UNCHANGED attribution \/ \E h \in Handlers : CreateAttribution(h)
      BY StepIsAttributionStep DEF AttributionNext, attributionVars, StartCall, CallStep,
         CallThrows, OtherStat, SeenBefore, CreateCommission, RewardSeen, CreateReward,
         FindStat, CreateStat, Award
    <2> QED BY <2>1, <2>2, StepIsMonotone DEF AccessOnlyAfterConfirmation
  <1> QED BY <1>1, <1>2, <1>3 DEF AccessOnlyAfterConfirmation

\* Only OrderPaid makes an order PAID, when its request has granted everything.
LEMMA StepComplete ==
    ASSUME SettlementInv, [Next]_vars
    PROVE  PaidOrderIsComplete'
  <1> USE DEF SettlementInv, PaidOrderIsComplete
  <1>1. ASSUME NEW h \in Handlers, OrderPaid(h), NEW o \in Orders, order'[o] = "PAID",
               NEW i \in Goods[o]
        PROVE  <<Buyer[o], i>> \in entitled'
    <2>1. o = request[h].p \/ order[o] = "PAID"
      BY <1>1 DEF OrderPaid, TypeOK
    <2>2. o = request[h].p => <<Buyer[o], i>> \in entitled
      BY <1>1 DEF OrderPaid, Doing, RequestsKnow, RequestKnows
    <2> QED BY <1>1, <2>1, <2>2, StepIsMonotone
  <1>2. UNCHANGED order \/ \E h \in Handlers : OrderPaid(h)
    BY DEF Next, HandlerStep, vars, settlementVars, MarkPaid, MarkFailed, Pay, Fulfill,
       Activate, Grant, Ship, PayoutSeen, CreatePayout, PayoutThrows, Notify, Attribute,
       AttributeThrows, Finish, Fail, Abort, CancelPurchase, UpdateHardCopy
  <1> QED BY <1>1, <1>2, StepIsMonotone

\* A payout is created by a request that knows the sale is released.
LEMMA StepPayout ==
    ASSUME SettlementInv, [Next]_vars
    PROVE  PayoutOnlyForReleasedSale'
  <1> USE DEF SettlementInv, PayoutOnlyForReleasedSale
  <1> SUFFICES ASSUME NEW p \in Payments, payouts'[p] > 0
               PROVE  p \in Tenanted /\ Released(p)'
    OBVIOUS
  <1>1. ASSUME p \in Tenanted, Released(p) PROVE Released(p)'
    BY <1>1, StepIsMonotone, SettlementAssumption DEF DigitalSales
  <1>2. ASSUME NEW h \in Handlers, CreatePayout(h)
        PROVE  p \in Tenanted /\ Released(p)
    <2>1. p = request[h].p \/ payouts'[p] = payouts[p]
      BY <1>2 DEF CreatePayout, TypeOK
    <2>2. request[h].p \in Tenanted /\ Released(request[h].p)
      BY <1>2 DEF CreatePayout, Doing, RequestsKnow, RequestKnows
    <2> QED BY <2>1, <2>2
  <1>3. UNCHANGED payouts \/ \E h \in Handlers : CreatePayout(h)
    BY DEF Next, HandlerStep, vars, settlementVars, MarkPaid, MarkFailed, Pay, Fulfill,
       Activate, Grant, OrderPaid, Ship, PayoutSeen, PayoutThrows, Notify, Attribute,
       AttributeThrows, Finish, Fail, Abort, CancelPurchase, UpdateHardCopy
  <1> QED BY <1>1, <1>2, <1>3

AtRelease(h, p) == request[h].p = p /\ request[h].pc \in Releasing

\* A request at the release of p either stays there, or releases p, or dies on it.
LEMMA ReleaseGoesOn ==
    ASSUME SettlementInv, [Next]_vars, NEW p \in DigitalSales,
           NEW g \in Handlers, AtRelease(g, p)
    PROVE  AtRelease(g, p)' \/ Released(p)' \/ p \in broken'
  <1> USE DEF SettlementInv
  <1>1. /\ request[g].p = p /\ p \in Payments
        /\ request[g].pc \in {"activate", "fulfill", "grant"}
        /\ request[g].pc = "activate" => p \in Purchases
        /\ request[g].pc \in {"fulfill", "grant"} => p \in Orders
    BY SettlementAssumption
       DEF AtRelease, Releasing, DigitalSales, RequestsKnow, RequestKnows
  <1>2. CASE Activate(g)
    BY <1>1, <1>2, SettlementAssumption DEF Activate, Doing, Released, TypeOK
  <1>3. CASE OrderPaid(g)
    BY <1>1, <1>3, SettlementAssumption DEF OrderPaid, Doing, Released, TypeOK
  <1>4. CASE Fulfill(g)
    <2>1. p \in Orders /\ p \notin Purchases
      BY <1>1, <1>4, SettlementAssumption DEF Fulfill, Doing
    <2>2. CASE order[p] = "PAID"
      BY <1>4, <2>1, <2>2 DEF Fulfill, Released
    <2>3. CASE order[p] # "PAID"
      BY <1>1, <1>4, <2>3 DEF Fulfill, AtRelease, Releasing, TypeOK
    <2> QED BY <2>2, <2>3
  <1>5. ASSUME NEW i \in Items, Grant(g, i)
        PROVE  AtRelease(g, p)'
    BY <1>1, <1>5 DEF Grant, Doing, AtRelease, Releasing, TypeOK
  <1>6. CASE Abort(g)
    BY <1>1, <1>6 DEF Abort, Releasing
  <1>7. ASSUME request'[g] = request[g]
        PROVE  AtRelease(g, p)'
    BY <1>7 DEF AtRelease
  <1>8. ASSUME NEW h \in Handlers, h # g,
               HandlerStep(h) \/ PayoutThrows(h) \/ AttributeThrows(h) \/ Abort(h)
               \/ \E q \in Payments : MarkPaid(h, q) \/ MarkFailed(h, q)
        PROVE  request'[g] = request[g]
    BY <1>8, ContinueMovesOne
       DEF HandlerStep, MarkPaid, MarkFailed, Pay, Activate, Fulfill, Grant, OrderPaid, Ship,
           PayoutSeen, CreatePayout, PayoutThrows, Notify, Attribute, AttributeThrows, Finish,
           Fail, Abort, settlementVars, TypeOK
  <1>9. ASSUME HandlerStep(g) \/ PayoutThrows(g) \/ AttributeThrows(g)
               \/ \E q \in Payments : MarkPaid(g, q) \/ MarkFailed(g, q)
        PROVE  \/ Activate(g) \/ Fulfill(g) \/ OrderPaid(g) \/ \E i \in Items : Grant(g, i)
               \/ request'[g] = request[g]
    BY <1>1, <1>9
       DEF HandlerStep, MarkPaid, MarkFailed, Pay, Ship, PayoutSeen, CreatePayout,
           PayoutThrows, Notify, Attribute, AttributeThrows, Finish, Fail, Doing, settlementVars
  <1>10. ASSUME \/ \E q \in Purchases : CancelPurchase(q)
                \/ \E q \in HardCopies, s \in HardCopyStatuses : UpdateHardCopy(q, s)
                \/ UNCHANGED settlementVars
         PROVE  request'[g] = request[g]
    BY <1>10 DEF CancelPurchase, UpdateHardCopy, settlementVars
  <1> QED BY <1>2, <1>3, <1>4, <1>5, <1>6, <1>7, <1>8, <1>9, <1>10 DEF Next, vars

\* A PAID payment whose goods are withheld was just marked by a request that is
\* now at their release, or was so before the step.
LEMMA StepWithheld ==
    ASSUME SettlementInv, [Next]_vars
    PROVE  WithheldOnlyIfBroken'
  <1> USE DEF SettlementInv
  <1> SUFFICES ASSUME NEW p \in DigitalSales, status'[p] = "PAID", ~ Released(p)'
               PROVE  p \in broken' \/ \E h \in Handlers : AtRelease(h, p)'
    BY DEF WithheldOnlyIfBroken, AtRelease, DigitalSales
  <1>1. broken \subseteq broken'
    BY DEF Next, HandlerStep, vars, settlementVars, MarkPaid, MarkFailed, Pay, Activate,
       Fulfill, Grant, OrderPaid, Ship, PayoutSeen, CreatePayout, PayoutThrows, Notify,
       Attribute, AttributeThrows, Finish, Fail, Abort, CancelPurchase, UpdateHardCopy
  <1>2. CASE status[p] = "PAID"
    <2>1. ~ Released(p)
      BY StepIsMonotone
    <2>2. p \in broken \/ \E h \in Handlers : AtRelease(h, p)
      BY <1>2, <2>1 DEF WithheldOnlyIfBroken, AtRelease
    <2> QED BY <1>1, <2>2, ReleaseGoesOn
  <1>3. CASE status[p] # "PAID"
    <2>1. PICK h \in Handlers : Pay(h) /\ request[h].p = p
      <3>1. (\E h \in Handlers : Pay(h)) \/ (\E h \in Handlers : Fail(h)) \/ UNCHANGED status
        BY DEF Next, HandlerStep, vars, settlementVars, MarkPaid, MarkFailed, Activate,
           Fulfill, Grant, OrderPaid, Ship, PayoutSeen, CreatePayout, PayoutThrows, Notify,
           Attribute, AttributeThrows, Finish, Abort, CancelPurchase, UpdateHardCopy
      <3>2. p \in Payments
        BY SettlementAssumption DEF DigitalSales
      <3> QED BY <1>3, <3>1, <3>2 DEF Pay, Fail, TypeOK
    <2>2. request'[h].p = p /\ request'[h].pc \in {"activate", "fulfill"}
      BY <2>1, ContinueMovesOne, SettlementAssumption DEF Pay, DigitalSales
    <2> QED BY <2>2 DEF AtRelease, Releasing
  <1> QED BY <1>2, <1>3

\* Every step keeps the invariant.
LEMMA SettlementNextInv ==
    ASSUME SettlementInv, [Next]_vars
    PROVE  SettlementInv'
  <1>1. AttributionInv'
    BY StepIsAttributionStep, AttributionNextInv DEF SettlementInv
  <1> QED BY <1>1, StepTypeOK, StepRequestsKnow, StepCallsAwaited, StepAccess, StepComplete,
          StepPayout, StepWithheld DEF SettlementInv

-----------------------------------------------------------------------------
\* The invariant holds throughout.
THEOREM SettlementInvariant == Spec => []SettlementInv
  <1>1. SettlementInv /\ [Next]_vars => SettlementInv'
    BY SettlementNextInv
  <1> QED BY SettlementInitInv, <1>1, PTL DEF Spec

\* Every variable keeps its type.
THEOREM TypeCorrect == Spec => []TypeOK
  <1>1. SettlementInv => TypeOK
    BY DEF SettlementInv
  <1> QED BY SettlementInvariant, <1>1, PTL

\* Nothing is given away before its payment is confirmed.
THEOREM NothingGivenAway == Spec => []AccessOnlyAfterConfirmation
  <1>1. SettlementInv => AccessOnlyAfterConfirmation
    BY DEF SettlementInv
  <1> QED BY SettlementInvariant, <1>1, PTL

\* An order marked PAID has granted all it pays for.
THEOREM PaidOrdersAreComplete == Spec => []PaidOrderIsComplete
  <1>1. SettlementInv => PaidOrderIsComplete
    BY DEF SettlementInv
  <1> QED BY SettlementInvariant, <1>1, PTL

\* Revenue is split only for released sales.
THEOREM PayoutsAreForReleasedSales == Spec => []PayoutOnlyForReleasedSale
  <1>1. SettlementInv => PayoutOnlyForReleasedSale
    BY DEF SettlementInv
  <1> QED BY SettlementInvariant, <1>1, PTL

\* Goods of a PAID payment are withheld only when a request died on their release.
THEOREM GoodsWithheldOnlyIfBroken == Spec => []WithheldOnlyIfBroken
  <1>1. SettlementInv => WithheldOnlyIfBroken
    BY DEF SettlementInv
  <1> QED BY SettlementInvariant, <1>1, PTL

\* Settling records sales as Attribution does, so what is proved of it carries over.
THEOREM SettlementAttributes == Spec => AttributionSpec
  <1>1. Init => AttributionInit
    BY DEF Init
  <1>2. SettlementInv /\ [Next]_vars => [AttributionNext]_attributionVars
    BY StepIsAttributionStep
  <1> QED BY SettlementInvariant, <1>1, <1>2, PTL DEF Spec, AttributionSpec

\* A settled sale earns at most one commission, however often it is delivered.
THEOREM SettledCommissionOnce == Spec => []OneCommissionPerSale
  BY SettlementAttributes, CommissionEarnedOnce, PTL

\* A settled sale awards no role twice.
THEOREM SettledBonusOnce == Spec => []NoDoubleBonus
  BY SettlementAttributes, BonusAwardedOnce, PTL

\* A settled sale is recorded whole unless an error cut the recording.
THEOREM SettledSaleRecordedWhole == Spec => []RecordedWholeUnlessCut
  BY SettlementAttributes, SaleRecordedWhole, PTL

-----------------------------------------------------------------------------
\* Each step of the code is a step of the promise, or none.
LEMMA StepKeepsPromise ==
    ASSUME SettlementInv, [Next]_vars
    PROVE  [Promise!Next]_(Promise!vars)
  <1> USE DEF SettlementInv
  <1>1. ASSUME UNCHANGED <<purchase, order>> PROVE UNCHANGED sale
    BY <1>1 DEF sale
  <1>2. ASSUME UNCHANGED commission PROVE UNCHANGED earned
    BY <1>2 DEF earned
  <1>3. ASSUME UNCHANGED <<confirmed, entitled, purchase, order, commission>>
        PROVE  UNCHANGED Promise!vars
    BY <1>1, <1>2, <1>3 DEF Promise!vars
  <1>4. ASSUME NEW h \in Handlers, NEW p \in Payments, MarkPaid(h, p)
        PROVE  Promise!Confirm(p)
    BY <1>1, <1>2, <1>4 DEF MarkPaid, attributionVars, Promise!Confirm
  <1>5. ASSUME NEW h \in Handlers, NEW i \in Items, Grant(h, i)
        PROVE  Promise!Next
    <2>1. /\ request[h].p \in Orders /\ request[h].p \in confirmed
          /\ i \in Goods[request[h].p]
      BY <1>5 DEF Grant, Doing, RequestsKnow, RequestKnows
    <2>2. Promise!Entitle(request[h].p, i)
      BY <1>1, <1>2, <1>5, <2>1 DEF Grant, attributionVars, Promise!Entitle
    <2> QED BY <2>1, <2>2 DEF Promise!Next
  <1>6. ASSUME NEW h \in Handlers, Activate(h) \/ OrderPaid(h)
        PROVE  Promise!Next
    <2>1. PICK p : p = request[h].p
      OBVIOUS
    <2>2. /\ p \in DigitalSales /\ p \in confirmed
          /\ Activate(h) => p \in Purchases
          /\ OrderPaid(h) => p \in Orders
      BY <1>6, <2>1 DEF Activate, OrderPaid, Doing, DigitalSales, RequestsKnow, RequestKnows
    <2>3. Promise!Complete(p)
      BY <1>6, <2>1, <2>2, SettlementAssumption
         DEF Activate, OrderPaid, Doing, RequestsKnow, RequestKnows, Promise!Complete
    <2>4. sale' = [sale EXCEPT ![p] = "released"]
      <3>1. CASE Activate(h)
        BY <2>1, <2>2, <3>1 DEF Activate, sale, TypeOK
      <3>2. CASE OrderPaid(h)
        BY <2>1, <2>2, <3>2, SettlementAssumption DEF OrderPaid, sale, TypeOK, DigitalSales
      <3> QED BY <1>6, <3>1, <3>2
    <2>5. UNCHANGED <<confirmed, entitled, earned>>
      BY <1>2, <1>6 DEF Activate, OrderPaid, attributionVars
    <2> QED BY <2>2, <2>3, <2>4, <2>5 DEF Promise!Release, Promise!Next, DigitalSales
  <1>7. ASSUME NEW p \in Purchases, CancelPurchase(p)
        PROVE  Promise!Next
    <2>1. sale' = [sale EXCEPT ![p] = "withdrawn"]
      BY <1>7 DEF CancelPurchase, sale, TypeOK, DigitalSales
    <2>2. Promise!Withdraw(p)
      BY <1>2, <1>7, <2>1 DEF CancelPurchase, attributionVars, Promise!Withdraw
    <2> QED BY <2>2 DEF Promise!Next
  <1>8. ASSUME NEW h \in Handlers, Attribute(h)
        PROVE  [Promise!Next]_(Promise!vars)
    <2>1. CASE CreateCommission(h)
      <3>1. PICK p \in Payments : p = call[h].p /\ call[h].pc = "commission"
        BY <2>1 DEF CreateCommission, At, AttributionInv, AttributionTypeOK
      <3>2. p \in confirmed /\ Referred(p) /\ commission[p] = 0
        BY <3>1 DEF CallsAwaited, RequestsKnow, RequestKnows, AttributionInv, RowsFitOwner,
           OwnsSale
      <3>3. \A q \in Payments : commission'[q] = IF q = p THEN 1 ELSE commission[q]
        BY <2>1, <3>1, <3>2 DEF CreateCommission, AttributionInv, AttributionTypeOK
      <3>4. earned' = earned \cup {p} /\ p \notin earned
        BY <3>2, <3>3 DEF earned
      <3>5. CodeOwner[p] \notin {Buyer[p], NoUser}
        BY <3>2 DEF Referred, Referrer
      <3>6. Promise!Earn(p)
        BY <1>1, <1>8, <3>2, <3>4, <3>5 DEF Attribute, settlementVars, Promise!Earn
      <3> QED BY <3>6 DEF Promise!Next
    <2>2. CASE ~ CreateCommission(h)
      <3>1. UNCHANGED commission
        BY <1>8, <2>2 DEF Attribute, CallStep, SeenBefore, CreateAttribution, RewardSeen,
           CreateReward, FindStat, CreateStat, Award
      <3> QED BY <1>3, <1>8, <3>1 DEF Attribute, settlementVars
    <2> QED BY <2>1, <2>2
  <1>9. ASSUME NEW h \in Handlers,
               \/ \E p \in Payments : MarkFailed(h, p)
               \/ Pay(h) \/ Fulfill(h) \/ Ship(h) \/ PayoutSeen(h) \/ CreatePayout(h)
               \/ PayoutThrows(h) \/ Notify(h) \/ AttributeThrows(h) \/ Finish(h)
               \/ Fail(h) \/ Abort(h)
        PROVE  UNCHANGED Promise!vars
    BY <1>3, <1>9 DEF MarkFailed, Pay, Fulfill, Ship, PayoutSeen, CreatePayout, PayoutThrows,
       Notify, StartCall, AttributeThrows, CallThrows, Finish, Fail, Abort, settlementVars,
       attributionVars
  <1>10. ASSUME \/ \E p \in HardCopies, s \in HardCopyStatuses : UpdateHardCopy(p, s)
                \/ \E u \in Users : OtherStat(u) /\ UNCHANGED settlementVars
                \/ UNCHANGED vars
         PROVE  UNCHANGED Promise!vars
    BY <1>3, <1>10 DEF UpdateHardCopy, OtherStat, vars, settlementVars, attributionVars
  <1>11. ASSUME NEW p \in Payments, Promise!Confirm(p) PROVE Promise!Next
    BY <1>11 DEF Promise!Next
  <1> QED BY <1>4, <1>5, <1>6, <1>7, <1>8, <1>9, <1>10, <1>11 DEF Next, HandlerStep

\* Settling a payment, with its retries, races and errors, keeps the promise.
THEOREM SettlementKeepsPromise == Spec => KeepsPromise
  <1>1. Init => Promise!Init
    <2> SUFFICES ASSUME Init PROVE Promise!Init
      OBVIOUS
    <2>1. sale = [p \in Purchases \cup Orders |-> "open"]
      BY SettlementAssumption DEF Init, sale, DigitalSales
    <2>2. earned = {}
      BY DEF Init, AttributionInit, earned
    <2> QED BY <2>1, <2>2 DEF Init, Promise!Init
  <1>2. SettlementInv /\ [Next]_vars => [Promise!Next]_(Promise!vars)
    BY StepKeepsPromise
  <1> QED BY SettlementInvariant, <1>1, <1>2, PTL DEF Spec, KeepsPromise, Promise!Spec
=============================================================================
