------------------------- MODULE SettlementPromise -------------------------
(***************************************************************************)
(* What settling a payment promises, without requests, retries or errors:  *)
(* a sale is confirmed, its items are handed to the buyer, the sale counts *)
(* as released once all of them are, and a referrer other than the buyer   *)
(* earns one commission on it.  Nothing comes before the confirmation, and *)
(* items and commissions are never taken back.                             *)
(***************************************************************************)
CONSTANTS Payments, Purchases, Orders, Goods, Buyer, CodeOwner, NoUser

VARIABLES confirmed,  \* payments known to be paid
          entitled,   \* <<user, item>> pairs
          sale,       \* purchase or order -> "open", "released", "withdrawn"
          earned      \* payments a commission was earned on

vars == <<confirmed, entitled, sale, earned>>

Init ==
    /\ confirmed = {}
    /\ entitled = {}
    /\ sale = [p \in Purchases \cup Orders |-> "open"]
    /\ earned = {}

Confirm(p) ==
    /\ confirmed' = confirmed \cup {p}
    /\ UNCHANGED <<entitled, sale, earned>>

Entitle(o, i) ==
    /\ o \in confirmed
    /\ i \in Goods[o]
    /\ entitled' = entitled \cup {<<Buyer[o], i>>}
    /\ UNCHANGED <<confirmed, sale, earned>>

Complete(p) ==
    p \in Orders => \A i \in Goods[p] : <<Buyer[p], i>> \in entitled

Release(p) ==
    /\ p \in confirmed
    /\ Complete(p)
    /\ sale' = [sale EXCEPT ![p] = "released"]
    /\ UNCHANGED <<confirmed, entitled, earned>>

Withdraw(p) ==
    /\ sale' = [sale EXCEPT ![p] = "withdrawn"]
    /\ UNCHANGED <<confirmed, entitled, earned>>

Earn(p) ==
    /\ p \in confirmed \ earned
    /\ CodeOwner[p] \notin {Buyer[p], NoUser}
    /\ earned' = earned \cup {p}
    /\ UNCHANGED <<confirmed, entitled, sale>>

Next ==
    \/ \E p \in Payments : Confirm(p) \/ Earn(p)
    \/ \E o \in Orders : \E i \in Goods[o] : Entitle(o, i)
    \/ \E p \in Purchases \cup Orders : Release(p)
    \/ \E p \in Purchases : Withdraw(p)

Spec == Init /\ [][Next]_vars
=============================================================================
