----------------------------- MODULE Settlement -----------------------------
(***************************************************************************)
(* Settling a payment: PaymentsService.markPaid and markFailed with all    *)
(* they call (PurchasesService.activate, OrdersService.fulfill,            *)
(* PayoutsService.recordSale, AttributionService.recordSale), reached from *)
(* the gateway webhooks and from an admin who verifies or rejects a bank   *)
(* transfer.                                                               *)
(*                                                                         *)
(* No transaction spans these calls: each awaited query is one atomic step *)
(* on the database, and requests interleave between any two of them.  A    *)
(* request can end at any await, by a query that rejects or by a restart   *)
(* of the process (a restart is the same step taken by every request).     *)
(* Gateways deliver a notification any number of times, in any order.      *)
(*                                                                         *)
(* A payment settles exactly one row, a purchase, an order or a hard copy  *)
(* order, and each of those has one payment, so the row is named by its    *)
(* payment.  What a subscription order grants is one item here; the        *)
(* Subscription row behind it is not.  entitled is what settling grants:   *)
(* access given by hand, revoked later or run out is not settlement's.     *)
(***************************************************************************)
EXTENDS Attribution, FiniteSets

CONSTANTS Purchases,   \* payments of a consultation package
          Orders,      \* payments of a digital order
          HardCopies,  \* payments of a physical book
          Items,       \* books, courses, communities, plans
          Goods,       \* order -> the items it pays for (several: a bundle)
          Tenanted     \* rows with a tenantId and a price: their revenue is split

ASSUME SettlementAssumption ==
    /\ Payments = Purchases \cup Orders \cup HardCopies
    /\ Purchases \cap Orders = {}
    /\ Purchases \cap HardCopies = {}
    /\ Orders \cap HardCopies = {}
    /\ Goods \in [Orders -> SUBSET Items]
    /\ Tenanted \subseteq Purchases \cup Orders

VARIABLES status,     \* Payment.status
          receipt,    \* how often Payment.receiptNo has been written
          purchase,   \* Purchase.status
          order,      \* Order.status
          hardCopy,   \* HardCopyOrder.status
          entitled,   \* <<user, item>>: entitlements, enrollments, memberships
          payouts,    \* Payout rows per sale
          request,    \* what each handler is doing
          confirmed,  \* history: payments a PAID notification was received for
          broken      \* history: payments a request died on between marking
                      \* them PAID and releasing what they pay for

settlementVars == <<status, receipt, purchase, order, hardCopy, entitled,
                    payouts, request, confirmed, broken>>
vars == <<settlementVars, attributionVars>>

HardCopyStatuses == {"PENDING", "PROCESSING", "SHIPPED", "DELIVERED", "CANCELLED"}

Pcs == {"idle", "pay", "activate", "fulfill", "grant", "ship",
        "payoutSeen", "payout", "notify", "attribute", "fail"}

\* Past the status write, before the goods are released.
Releasing == {"activate", "fulfill", "grant", "ship"}

NoRequest == [pc |-> "idle", p |-> NoPayment, mint |-> FALSE, todo |-> {}]

TypeOK ==
    /\ AttributionTypeOK
    /\ status \in [Payments -> {"PENDING", "PAID", "FAILED"}]
    /\ receipt \in [Payments -> Nat]
    /\ purchase \in [Purchases -> {"PENDING", "ACTIVE", "CANCELLED"}]
    /\ order \in [Orders -> {"PENDING", "PAID"}]
    /\ hardCopy \in [HardCopies -> HardCopyStatuses]
    /\ entitled \subseteq Users \X Items
    /\ payouts \in [Payments -> Nat]
    /\ request \in [Handlers -> [pc : Pcs, p : Payments \cup {NoPayment},
                                 mint : BOOLEAN, todo : SUBSET Items]]
    /\ confirmed \subseteq Payments
    /\ broken \subseteq Payments

Init ==
    /\ AttributionInit
    /\ status = [p \in Payments |-> "PENDING"]
    /\ receipt = [p \in Payments |-> 0]
    /\ purchase = [p \in Purchases |-> "PENDING"]
    /\ order = [p \in Orders |-> "PENDING"]
    /\ hardCopy = [p \in HardCopies |-> "PENDING"]
    /\ entitled = {}
    /\ payouts = [p \in Payments |-> 0]
    /\ request = [h \in Handlers |-> NoRequest]
    /\ confirmed = {}
    /\ broken = {}

-----------------------------------------------------------------------------
Doing(h, pc) == request[h].pc = pc

Continue(h, pc) == request' = [request EXCEPT ![h].pc = pc]

\* activate and fulfill record the revenue split of a tenant's sale, then return
\* to markPaid, which notifies the buyer.
AfterRelease(p) == IF p \in Tenanted THEN "payoutSeen" ELSE "notify"

\* A PAID webhook, a verified bank transfer or the mock checkout: markPaid reads
\* the payment and returns at once if it is PAID.
MarkPaid(h, p) ==
    /\ Doing(h, "idle")
    /\ confirmed' = confirmed \cup {p}
    /\ IF status[p] = "PAID"
       THEN UNCHANGED request
       ELSE request' = [request EXCEPT ![h] =
                [pc |-> "pay", p |-> p, mint |-> receipt[p] = 0, todo |-> {}]]
    /\ UNCHANGED <<status, receipt, purchase, order, hardCopy, entitled,
                   payouts, broken, attributionVars>>

\* Mutant of Pay: the split is recorded by markPaid, before the release.
PaySplitsFirst(h) ==
    LET p == request[h].p IN
    /\ Doing(h, "pay")
    /\ status' = [status EXCEPT ![p] = "PAID"]
    /\ receipt' = [receipt EXCEPT ![p] = @ + 1]
    /\ Continue(h, AfterRelease(p))
    /\ UNCHANGED <<purchase, order, hardCopy, entitled, payouts, confirmed,
                   broken, attributionVars>>

\* The status write, with a receipt number if the payment read had none.
Pay(h) ==
    LET p == request[h].p IN
    /\ Doing(h, "pay")
    /\ status' = [status EXCEPT ![p] = "PAID"]
    /\ receipt' = IF request[h].mint THEN [receipt EXCEPT ![p] = @ + 1] ELSE receipt
    /\ Continue(h, CASE p \in Purchases -> "activate"
                     [] p \in Orders -> "fulfill"
                     [] OTHER -> "ship")
    /\ UNCHANGED <<purchase, order, hardCopy, entitled, payouts, confirmed,
                   broken, attributionVars>>

\* PurchasesService.activate: ACTIVE whatever the status was.
Activate(h) ==
    LET p == request[h].p IN
    /\ Doing(h, "activate")
    /\ purchase' = [purchase EXCEPT ![p] = "ACTIVE"]
    /\ Continue(h, AfterRelease(p))
    /\ UNCHANGED <<status, receipt, order, hardCopy, entitled, payouts,
                   confirmed, broken, attributionVars>>

\* OrdersService.fulfill: the read, and the return if the order is PAID.
Fulfill(h) ==
    LET p == request[h].p IN
    /\ Doing(h, "fulfill")
    /\ IF order[p] = "PAID"
       THEN Continue(h, "notify")
       ELSE request' = [request EXCEPT ![h].pc = "grant", ![h].todo = Goods[p]]
    /\ UNCHANGED <<status, receipt, purchase, order, hardCopy, entitled,
                   payouts, confirmed, broken, attributionVars>>

\* fulfill: one upsert; a bundle takes one for each of its books.
Grant(h, i) ==
    /\ Doing(h, "grant")
    /\ i \in request[h].todo
    /\ entitled' = entitled \cup {<<Buyer[request[h].p], i>>}
    /\ request' = [request EXCEPT ![h].todo = @ \ {i}]
    /\ UNCHANGED <<status, receipt, purchase, order, hardCopy, payouts,
                   confirmed, broken, attributionVars>>

\* Mutant of OrderPaid: the status write comes before the last grants.
OrderPaidEarly(h) ==
    LET p == request[h].p IN
    /\ Doing(h, "grant")
    /\ order' = [order EXCEPT ![p] = "PAID"]
    /\ IF request[h].todo = {} THEN Continue(h, AfterRelease(p)) ELSE UNCHANGED request
    /\ UNCHANGED <<status, receipt, purchase, hardCopy, entitled, payouts,
                   confirmed, broken, attributionVars>>

\* fulfill: the order becomes PAID once everything is granted.
OrderPaid(h) ==
    LET p == request[h].p IN
    /\ Doing(h, "grant")
    /\ request[h].todo = {}
    /\ order' = [order EXCEPT ![p] = "PAID"]
    /\ Continue(h, AfterRelease(p))
    /\ UNCHANGED <<status, receipt, purchase, hardCopy, entitled, payouts,
                   confirmed, broken, attributionVars>>

\* markPaid: the hard copy order goes to PROCESSING whatever its status was.
Ship(h) ==
    /\ Doing(h, "ship")
    /\ hardCopy' = [hardCopy EXCEPT ![request[h].p] = "PROCESSING"]
    /\ Continue(h, "notify")
    /\ UNCHANGED <<status, receipt, purchase, order, entitled, payouts,
                   confirmed, broken, attributionVars>>

\* PayoutsService.recordSale: look for a payout of this sale.
PayoutSeen(h) ==
    /\ Doing(h, "payoutSeen")
    /\ Continue(h, IF payouts[request[h].p] > 0 THEN "notify" ELSE "payout")
    /\ UNCHANGED <<status, receipt, purchase, order, hardCopy, entitled,
                   payouts, confirmed, broken, attributionVars>>

\* recordSale: create it; nothing in the schema keeps a second one out.
CreatePayout(h) ==
    /\ Doing(h, "payout")
    /\ payouts' = [payouts EXCEPT ![request[h].p] = @ + 1]
    /\ Continue(h, "notify")
    /\ UNCHANGED <<status, receipt, purchase, order, hardCopy, entitled,
                   confirmed, broken, attributionVars>>

\* recordSale logs its errors and never throws into fulfilment.
PayoutThrows(h) ==
    /\ request[h].pc \in {"payoutSeen", "payout"}
    /\ Continue(h, "notify")
    /\ UNCHANGED <<status, receipt, purchase, order, hardCopy, entitled,
                   payouts, confirmed, broken, attributionVars>>

\* The buyer is notified, then the sale is attributed.
Notify(h) ==
    /\ Doing(h, "notify")
    /\ StartCall(h, request[h].p)
    /\ Continue(h, "attribute")
    /\ UNCHANGED <<status, receipt, purchase, order, hardCopy, entitled,
                   payouts, confirmed, broken>>

\* A step of the attribution call the handler awaits.
Attribute(h) ==
    /\ CallStep(h)
    /\ UNCHANGED settlementVars

AttributeThrows(h) ==
    /\ CallThrows(h)
    /\ UNCHANGED settlementVars

\* markPaid returns.
Finish(h) ==
    /\ Doing(h, "attribute")
    /\ At(h, "idle")
    /\ request' = [request EXCEPT ![h] = NoRequest]
    /\ UNCHANGED <<status, receipt, purchase, order, hardCopy, entitled,
                   payouts, confirmed, broken, attributionVars>>

\* Mutant of MarkFailed: every notification is taken for a payment.
FailedTakenForPaid(h, p) ==
    /\ Doing(h, "idle")
    /\ status[p] # "PAID"
    /\ request' = [request EXCEPT ![h] =
            [pc |-> "pay", p |-> p, mint |-> TRUE, todo |-> {}]]
    /\ UNCHANGED <<status, receipt, purchase, order, hardCopy, entitled,
                   payouts, confirmed, broken, attributionVars>>

\* A FAILED webhook or a rejected bank transfer: markFailed reads the payment
\* and returns if it is PAID.
MarkFailed(h, p) ==
    /\ Doing(h, "idle")
    /\ status[p] # "PAID"
    /\ request' = [request EXCEPT ![h] =
            [pc |-> "fail", p |-> p, mint |-> FALSE, todo |-> {}]]
    /\ UNCHANGED <<status, receipt, purchase, order, hardCopy, entitled,
                   payouts, confirmed, broken, attributionVars>>

\* markFailed: the status write, which does not look at the status again.
Fail(h) ==
    /\ Doing(h, "fail")
    /\ status' = [status EXCEPT ![request[h].p] = "FAILED"]
    /\ request' = [request EXCEPT ![h] = NoRequest]
    /\ UNCHANGED <<receipt, purchase, order, hardCopy, entitled, payouts,
                   confirmed, broken, attributionVars>>

\* A query rejects outside the try blocks, the notification fails, or the
\* process restarts: the request is gone, with the attribution call it awaits.
Abort(h) ==
    /\ ~ Doing(h, "idle")
    /\ request' = [request EXCEPT ![h] = NoRequest]
    /\ broken' = IF request[h].pc \in Releasing
                 THEN broken \cup {request[h].p} ELSE broken
    /\ IF At(h, "idle") THEN UNCHANGED attributionVars ELSE CallThrows(h)
    /\ UNCHANGED <<status, receipt, purchase, order, hardCopy, entitled,
                   payouts, confirmed>>

\* PurchasesService.cancel and cancelForUser: CANCELLED whatever the status was.
CancelPurchase(p) ==
    /\ purchase' = [purchase EXCEPT ![p] = "CANCELLED"]
    /\ UNCHANGED <<status, receipt, order, hardCopy, entitled, payouts, request,
                   confirmed, broken, attributionVars>>

\* HardCopyService.updateStatus: any status an admin asks for.
UpdateHardCopy(p, s) ==
    /\ hardCopy' = [hardCopy EXCEPT ![p] = s]
    /\ UNCHANGED <<status, receipt, purchase, order, entitled, payouts, request,
                   confirmed, broken, attributionVars>>

HandlerStep(h) ==
    \/ Pay(h)
    \/ Activate(h)
    \/ Fulfill(h)
    \/ \E i \in Items : Grant(h, i)
    \/ OrderPaid(h)
    \/ Ship(h)
    \/ PayoutSeen(h)
    \/ CreatePayout(h)
    \/ Notify(h)
    \/ Attribute(h)
    \/ Finish(h)
    \/ Fail(h)

Next ==
    \/ \E h \in Handlers, p \in Payments : MarkPaid(h, p) \/ MarkFailed(h, p)
    \/ \E h \in Handlers :
          HandlerStep(h) \/ PayoutThrows(h) \/ AttributeThrows(h) \/ Abort(h)
    \/ \E p \in Purchases : CancelPurchase(p)
    \/ \E p \in HardCopies, s \in HardCopyStatuses : UpdateHardCopy(p, s)
    \/ \E u \in Users : OtherStat(u) /\ UNCHANGED settlementVars

Spec == Init /\ [][Next]_vars

\* An awaited query is answered in the end, so a request that is not cut short
\* goes on; no notification is ever assumed to arrive.
FairSpec == Spec /\ \A h \in Handlers : WF_vars(HandlerStep(h))

-----------------------------------------------------------------------------
DigitalSales == Purchases \cup Orders

\* What the payment pays for has been handed over (a purchase the buyer or an
\* admin cancelled is no longer owed).
Released(p) ==
    IF p \in Purchases THEN purchase[p] # "PENDING" ELSE order[p] = "PAID"

InFlight(p) == \E h \in Handlers : request[h].p = p

\* Nothing is given away: a purchase is ACTIVE, an item is accessible and a sale
\* is attributed only if a PAID notification came in for a payment that pays for
\* it, whatever mix of PAID and FAILED notifications, cancellations and errors
\* there was ("The webhook is the source of truth for activation").
AccessOnlyAfterConfirmation ==
    /\ \A p \in Purchases : purchase[p] = "ACTIVE" => p \in confirmed
    /\ \A x \in entitled :
          \E o \in Orders \cap confirmed : x[1] = Buyer[o] /\ x[2] \in Goods[o]
    /\ \A p \in Payments : attribution[p] > 0 => p \in confirmed

\* An order marked PAID has granted all it pays for, every book of a bundle
\* included, even when an earlier attempt died half way: fulfill returns early
\* on a PAID order, so what is missing then is never granted.
PaidOrderIsComplete ==
    \A o \in Orders : order[o] = "PAID" =>
        \A i \in Goods[o] : <<Buyer[o], i>> \in entitled

\* Revenue is split only for a sale whose goods went out.
PayoutOnlyForReleasedSale ==
    \A p \in Payments : payouts[p] > 0 => p \in Tenanted /\ Released(p)

\* A PAID payment whose goods are still withheld has a request on its way to
\* release them, or one died exactly between the two writes: no interleaving of
\* deliveries, failures and downgrades loses a sale in any other way.
WithheldOnlyIfBroken ==
    \A p \in DigitalSales : status[p] = "PAID" /\ ~ Released(p) =>
        \/ p \in broken
        \/ \E h \in Handlers : request[h].p = p /\ request[h].pc \in Releasing

\* The same promise as progress: marking a payment PAID leads to the release of
\* what it pays for, unless a request died in between.
PaidIsReleased ==
    \A p \in DigitalSales :
        status[p] = "PAID" ~> Released(p) \/ p \in broken

\* "Mark a payment failed. Idempotent; never downgrades a PAID payment."
NeverDowngraded ==
    [][\A p \in Payments : status[p] = "PAID" => status'[p] = "PAID"]_vars

\* "Mark a payment paid + activate its purchase. Idempotent.": with the payment
\* PAID and no request at work on it, its goods are released.  In such a state a
\* further delivery returns at markPaid's first check and changes nothing.
PaidIsActivated ==
    \A p \in DigitalSales :
        status[p] = "PAID" /\ ~ InFlight(p) => Released(p)

\* "Records one earnings row per completed sale"
OnePayoutPerSale == \A p \in Payments : payouts[p] <= 1

-----------------------------------------------------------------------------
\* What a sale looks like to the buyer and the referrer.
sale == [p \in DigitalSales |->
            IF p \in Purchases
            THEN CASE purchase[p] = "PENDING" -> "open"
                   [] purchase[p] = "ACTIVE" -> "released"
                   [] OTHER -> "withdrawn"
            ELSE IF order[p] = "PAID" THEN "released" ELSE "open"]
earned == {p \in Payments : commission[p] > 0}

Promise == INSTANCE SettlementPromise WITH sale <- sale, earned <- earned

\* The settlement code keeps the abstract promise.
KeepsPromise == Promise!Spec
=============================================================================
