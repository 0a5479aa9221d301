------------------------------ MODULE Checkout ------------------------------
(***************************************************************************)
(* Opening a checkout (OrdersService.create, PurchasesService.create,      *)
(* HardCopyService.create) and the coupons it redeems (CoursesService).    *)
(*                                                                         *)
(* A request reads what it sells and the coupon, counts a redemption,      *)
(* creates the order and then its payment, each in a query of its own: two *)
(* devices of the buyer, an admin who edits coupons and errors come in     *)
(* between.  A coupon is a row: another row may carry its code later.      *)
(* What happens to a payment from here on is in Settlement.                *)
(***************************************************************************)
EXTENDS Integers, FiniteSets

CONSTANTS Request,
          Orders,     \* rows of Order, Purchase and HardCopyOrder
          Items,
          OwnedOnce,  \* books, courses, communities: not sold to an owner
          Memberships, \* communities, which a member can leave
          NoCoupon,   \* packages and hard copies: sold without coupons
          Rows,       \* rows of Coupon
          NoRow,
          Limits,     \* values of maxRedemptions
          Unlimited   \* maxRedemptions is null

ASSUME CheckoutAssumption ==
    /\ IsFiniteSet(Request) /\ Request # {} /\ IsFiniteSet(Orders)
    /\ Memberships \subseteq OwnedOnce /\ OwnedOnce \subseteq Items
    /\ NoCoupon \subseteq Items \ OwnedOnce
    /\ NoRow \notin Rows /\ Limits \subseteq Nat /\ Unlimited \notin Nat

VARIABLES rows,     \* Coupon rows there are
          live,     \* the one with the code the buyer knows, or NoRow
          usable,   \* rows that are active and not expired
          limit,    \* Coupon.maxRedemptions
          redeemed, \* Coupon.timesRedeemed
          order,    \* orders made -> what they sell, by which coupon, and their status
          payable,  \* orders with a Payment row
          owned,    \* items the buyer has an entitlement, enrolment or membership to
          request,
          ceiling,  \* history: rows made so far -> the highest limit they have had
          lost,     \* history: redemptions counted by requests that died then
          broken    \* history: orders whose request died before the payment

coupon == <<rows, live, usable, limit, redeemed, ceiling>>
sales == <<order, payable, owned>>
past == <<lost, broken>>
vars == <<coupon, sales, request, past>>

Sale == [item : Items, row : Rows \cup {NoRow}, status : {"PENDING", "PAID"}]

Idle == [pc |-> "idle"]
Calls ==
    {Idle}
    \cup [pc : {"redeem"}, item : Items, row : Rows]
    \cup [pc : {"order"}, item : Items, row : Rows \cup {NoRow}]
    \cup [pc : {"payment"}, order : Orders]

TypeOK ==
    /\ rows \subseteq Rows /\ live \in rows \cup {NoRow} /\ usable \subseteq Rows
    /\ limit \in [Rows -> Limits \cup {Unlimited}]
    /\ DOMAIN ceiling \subseteq Rows /\ ceiling \in [DOMAIN ceiling -> Limits \cup {Unlimited}]
    /\ redeemed \in [Rows -> Nat] /\ lost \in [Rows -> Nat]
    /\ DOMAIN order \subseteq Orders /\ order \in [DOMAIN order -> Sale]
    /\ payable \subseteq Orders /\ broken \subseteq Orders /\ owned \subseteq OwnedOnce
    /\ request \in [Request -> Calls]

Init ==
    /\ rows = {} /\ live = NoRow /\ usable = {}
    /\ limit = [c \in Rows |-> Unlimited] /\ ceiling = << >>
    /\ redeemed = [c \in Rows |-> 0] /\ lost = [c \in Rows |-> 0]
    /\ order = << >>
    /\ payable = {} /\ broken = {} /\ owned = {}
    /\ request = [r \in Request |-> Idle]

-----------------------------------------------------------------------------
At(r, pc) == request[r].pc = pc
Become(r, v) == request' = [request EXCEPT ![r] = v]
AddRow(f, k, v) == [x \in DOMAIN f \cup {k} |-> IF x = k THEN v ELSE f[x]]

\* Mutant of Usable: the last redemption is given twice.
UsableOnceMore(c) ==
    c \in usable /\ (limit[c] # Unlimited => redeemed[c] <= limit[c])

Usable(c) ==
    c \in usable /\ (limit[c] # Unlimited => redeemed[c] < limit[c])

\* The reads: the item is on sale and not owned, the coupon, if any, usable.
Open(r, i) ==
    /\ At(r, "idle")
    /\ i \notin owned
    /\ \/ Become(r, [pc |-> "order", item |-> i, row |-> NoRow])
       \/ /\ i \notin NoCoupon
          /\ live # NoRow /\ Usable(live)
          /\ Become(r, [pc |-> "redeem", item |-> i, row |-> live])
    /\ UNCHANGED <<coupon, sales, past>>

\* Mutant of Redeem: a coupon removed meanwhile is redeemed all the same.
RedeemAnyway(r) ==
    LET c == request[r].row IN
    /\ At(r, "redeem")
    /\ redeemed' = IF c \in rows THEN [redeemed EXCEPT ![c] = @ + 1] ELSE redeemed
    /\ Become(r, [pc |-> "order", item |-> request[r].item, row |-> c])
    /\ UNCHANGED <<rows, live, usable, limit, ceiling, sales, past>>

\* An atomic increment, which throws if the row was removed; the limit is not looked
\* at again.
Redeem(r) ==
    LET c == request[r].row IN
    /\ At(r, "redeem")
    /\ IF c \in rows
       THEN /\ redeemed' = [redeemed EXCEPT ![c] = @ + 1]
            /\ Become(r, [pc |-> "order", item |-> request[r].item, row |-> c])
       ELSE UNCHANGED redeemed /\ Become(r, Idle)
    /\ UNCHANGED <<rows, live, usable, limit, ceiling, sales, past>>

\* Mutant of CreateOrder: a discounted order gets no payment.
CreateOrderOnly(r, o) ==
    /\ At(r, "order") /\ o \notin DOMAIN order
    /\ order' = AddRow(order, o,
            [item |-> request[r].item, row |-> request[r].row, status |-> "PENDING"])
    /\ Become(r, IF request[r].row = NoRow THEN [pc |-> "payment", order |-> o] ELSE Idle)
    /\ UNCHANGED <<coupon, payable, owned, past>>

CreateOrder(r, o) ==
    /\ At(r, "order") /\ o \notin DOMAIN order
    /\ order' = AddRow(order, o,
            [item |-> request[r].item, row |-> request[r].row, status |-> "PENDING"])
    /\ Become(r, [pc |-> "payment", order |-> o])
    /\ UNCHANGED <<coupon, payable, owned, past>>

CreatePayment(r) ==
    /\ At(r, "payment")
    /\ payable' = payable \cup {request[r].order}
    /\ Become(r, Idle)
    /\ UNCHANGED <<coupon, order, owned, past>>

\* A query rejects or the server stops: what was written stays.
Abort(r) ==
    /\ ~At(r, "idle")
    /\ lost' = IF At(r, "order") /\ request[r].row # NoRow
               THEN [lost EXCEPT ![request[r].row] = @ + 1] ELSE lost
    /\ broken' = IF At(r, "payment") THEN broken \cup {request[r].order} ELSE broken
    /\ Become(r, Idle)
    /\ UNCHANGED <<coupon, sales>>

\* markPaid and fulfill, as a whole.
Fulfill(o) ==
    /\ o \in payable /\ order[o].status = "PENDING"
    /\ order' = [order EXCEPT ![o].status = "PAID"]
    /\ owned' = owned \cup ({order[o].item} \cap OwnedOnce)
    /\ UNCHANGED <<coupon, payable, request, past>>

\* Free to join, or given by an admin; a membership can be left, and is for sale again.
Join(i) ==
    /\ i \in OwnedOnce \ owned
    /\ owned' = owned \cup {i}
    /\ UNCHANGED <<coupon, order, payable, request, past>>

Leave(i) ==
    /\ i \in owned \cap Memberships
    /\ owned' = owned \ {i}
    /\ UNCHANGED <<coupon, order, payable, request, past>>

-----------------------------------------------------------------------------
Higher(m, n) == IF m = Unlimited \/ n = Unlimited THEN Unlimited
                ELSE IF m > n THEN m ELSE n

SetUsable(c, u) == usable' = IF u THEN usable \cup {c} ELSE usable \ {c}

\* createCoupon: the code is unique, a new row has an id of its own and starts
\* at no redemptions.
CreateCoupon(c, n, u) ==
    /\ live = NoRow
    /\ c \notin DOMAIN ceiling
    /\ rows' = rows \cup {c} /\ live' = c
    /\ limit' = [limit EXCEPT ![c] = n] /\ ceiling' = AddRow(ceiling, c, n)
    /\ SetUsable(c, u)
    /\ UNCHANGED <<redeemed, sales, request, past>>

\* updateCoupon sets the limit and whether the coupon is active, never the count, and may
\* give the code away or back; time makes a coupon expire.
UpdateCoupon(c, n, u) ==
    /\ c \in rows
    /\ limit' = [limit EXCEPT ![c] = n]
    /\ ceiling' = [ceiling EXCEPT ![c] = Higher(@, n)]
    /\ SetUsable(c, u)
    /\ live' \in {live} \cup (IF live = c THEN {NoRow} ELSE IF live = NoRow THEN {c} ELSE {})
    /\ UNCHANGED <<rows, redeemed, sales, request, past>>

RemoveCoupon(c) ==
    /\ c \in rows
    /\ rows' = rows \ {c}
    /\ live' = IF live = c THEN NoRow ELSE live
    /\ UNCHANGED <<usable, limit, redeemed, ceiling, sales, request, past>>

Next ==
    \/ \E r \in Request :
          \/ \E i \in Items : Open(r, i)
          \/ \E o \in Orders : CreateOrder(r, o)
          \/ Redeem(r) \/ CreatePayment(r) \/ Abort(r)
    \/ \E o \in Orders : Fulfill(o)
    \/ \E i \in Items : Join(i) \/ Leave(i)
    \/ \E c \in Rows :
          \/ \E n \in Limits \cup {Unlimited}, u \in BOOLEAN :
                CreateCoupon(c, n, u) \/ UpdateCoupon(c, n, u)
          \/ RemoveCoupon(c)

Spec == Init /\ [][Next]_vars

-----------------------------------------------------------------------------
Redeeming(c) == {r \in Request : At(r, "order") /\ request[r].row = c}
Discounted(c) == {o \in DOMAIN order : order[o].row = c}

\* A coupon's limit is checked on a count read before it is raised: it is passed by at
\* most one redemption for every other request, whatever limits an admin set meanwhile.
RedeemedWithinOverlap ==
    \A c \in DOMAIN ceiling : ceiling[c] # Unlimited =>
        redeemed[c] <= ceiling[c] - 1 + Cardinality(Request)

\* Every discount given is counted on the row it came from, and every redemption counted
\* was given, is about to be, or belongs to a request that died before it made its order.
DiscountsAreCounted ==
    \A c \in Rows :
        redeemed[c] = Cardinality(Discounted(c)) + Cardinality(Redeeming(c)) + lost[c]

\* An order can be paid, or a request is about to see to it, or died there: nothing else
\* leaves the buyer with an order that no payment ever completes.
PayableUnlessCut ==
    \A o \in DOMAIN order :
        \/ o \in payable
        \/ \E r \in Request : At(r, "payment") /\ request[r].order = o
        \/ o \in broken
=============================================================================
