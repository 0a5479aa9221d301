--------------------------- MODULE CheckoutProofs ---------------------------
(***************************************************************************)
(* Checkouts for any number of requests, orders, items and coupons, and    *)
(* any limits.                                                             *)
(*                                                                         *)
(* A coupon's count says too little while requests have passed its limit   *)
(* check and not yet raised it: it is the count together with those        *)
(* requests that stays within the limit plus the overlap.                  *)
(***************************************************************************)
EXTENDS Checkout, FiniteSetTheorems, TLAPS

\* Requests that found a coupon usable and have not counted their redemption.
Passed(c) == {r \in Request : At(r, "redeem") /\ request[r].row = c}

\* A row is made once, and a limit is part of its history.
RowsAreMade ==
    /\ rows \subseteq DOMAIN ceiling
    /\ \A c \in DOMAIN ceiling : ceiling[c] # Unlimited =>
          limit[c] # Unlimited /\ limit[c] <= ceiling[c]
    /\ \A r \in Request : At(r, "redeem") => request[r].row \in DOMAIN ceiling
    /\ \A c \in Rows \ DOMAIN ceiling : redeemed[c] = 0

PassedWithinOverlap ==
    \A c \in DOMAIN ceiling : ceiling[c] # Unlimited =>
        redeemed[c] + Cardinality(Passed(c)) <= ceiling[c] - 1 + Cardinality(Request)

CheckoutInv ==
    /\ TypeOK
    /\ RowsAreMade
    /\ PassedWithinOverlap
    /\ DiscountsAreCounted
    /\ PayableUnlessCut

-----------------------------------------------------------------------------
\* Sets of requests and of orders can be counted.
LEMMA RequestsAreCounted ==
    /\ Cardinality(Request) \in Nat
    /\ \A S \in SUBSET Request :
          IsFiniteSet(S) /\ Cardinality(S) \in Nat /\ Cardinality(S) <= Cardinality(Request)
    /\ \A S \in SUBSET Orders : IsFiniteSet(S) /\ Cardinality(S) \in Nat
  BY CheckoutAssumption, FS_Subset, FS_CardinalityType

\* Only the request that takes a step enters or leaves a set of requests.
LEMMA RequestMoves ==
    ASSUME TypeOK, NEW r \in Request, NEW v \in Calls, Become(r, v), NEW c
    PROVE  /\ Passed(c)' = IF v.pc = "redeem" /\ v.row = c
                           THEN Passed(c) \cup {r} ELSE Passed(c) \ {r}
           /\ Redeeming(c)' = IF v.pc = "order" /\ v.row = c
                              THEN Redeeming(c) \cup {r} ELSE Redeeming(c) \ {r}
  <1>1. \A s \in Request : request'[s] = IF s = r THEN v ELSE request[s]
    BY DEF TypeOK, Become
  <1> QED
    BY <1>1 DEF Passed, Redeeming, At

\* The counts of those sets.
LEMMA RequestCounts ==
    ASSUME NEW r \in Request, NEW S \in SUBSET Request
    PROVE  /\ Cardinality(S) \in Nat
           /\ r \notin S => Cardinality(S \cup {r}) = Cardinality(S) + 1 /\ S \ {r} = S
           /\ r \in S => Cardinality(S \ {r}) = Cardinality(S) - 1 /\ S \cup {r} = S
  <1>1. IsFiniteSet(S) /\ Cardinality(S) \in Nat
    BY RequestsAreCounted
  <1>2. r \notin S => Cardinality(S \cup {r}) = Cardinality(S) + 1
    BY <1>1, FS_AddElement
  <1>3. r \in S => Cardinality(S \ {r}) = Cardinality(S) - 1
    BY <1>1, FS_RemoveElement
  <1> QED
    BY <1>1, <1>2, <1>3

-----------------------------------------------------------------------------
\* Nothing has been sold at first, and there are no coupons.
LEMMA CheckoutInitInv == Init => CheckoutInv
  <1> SUFFICES ASSUME Init PROVE CheckoutInv
    OBVIOUS
  <1>1. TypeOK
    BY DEF Init, TypeOK, Calls, Idle
  <1>2. RowsAreMade
    BY DEF Init, RowsAreMade, At, Idle
  <1>3. PassedWithinOverlap
    BY DEF Init, PassedWithinOverlap
  <1>4. DiscountsAreCounted
    <2>1. \A c \in Rows : Discounted(c) = {} /\ Redeeming(c) = {}
      BY DEF Init, Discounted, Redeeming, At, Idle
    <2>2. Cardinality({}) = 0
      BY FS_EmptySet
    <2>3. \A c \in Rows : redeemed[c] = 0 /\ lost[c] = 0
      BY DEF Init
    <2> QED
      BY <2>1, <2>2, <2>3 DEF DiscountsAreCounted
  <1>5. PayableUnlessCut
    BY DEF Init, PayableUnlessCut
  <1> QED
    BY <1>1, <1>2, <1>3, <1>4, <1>5 DEF CheckoutInv

\* What a request does keeps the shape of the state.
LEMMA RequestTypeStep ==
    ASSUME TypeOK, NEW r \in Request,
           \/ \E i \in Items : Open(r, i)
           \/ \E o \in Orders : CreateOrder(r, o)
           \/ Redeem(r) \/ CreatePayment(r) \/ Abort(r)
    PROVE  TypeOK'
  <1>1. ASSUME NEW i \in Items, Open(r, i) PROVE TypeOK'
    <2>1. PICK v \in Calls : Become(r, v)
      BY <1>1 DEF Open, TypeOK, Calls
    <2> QED
      BY <1>1, <2>1 DEF Open, Become, TypeOK, coupon, sales, past
  <1>2. ASSUME NEW o \in Orders, CreateOrder(r, o) PROVE TypeOK'
    <2>1. request[r] \in [pc : {"order"}, item : Items, row : Rows \cup {NoRow}]
      BY <1>2 DEF CreateOrder, At, TypeOK, Calls, Idle
    <2>2. [pc |-> "payment", order |-> o] \in Calls
      BY DEF Calls
    <2>3. [item |-> request[r].item, row |-> request[r].row, status |-> "PENDING"] \in Sale
      BY <2>1 DEF Sale
    <2>4. DOMAIN order' \subseteq Orders /\ order' \in [DOMAIN order' -> Sale]
      BY <1>2, <2>3 DEF CreateOrder, AddRow, TypeOK
    <2> QED
      BY <1>2, <2>2, <2>4 DEF CreateOrder, Become, TypeOK, coupon, past
  <1>3. CASE Redeem(r)
    <2>1. request[r] \in [pc : {"redeem"}, item : Items, row : Rows]
      BY <1>3 DEF Redeem, At, TypeOK, Calls, Idle
    <2>2. PICK v \in Calls : Become(r, v)
      BY <1>3, <2>1 DEF Redeem, Calls
    <2>3. redeemed' \in [Rows -> Nat]
      BY <1>3, <2>1 DEF Redeem, TypeOK
    <2> QED
      BY <1>3, <2>2, <2>3 DEF Redeem, Become, TypeOK, sales, past
  <1>4. CASE CreatePayment(r)
    <2>1. request[r] \in [pc : {"payment"}, order : Orders]
      BY <1>4 DEF CreatePayment, At, TypeOK, Calls, Idle
    <2>2. Idle \in Calls
      BY DEF Calls
    <2> QED
      BY <1>4, <2>1, <2>2 DEF CreatePayment, Become, TypeOK, coupon, past
  <1>5. CASE Abort(r)
    <2>1. At(r, "order") => request[r].row \in Rows \cup {NoRow}
      BY DEF At, TypeOK, Calls, Idle
    <2>2. At(r, "payment") => request[r].order \in Orders
      BY DEF At, TypeOK, Calls, Idle
    <2>3. Idle \in Calls
      BY DEF Calls
    <2>4. lost' \in [Rows -> Nat] /\ broken' \subseteq Orders
      BY <1>5, <2>1, <2>2 DEF Abort, TypeOK
    <2> QED
      BY <1>5, <2>3, <2>4 DEF Abort, Become, TypeOK, coupon, sales
  <1> QED
    BY <1>1, <1>2, <1>3, <1>4, <1>5

\* So does everything else.
LEMMA OtherTypeStep ==
    ASSUME TypeOK,
           \/ \E o \in Orders : Fulfill(o)
           \/ \E i \in Items : Join(i) \/ Leave(i)
           \/ \E c \in Rows :
                 \/ \E n \in Limits \cup {Unlimited}, u \in BOOLEAN :
                       CreateCoupon(c, n, u) \/ UpdateCoupon(c, n, u)
                 \/ RemoveCoupon(c)
           \/ UNCHANGED vars
    PROVE  TypeOK'
  <1>1. ASSUME NEW o \in Orders, Fulfill(o) PROVE TypeOK'
    <2>1. order' \in [DOMAIN order' -> Sale] /\ DOMAIN order' = DOMAIN order
      BY <1>1 DEF Fulfill, TypeOK, Sale
    <2> QED
      BY <1>1, <2>1 DEF Fulfill, TypeOK, coupon, past
  <1>2. ASSUME NEW i \in Items, Join(i) \/ Leave(i) PROVE TypeOK'
    BY <1>2, CheckoutAssumption DEF Join, Leave, TypeOK, coupon, past
  <1>3. ASSUME NEW c \in Rows, NEW n \in Limits \cup {Unlimited}, NEW u \in BOOLEAN,
               CreateCoupon(c, n, u)
        PROVE  TypeOK'
    BY <1>3 DEF CreateCoupon, AddRow, SetUsable, TypeOK, sales, past
  <1>4. ASSUME NEW c \in Rows, NEW n \in Limits \cup {Unlimited}, NEW u \in BOOLEAN,
               UpdateCoupon(c, n, u)
        PROVE  TypeOK'
    BY <1>4, CheckoutAssumption DEF UpdateCoupon, Higher, SetUsable, TypeOK, sales, past
  <1>5. ASSUME NEW c \in Rows, RemoveCoupon(c) PROVE TypeOK'
    BY <1>5 DEF RemoveCoupon, TypeOK, sales, past
  <1>6. CASE UNCHANGED vars
    BY <1>6 DEF vars, TypeOK, coupon, sales, past
  <1> QED
    BY <1>1, <1>2, <1>3, <1>4, <1>5, <1>6

-----------------------------------------------------------------------------
\* While requests only leave those that passed the limit check, and no count or limit
\* changes, the bound on redemptions stays.
LEMMA NobodyPasses ==
    ASSUME CheckoutInv, UNCHANGED <<redeemed, ceiling>>,
           \A c \in Rows : Passed(c)' \subseteq Passed(c)
    PROVE  PassedWithinOverlap'
  <1> SUFFICES ASSUME NEW c \in DOMAIN ceiling, ceiling[c] # Unlimited
               PROVE  redeemed[c] + Cardinality(Passed(c)')
                      <= ceiling[c] - 1 + Cardinality(Request)
    BY DEF PassedWithinOverlap
  <1>1. c \in Rows /\ redeemed[c] \in Nat /\ ceiling[c] \in Nat
    BY CheckoutAssumption DEF CheckoutInv, TypeOK
  <1>2. Passed(c) \in SUBSET Request
    BY DEF Passed
  <1>3. Passed(c)' \subseteq Passed(c)
    BY <1>1
  <1>4. /\ Cardinality(Passed(c)) \in Nat /\ Cardinality(Passed(c)') \in Nat
        /\ Cardinality(Passed(c)') <= Cardinality(Passed(c))
    BY <1>2, <1>3, RequestsAreCounted, FS_Subset
  <1>5. redeemed[c] + Cardinality(Passed(c)) <= ceiling[c] - 1 + Cardinality(Request)
    BY DEF CheckoutInv, PassedWithinOverlap
  <1> QED
    BY <1>1, <1>4, <1>5, RequestsAreCounted

\* A request passes the check: the count is below the limit, so that all requests
\* together stay within the overlap.
LEMMA OpenKeepsLimit ==
    ASSUME CheckoutInv, NEW r \in Request, NEW i \in Items, Open(r, i)
    PROVE  RowsAreMade' /\ PassedWithinOverlap'
  <1>1. TypeOK /\ RowsAreMade
    BY DEF CheckoutInv
  <1>2. PICK v \in Calls : /\ Become(r, v)
                           /\ v.pc = "redeem" => live # NoRow /\ Usable(live) /\ v.row = live
    BY <1>1 DEF Open, TypeOK, Calls
  <1>3. live # NoRow => live \in DOMAIN ceiling
    BY <1>1 DEF TypeOK, RowsAreMade
  <1>4. UNCHANGED <<rows, limit, redeemed, ceiling>>
    BY DEF Open, coupon
  <1>5. \A s \in Request : request'[s] = IF s = r THEN v ELSE request[s]
    BY <1>1, <1>2 DEF TypeOK, Become
  <1>6. RowsAreMade'
    BY <1>1, <1>2, <1>3, <1>4, <1>5 DEF RowsAreMade, At
  <1>7. ASSUME NEW c \in DOMAIN ceiling, ceiling[c] # Unlimited
        PROVE  redeemed[c] + Cardinality(Passed(c)') <= ceiling[c] - 1 + Cardinality(Request)
    <2>1. c \in Rows /\ redeemed[c] \in Nat /\ ceiling[c] \in Nat
      BY <1>1, <1>7, CheckoutAssumption DEF TypeOK
    <2>2. limit[c] \in Nat /\ limit[c] <= ceiling[c]
      BY <1>1, <1>7, <2>1, CheckoutAssumption DEF TypeOK, RowsAreMade
    <2>3. Passed(c) \in SUBSET Request /\ Passed(c)' \in SUBSET Request
      BY DEF Passed
    <2>4. /\ Cardinality(Passed(c)) \in Nat /\ Cardinality(Passed(c)') \in Nat
          /\ Cardinality(Passed(c)') <= Cardinality(Request)
      BY <2>3, RequestsAreCounted
    <2>5. CASE v.pc = "redeem" /\ v.row = c
      <3>1. redeemed[c] < limit[c]
        BY <1>2, <2>2, <2>5, CheckoutAssumption DEF Usable
      <3> QED
        BY <2>1, <2>2, <2>4, <3>1, RequestsAreCounted
    <2>6. CASE ~(v.pc = "redeem" /\ v.row = c)
      <3>1. Passed(c)' \subseteq Passed(c)
        BY <1>1, <1>2, <2>6, RequestMoves
      <3>2. Cardinality(Passed(c)') <= Cardinality(Passed(c))
        BY <2>3, <3>1, RequestsAreCounted, FS_Subset
      <3>3. redeemed[c] + Cardinality(Passed(c)) <= ceiling[c] - 1 + Cardinality(Request)
        BY <1>7 DEF CheckoutInv, PassedWithinOverlap
      <3> QED
        BY <2>1, <2>4, <3>2, <3>3, RequestsAreCounted
    <2> QED
      BY <2>5, <2>6
  <1> QED
    BY <1>4, <1>6, <1>7 DEF PassedWithinOverlap

\* Counting a redemption takes the request out of those that are about to.
LEMMA RedeemKeepsLimit ==
    ASSUME CheckoutInv, NEW r \in Request, Redeem(r)
    PROVE  RowsAreMade' /\ PassedWithinOverlap'
  <1> DEFINE d == request[r].row
  <1>1. TypeOK /\ RowsAreMade /\ PassedWithinOverlap
    BY DEF CheckoutInv
  <1>2. request[r] \in [pc : {"redeem"}, item : Items, row : Rows]
    BY <1>1 DEF Redeem, At, TypeOK, Calls, Idle
  <1>3. PICK v \in Calls : Become(r, v) /\ v.pc # "redeem"
    BY <1>2 DEF Redeem, Calls, Idle
  <1>4. UNCHANGED <<rows, limit, ceiling>>
    BY DEF Redeem
  <1>5. \A s \in Request : request'[s] = IF s = r THEN v ELSE request[s]
    BY <1>1, <1>3 DEF TypeOK, Become
  <1>6. d \in DOMAIN ceiling /\ d \in Rows
    BY <1>1, <1>2 DEF RowsAreMade, At
  <1>7. redeemed' = redeemed \/ redeemed' = [redeemed EXCEPT ![d] = @ + 1]
    BY DEF Redeem
  <1>8. RowsAreMade'
    BY <1>1, <1>3, <1>4, <1>5, <1>6, <1>7 DEF RowsAreMade, At, TypeOK
  <1>9. ASSUME NEW c \in DOMAIN ceiling, ceiling[c] # Unlimited
        PROVE  redeemed'[c] + Cardinality(Passed(c)') <= ceiling[c] - 1 + Cardinality(Request)
    <2>1. c \in Rows /\ redeemed[c] \in Nat /\ ceiling[c] \in Nat
      BY <1>1, <1>9, CheckoutAssumption DEF TypeOK
    <2>2. Passed(c)' = Passed(c) \ {r} /\ Passed(c) \in SUBSET Request
      BY <1>1, <1>3, RequestMoves DEF Passed
    <2>3. r \in Passed(c) <=> c = d
      BY <1>2 DEF Passed, At
    <2>4. /\ Cardinality(Passed(c)) \in Nat
          /\ Cardinality(Passed(c)') =
                IF c = d THEN Cardinality(Passed(c)) - 1 ELSE Cardinality(Passed(c))
      <3> HIDE DEF d
      <3>1. Cardinality(Passed(c)) \in Nat
        BY <2>2, RequestCounts
      <3>2. CASE c = d
        BY <2>2, <2>3, <3>1, <3>2, RequestCounts
      <3>3. CASE c # d
        BY <2>2, <2>3, <3>1, <3>3, RequestCounts
      <3> QED
        BY <3>1, <3>2, <3>3
    <2>5. redeemed'[c] \in {redeemed[c], IF c = d THEN redeemed[c] + 1 ELSE redeemed[c]}
      BY <1>1, <1>7, <2>1 DEF TypeOK
    <2>6. redeemed[c] + Cardinality(Passed(c)) <= ceiling[c] - 1 + Cardinality(Request)
      BY <1>1, <1>9 DEF PassedWithinOverlap
    <2> HIDE DEF d
    <2> QED
      BY <2>1, <2>4, <2>5, <2>6, RequestsAreCounted
  <1> QED
    BY <1>4, <1>8, <1>9 DEF PassedWithinOverlap

\* The rest of a request leaves coupons alone, and has passed no check.
LEMMA LaterKeepsLimit ==
    ASSUME CheckoutInv, NEW r \in Request,
           (\E o \in Orders : CreateOrder(r, o)) \/ CreatePayment(r) \/ Abort(r)
    PROVE  RowsAreMade' /\ PassedWithinOverlap'
  <1>1. TypeOK /\ RowsAreMade
    BY DEF CheckoutInv
  <1>2. PICK v \in Calls : Become(r, v) /\ v.pc # "redeem"
    <2>1. Idle \in Calls /\ Idle.pc # "redeem"
      BY DEF Calls, Idle
    <2>2. \A o \in Orders : LET w == [pc |-> "payment", order |-> o]
                            IN  w \in Calls /\ w.pc # "redeem"
      BY DEF Calls
    <2> QED
      BY <2>1, <2>2 DEF CreateOrder, CreatePayment, Abort
  <1>3. UNCHANGED <<rows, limit, redeemed, ceiling>>
    BY DEF CreateOrder, CreatePayment, Abort, coupon
  <1>4. \A s \in Request : request'[s] = IF s = r THEN v ELSE request[s]
    BY <1>1, <1>2 DEF TypeOK, Become
  <1>5. RowsAreMade'
    BY <1>1, <1>2, <1>3, <1>4 DEF RowsAreMade, At
  <1>6. \A c \in Rows : Passed(c)' \subseteq Passed(c)
    BY <1>1, <1>2, RequestMoves
  <1> QED
    BY <1>3, <1>5, <1>6, NobodyPasses

\* A new coupon has no redemptions, and no request has seen it.
LEMMA CreateCouponKeepsLimit ==
    ASSUME CheckoutInv, NEW c \in Rows, NEW n \in Limits \cup {Unlimited}, NEW u \in BOOLEAN,
           CreateCoupon(c, n, u)
    PROVE  RowsAreMade' /\ PassedWithinOverlap'
  <1>1. TypeOK /\ RowsAreMade /\ PassedWithinOverlap
    BY DEF CheckoutInv
  <1>2. UNCHANGED <<redeemed, request>> /\ c \notin DOMAIN ceiling
    BY DEF CreateCoupon
  <1>3. /\ DOMAIN ceiling' = DOMAIN ceiling \cup {c}
        /\ \A d \in DOMAIN ceiling' : ceiling'[d] = IF d = c THEN n ELSE ceiling[d]
    BY DEF CreateCoupon, AddRow
  <1>4. \A d \in Rows : limit'[d] = IF d = c THEN n ELSE limit[d]
    BY <1>1 DEF CreateCoupon, TypeOK
  <1>5. DOMAIN ceiling \subseteq Rows /\ Limits \subseteq Nat
    BY <1>1, CheckoutAssumption DEF TypeOK
  <1>6. rows' = rows \cup {c}
    BY DEF CreateCoupon
  <1>7. RowsAreMade'
    <2>1. rows' \subseteq DOMAIN ceiling'
      BY <1>1, <1>3, <1>6 DEF RowsAreMade
    <2>2. \A d \in DOMAIN ceiling' : ceiling'[d] # Unlimited =>
             limit'[d] # Unlimited /\ limit'[d] <= ceiling'[d]
      BY <1>1, <1>3, <1>4, <1>5 DEF RowsAreMade
    <2>3. \A r \in Request : At(r, "redeem")' => request'[r].row \in DOMAIN ceiling'
      BY <1>1, <1>2, <1>3 DEF RowsAreMade, At
    <2>4. \A d \in Rows \ DOMAIN ceiling' : redeemed'[d] = 0
      BY <1>1, <1>2, <1>3 DEF RowsAreMade
    <2> QED
      BY <2>1, <2>2, <2>3, <2>4 DEF RowsAreMade
  <1>8. Passed(c)' = {}
    BY <1>1, <1>2 DEF RowsAreMade, Passed, At
  <1>9. \A d : Passed(d)' = Passed(d)
    BY <1>2 DEF Passed, At
  <1>10. redeemed[c] = 0 /\ Cardinality(Passed(c)') = 0
    BY <1>1, <1>2, <1>8, FS_EmptySet DEF RowsAreMade
  <1>11. Cardinality(Request) \in Nat /\ Cardinality(Request) # 0
    BY RequestsAreCounted, CheckoutAssumption, FS_EmptySet
  <1>12. ASSUME NEW d \in DOMAIN ceiling', ceiling'[d] # Unlimited
         PROVE  redeemed'[d] + Cardinality(Passed(d)')
                <= ceiling'[d] - 1 + Cardinality(Request)
    <2>1. CASE d = c
      BY <1>2, <1>3, <1>5, <1>10, <1>11, <1>12, <2>1
    <2>2. CASE d # c
      BY <1>1, <1>2, <1>3, <1>9, <1>12, <2>2 DEF PassedWithinOverlap
    <2> QED
      BY <2>1, <2>2
  <1> QED
    BY <1>7, <1>12 DEF PassedWithinOverlap

\* An edit raises the highest limit if it raises the limit, and makes no room.
LEMMA UpdateCouponKeepsLimit ==
    ASSUME CheckoutInv, NEW c \in Rows, NEW n \in Limits \cup {Unlimited}, NEW u \in BOOLEAN,
           UpdateCoupon(c, n, u)
    PROVE  RowsAreMade' /\ PassedWithinOverlap'
  <1>1. TypeOK /\ RowsAreMade /\ PassedWithinOverlap
    BY DEF CheckoutInv
  <1>2. UNCHANGED <<rows, redeemed, request>> /\ c \in DOMAIN ceiling
    BY <1>1 DEF UpdateCoupon, RowsAreMade
  <1>3. /\ DOMAIN ceiling' = DOMAIN ceiling
        /\ \A d \in DOMAIN ceiling :
              ceiling'[d] = IF d = c THEN Higher(ceiling[d], n) ELSE ceiling[d]
    BY <1>1 DEF UpdateCoupon, TypeOK
  <1>4. \A d \in Rows : limit'[d] = IF d = c THEN n ELSE limit[d]
    BY <1>1 DEF UpdateCoupon, TypeOK
  <1>5. /\ DOMAIN ceiling \subseteq Rows /\ Limits \subseteq Nat /\ Unlimited \notin Nat
        /\ \A d \in DOMAIN ceiling : ceiling[d] \in Nat \cup {Unlimited}
        /\ \A d \in Rows : limit[d] \in Nat \cup {Unlimited}
    BY <1>1, CheckoutAssumption DEF TypeOK
  <1>6. ASSUME NEW d \in DOMAIN ceiling, ceiling'[d] # Unlimited
        PROVE  /\ ceiling[d] # Unlimited /\ ceiling[d] <= ceiling'[d]
               /\ limit'[d] # Unlimited /\ limit'[d] <= ceiling'[d]
               /\ ceiling[d] \in Nat /\ ceiling'[d] \in Nat
    <2>1. /\ d \in Rows /\ n \in Nat \cup {Unlimited} /\ ceiling[d] \in Nat \cup {Unlimited}
          /\ limit[d] \in Nat \cup {Unlimited} /\ Unlimited \notin Nat
      BY <1>5
    <2>2. CASE d = c
      <3>1. ceiling'[d] = Higher(ceiling[d], n) /\ limit'[d] = n
        BY <1>3, <1>4, <2>1, <2>2
      <3>2. ceiling[d] \in Nat /\ n \in Nat
        BY <1>6, <2>1, <3>1 DEF Higher
      <3> QED
        BY <2>1, <3>1, <3>2 DEF Higher
    <2>3. CASE d # c
      <3>1. ceiling'[d] = ceiling[d] /\ limit'[d] = limit[d]
        BY <1>3, <1>4, <2>1, <2>3
      <3> QED
        BY <1>1, <1>6, <2>1, <3>1 DEF RowsAreMade
    <2> QED
      BY <2>2, <2>3
  <1>7. RowsAreMade'
    BY <1>1, <1>2, <1>3, <1>6 DEF RowsAreMade, At
  <1>8. ASSUME NEW d \in DOMAIN ceiling, ceiling'[d] # Unlimited
        PROVE  redeemed[d] + Cardinality(Passed(d)) <= ceiling'[d] - 1 + Cardinality(Request)
    <2>1. Passed(d) \in SUBSET Request
      BY DEF Passed
    <2>2. Cardinality(Passed(d)) \in Nat /\ Cardinality(Request) \in Nat /\ redeemed[d] \in Nat
      BY <1>1, <1>5, <2>1, RequestsAreCounted DEF TypeOK
    <2>3. redeemed[d] + Cardinality(Passed(d)) <= ceiling[d] - 1 + Cardinality(Request)
      BY <1>1, <1>6, <1>8 DEF PassedWithinOverlap
    <2> QED
      BY <1>6, <1>8, <2>2, <2>3
  <1>9. \A d : Passed(d)' = Passed(d)
    BY <1>2 DEF Passed, At
  <1> QED
    BY <1>2, <1>3, <1>7, <1>8, <1>9 DEF PassedWithinOverlap

\* What else happens concerns no coupon that anyone can still find.
LEMMA OtherKeepsLimit ==
    ASSUME CheckoutInv,
           \/ \E o \in Orders : Fulfill(o)
           \/ \E i \in Items : Join(i) \/ Leave(i)
           \/ \E c \in Rows : RemoveCoupon(c)
           \/ UNCHANGED vars
    PROVE  RowsAreMade' /\ PassedWithinOverlap'
  <1>1. /\ UNCHANGED <<redeemed, limit, ceiling, request>>
        /\ rows' \subseteq rows
    BY DEF Fulfill, Join, Leave, RemoveCoupon, vars, coupon
  <1>2. RowsAreMade'
    BY <1>1 DEF CheckoutInv, RowsAreMade, At
  <1>3. \A c \in Rows : Passed(c)' \subseteq Passed(c)
    BY <1>1 DEF Passed, At
  <1> QED
    BY <1>1, <1>2, <1>3, NobodyPasses

-----------------------------------------------------------------------------
\* Nothing of a discount changes while no request orders with a coupon.
LEMMA SameDiscounts ==
    ASSUME CheckoutInv, UNCHANGED <<redeemed, lost>>,
           \A c \in Rows : Redeeming(c)' = Redeeming(c) /\ Discounted(c)' = Discounted(c)
    PROVE  DiscountsAreCounted'
  BY DEF CheckoutInv, DiscountsAreCounted

\* Opening a checkout gives no discount yet.
LEMMA OpenKeepsCount ==
    ASSUME CheckoutInv, NEW r \in Request, NEW i \in Items, Open(r, i)
    PROVE  DiscountsAreCounted'
  <1>1. TypeOK
    BY DEF CheckoutInv
  <1>2. PICK v \in Calls : Become(r, v) /\ (v.pc = "order" => v.row = NoRow)
    BY <1>1 DEF Open, TypeOK, Calls
  <1>3. \A c \in Rows : Redeeming(c)' = Redeeming(c)
    <2>1. \A c \in Rows : Redeeming(c)' = Redeeming(c) \ {r}
      BY <1>1, <1>2, RequestMoves, CheckoutAssumption
    <2>2. \A c : r \notin Redeeming(c)
      BY DEF Open, At, Redeeming
    <2> QED
      BY <2>1, <2>2
  <1>4. \A c \in Rows : Discounted(c)' = Discounted(c)
    BY DEF Open, sales, Discounted
  <1> QED
    BY <1>3, <1>4, SameDiscounts DEF Open, coupon, past

\* A redemption is counted as the request goes on to make the order.
LEMMA RedeemKeepsCount ==
    ASSUME CheckoutInv, NEW r \in Request, Redeem(r)
    PROVE  DiscountsAreCounted'
  <1> DEFINE d == request[r].row
  <1>1. TypeOK
    BY DEF CheckoutInv
  <1>2. request[r] \in [pc : {"redeem"}, item : Items, row : Rows]
    BY <1>1 DEF Redeem, At, TypeOK, Calls, Idle
  <1>3. \A c \in Rows : Discounted(c)' = Discounted(c) /\ r \notin Redeeming(c)
    BY <1>2 DEF Redeem, sales, Discounted, Redeeming, At
  <1>4. UNCHANGED lost
    BY DEF Redeem, past
  <1>5. CASE d \in rows
    <2>1. [pc |-> "order", item |-> request[r].item, row |-> d] \in Calls
      BY <1>2 DEF Calls
    <2>2. \A c \in Rows : Redeeming(c)' = IF c = d THEN Redeeming(c) \cup {r}
                                          ELSE Redeeming(c) \ {r}
      BY <1>1, <1>5, <2>1, RequestMoves DEF Redeem
    <2>3. \A c \in Rows : redeemed'[c] = IF c = d THEN redeemed[c] + 1 ELSE redeemed[c]
      BY <1>1, <1>5 DEF Redeem, TypeOK
    <2> HIDE DEF d
    <2>4. ASSUME NEW c \in Rows
          PROVE  redeemed'[c]
                 = Cardinality(Discounted(c)') + Cardinality(Redeeming(c)') + lost'[c]
      <3>1. Redeeming(c) \in SUBSET Request /\ Discounted(c) \in SUBSET Orders
        BY <1>1 DEF Redeeming, Discounted, TypeOK
      <3>2. /\ Cardinality(Redeeming(c)) \in Nat /\ Cardinality(Discounted(c)) \in Nat
            /\ lost[c] \in Nat /\ redeemed[c] \in Nat
        BY <1>1, <3>1, RequestsAreCounted DEF TypeOK
      <3>3. redeemed[c] = Cardinality(Discounted(c)) + Cardinality(Redeeming(c)) + lost[c]
        BY DEF CheckoutInv, DiscountsAreCounted
      <3>4. Cardinality(Redeeming(c)') = Cardinality(Redeeming(c)) + (IF c = d THEN 1 ELSE 0)
        BY <1>3, <2>2, <3>1, <3>2, RequestCounts
      <3>5. redeemed'[c] = redeemed[c] + (IF c = d THEN 1 ELSE 0)
        BY <2>3, <3>2
      <3> QED
        BY <1>3, <1>4, <3>2, <3>3, <3>4, <3>5
    <2> QED
      BY <2>4 DEF DiscountsAreCounted
  <1>6. CASE d \notin rows
    <2>1. Idle \in Calls /\ Idle.pc # "order"
      BY DEF Calls, Idle
    <2>2. \A c \in Rows : Redeeming(c)' = Redeeming(c)
      BY <1>1, <1>3, <1>6, <2>1, RequestMoves DEF Redeem
    <2> QED
      BY <1>3, <1>4, <1>6, <2>2, SameDiscounts DEF Redeem
  <1> QED
    BY <1>5, <1>6

\* The request turns into an order with its discount.
LEMMA CreateOrderKeepsCount ==
    ASSUME CheckoutInv, NEW r \in Request, NEW o \in Orders, CreateOrder(r, o)
    PROVE  DiscountsAreCounted'
  <1> DEFINE d == request[r].row
  <1>1. TypeOK
    BY DEF CheckoutInv
  <1>2. [pc |-> "payment", order |-> o] \in Calls
    BY DEF Calls
  <1>3. \A c : Redeeming(c)' = Redeeming(c) \ {r}
    BY <1>1, <1>2, RequestMoves DEF CreateOrder
  <1>4. \A c : r \in Redeeming(c) <=> c = d
    BY DEF CreateOrder, Redeeming, At
  <1>5. \A c : Discounted(c)' = IF c = d THEN Discounted(c) \cup {o} ELSE Discounted(c)
    BY DEF CreateOrder, AddRow, Discounted
  <1>6. \A c : o \notin Discounted(c)
    BY DEF CreateOrder, Discounted
  <1>7. UNCHANGED <<redeemed, lost>>
    BY DEF CreateOrder, coupon, past
  <1> HIDE DEF d
  <1>8. ASSUME NEW c \in Rows
        PROVE  redeemed[c] = Cardinality(Discounted(c)') + Cardinality(Redeeming(c)') + lost[c]
    <2>1. Redeeming(c) \in SUBSET Request /\ Discounted(c) \in SUBSET Orders
      BY <1>1 DEF Redeeming, Discounted, TypeOK
    <2>2. /\ Cardinality(Redeeming(c)) \in Nat
          /\ IsFiniteSet(Discounted(c)) /\ Cardinality(Discounted(c)) \in Nat
          /\ lost[c] \in Nat /\ redeemed[c] \in Nat
      BY <1>1, <2>1, RequestsAreCounted DEF TypeOK
    <2>3. redeemed[c] = Cardinality(Discounted(c)) + Cardinality(Redeeming(c)) + lost[c]
      BY DEF CheckoutInv, DiscountsAreCounted
    <2>4. CASE c = d
      <3>1. Cardinality(Redeeming(c)') = Cardinality(Redeeming(c)) - 1
        BY <1>3, <1>4, <2>1, <2>4, RequestCounts
      <3>2. Cardinality(Discounted(c)') = Cardinality(Discounted(c)) + 1
        BY <1>5, <1>6, <2>2, <2>4, FS_AddElement
      <3> QED
        BY <2>2, <2>3, <3>1, <3>2
    <2>5. CASE c # d
      <3>1. Redeeming(c)' = Redeeming(c) /\ Discounted(c)' = Discounted(c)
        BY <1>3, <1>4, <1>5, <2>5
      <3> QED
        BY <2>3, <3>1
    <2> QED
      BY <2>4, <2>5
  <1> QED
    BY <1>7, <1>8 DEF DiscountsAreCounted

\* A request that dies before its order leaves a redemption that is counted as lost.
LEMMA AbortKeepsCount ==
    ASSUME CheckoutInv, NEW r \in Request, Abort(r)
    PROVE  DiscountsAreCounted'
  <1> DEFINE d == request[r].row
  <1>1. TypeOK
    BY DEF CheckoutInv
  <1>2. Idle \in Calls /\ Idle.pc # "order"
    BY DEF Calls, Idle
  <1>3. \A c : Redeeming(c)' = Redeeming(c) \ {r}
    BY <1>1, <1>2, RequestMoves DEF Abort
  <1>4. \A c \in Rows : Discounted(c)' = Discounted(c)
    BY DEF Abort, sales, Discounted
  <1>5. UNCHANGED redeemed
    BY DEF Abort, coupon
  <1>6. CASE At(r, "order") /\ d # NoRow
    <2>1. \A c : r \in Redeeming(c) <=> c = d
      BY <1>6 DEF Redeeming, At
    <2>2. \A c \in Rows : lost'[c] = IF c = d THEN lost[c] + 1 ELSE lost[c]
      BY <1>1, <1>6 DEF Abort, TypeOK
    <2> HIDE DEF d
    <2>3. ASSUME NEW c \in Rows
          PROVE  redeemed[c]
                 = Cardinality(Discounted(c)) + Cardinality(Redeeming(c)') + lost'[c]
      <3>1. Redeeming(c) \in SUBSET Request /\ Discounted(c) \in SUBSET Orders
        BY <1>1 DEF Redeeming, Discounted, TypeOK
      <3>2. /\ Cardinality(Redeeming(c)) \in Nat /\ Cardinality(Discounted(c)) \in Nat
            /\ lost[c] \in Nat /\ redeemed[c] \in Nat
        BY <1>1, <3>1, RequestsAreCounted DEF TypeOK
      <3>3. redeemed[c] = Cardinality(Discounted(c)) + Cardinality(Redeeming(c)) + lost[c]
        BY DEF CheckoutInv, DiscountsAreCounted
      <3>4. Cardinality(Redeeming(c)') = Cardinality(Redeeming(c)) - (IF c = d THEN 1 ELSE 0)
        <4>1. CASE c = d
          BY <1>3, <2>1, <3>1, <3>2, <4>1, RequestCounts
        <4>2. CASE c # d
          <5>1. Redeeming(c)' = Redeeming(c)
            BY <1>3, <2>1, <4>2
          <5> QED
            BY <3>2, <4>2, <5>1
        <4> QED
          BY <4>1, <4>2
      <3>5. lost'[c] = lost[c] + (IF c = d THEN 1 ELSE 0)
        BY <2>2, <3>2
      <3> QED
        BY <3>2, <3>3, <3>4, <3>5
    <2> QED
      BY <1>4, <1>5, <2>3 DEF DiscountsAreCounted
  <1>7. CASE ~(At(r, "order") /\ d # NoRow)
    <2>1. \A c \in Rows : r \notin Redeeming(c)
      BY <1>7, CheckoutAssumption DEF Redeeming
    <2> QED
      BY <1>3, <1>4, <1>5, <1>7, <2>1, SameDiscounts DEF Abort
  <1> QED
    BY <1>6, <1>7

\* Paying, and what admins and time do to coupons, discounts nothing.
LEMMA OtherKeepsCount ==
    ASSUME CheckoutInv,
           \/ \E r \in Request : CreatePayment(r)
           \/ \E o \in Orders : Fulfill(o)
           \/ \E i \in Items : Join(i) \/ Leave(i)
           \/ \E c \in Rows :
                 \/ \E n \in Limits \cup {Unlimited}, u \in BOOLEAN :
                       CreateCoupon(c, n, u) \/ UpdateCoupon(c, n, u)
                 \/ RemoveCoupon(c)
           \/ UNCHANGED vars
    PROVE  DiscountsAreCounted'
  <1>1. TypeOK
    BY DEF CheckoutInv
  <1>2. UNCHANGED <<redeemed, lost>>
    BY DEF CreatePayment, Fulfill, Join, Leave, CreateCoupon, UpdateCoupon, RemoveCoupon,
           vars, coupon, past
  <1>3. \A c \in Rows : Discounted(c)' = Discounted(c)
    <2>1. CASE \E o \in Orders : Fulfill(o)
      <3>1. /\ DOMAIN order' = DOMAIN order
            /\ \A o \in DOMAIN order : order'[o].row = order[o].row
        BY <1>1, <2>1 DEF Fulfill, TypeOK, Sale
      <3> QED
        BY <3>1 DEF Discounted
    <2>2. CASE UNCHANGED order
      BY <2>2 DEF Discounted
    <2> QED
      BY <2>1, <2>2 DEF CreatePayment, Join, Leave, CreateCoupon, UpdateCoupon,
                        RemoveCoupon, vars, sales
  <1>4. \A c \in Rows : Redeeming(c)' = Redeeming(c)
    <2>1. ASSUME NEW r \in Request, CreatePayment(r)
          PROVE  \A c \in Rows : Redeeming(c)' = Redeeming(c)
      <3>1. Idle \in Calls /\ Idle.pc # "order"
        BY DEF Calls, Idle
      <3>2. \A c \in Rows : Redeeming(c)' = Redeeming(c) \ {r}
        BY <1>1, <2>1, <3>1, RequestMoves DEF CreatePayment
      <3>3. \A c : r \notin Redeeming(c)
        BY <2>1 DEF CreatePayment, At, Redeeming
      <3> QED
        BY <3>2, <3>3
    <2>2. CASE UNCHANGED request
      BY <2>2 DEF Redeeming, At
    <2> QED
      BY <2>1, <2>2 DEF Fulfill, Join, Leave, CreateCoupon, UpdateCoupon, RemoveCoupon, vars
  <1> QED
    BY <1>2, <1>3, <1>4, SameDiscounts

-----------------------------------------------------------------------------
\* An order keeps its payment, the request that is to make it, or the mark that the
\* request died.
LEMMA PayableStep ==
    ASSUME CheckoutInv, [Next]_vars
    PROVE  PayableUnlessCut'
  <1>1. TypeOK /\ PayableUnlessCut
    BY DEF CheckoutInv
  <1>2. ASSUME NEW r \in Request, NEW i \in Items, Open(r, i) PROVE PayableUnlessCut'
    <2>1. UNCHANGED <<order, payable, broken>>
      BY <1>2 DEF Open, sales, past
    <2>2. \A s \in Request : At(s, "payment") => request'[s] = request[s]
      BY <1>1, <1>2 DEF Open, Become, At, TypeOK
    <2> QED
      BY <1>1, <2>1, <2>2 DEF PayableUnlessCut, At
  <1>3. ASSUME NEW r \in Request, NEW o \in Orders, CreateOrder(r, o) PROVE PayableUnlessCut'
    <2>1. DOMAIN order' = DOMAIN order \cup {o} /\ UNCHANGED <<payable, broken>>
      BY <1>3 DEF CreateOrder, AddRow, past
    <2>2. /\ request'[r] = [pc |-> "payment", order |-> o]
          /\ \A s \in Request : At(s, "payment") => request'[s] = request[s]
      BY <1>1, <1>3 DEF CreateOrder, Become, At, TypeOK
    <2> QED
      BY <1>1, <2>1, <2>2 DEF PayableUnlessCut, At
  <1>4. ASSUME NEW r \in Request, Redeem(r) PROVE PayableUnlessCut'
    <2>1. UNCHANGED <<order, payable, broken>>
      BY <1>4 DEF Redeem, sales, past
    <2>2. \A s \in Request : At(s, "payment") => request'[s] = request[s]
      BY <1>1, <1>4 DEF Redeem, Become, At, TypeOK
    <2> QED
      BY <1>1, <2>1, <2>2 DEF PayableUnlessCut, At
  <1>5. ASSUME NEW r \in Request, CreatePayment(r) PROVE PayableUnlessCut'
    <2>1. UNCHANGED <<order, broken>> /\ payable' = payable \cup {request[r].order}
      BY <1>5 DEF CreatePayment, past
    <2>2. \A s \in Request : s # r => request'[s] = request[s]
      BY <1>1, <1>5 DEF CreatePayment, Become, TypeOK
    <2> QED
      BY <1>1, <2>1, <2>2 DEF PayableUnlessCut, At
  <1>6. ASSUME NEW r \in Request, Abort(r) PROVE PayableUnlessCut'
    <2>1. /\ UNCHANGED <<order, payable>> /\ broken \subseteq broken'
          /\ At(r, "payment") => request[r].order \in broken'
      BY <1>6 DEF Abort, sales
    <2>2. \A s \in Request : s # r => request'[s] = request[s]
      BY <1>1, <1>6 DEF Abort, Become, TypeOK
    <2> QED
      BY <1>1, <2>1, <2>2 DEF PayableUnlessCut, At
  <1>7. ASSUME DOMAIN order' = DOMAIN order, UNCHANGED <<payable, request, broken>>
        PROVE  PayableUnlessCut'
    BY <1>1, <1>7 DEF PayableUnlessCut, At
  <1>8. ASSUME NEW o \in Orders, Fulfill(o) PROVE PayableUnlessCut'
    BY <1>1, <1>7, <1>8 DEF Fulfill, past
  <1>9. ASSUME NEW i \in Items, Join(i) \/ Leave(i) PROVE PayableUnlessCut'
    BY <1>7, <1>9 DEF Join, Leave, past
  <1>10. ASSUME NEW c \in Rows, NEW n \in Limits \cup {Unlimited}, NEW u \in BOOLEAN,
                CreateCoupon(c, n, u) \/ UpdateCoupon(c, n, u)
         PROVE  PayableUnlessCut'
    BY <1>7, <1>10 DEF CreateCoupon, UpdateCoupon, sales, past
  <1>11. ASSUME NEW c \in Rows, RemoveCoupon(c) PROVE PayableUnlessCut'
    BY <1>7, <1>11 DEF RemoveCoupon, sales, past
  <1>12. CASE UNCHANGED vars
    BY <1>7, <1>12 DEF vars, sales, past
  <1> QED
    BY <1>2, <1>3, <1>4, <1>5, <1>6, <1>8, <1>9, <1>10, <1>11, <1>12 DEF Next

-----------------------------------------------------------------------------
\* Every step of a request, an admin or the clock keeps the invariant.
LEMMA CheckoutStep == CheckoutInv /\ [Next]_vars => CheckoutInv'
  <1> SUFFICES ASSUME CheckoutInv, [Next]_vars PROVE CheckoutInv'
    OBVIOUS
  <1>1. TypeOK'
    BY RequestTypeStep, OtherTypeStep DEF CheckoutInv, Next
  <1>2. RowsAreMade' /\ PassedWithinOverlap'
    BY OpenKeepsLimit, RedeemKeepsLimit, LaterKeepsLimit, CreateCouponKeepsLimit,
       UpdateCouponKeepsLimit, OtherKeepsLimit DEF Next
  <1>3. DiscountsAreCounted'
    BY OpenKeepsCount, RedeemKeepsCount, CreateOrderKeepsCount, AbortKeepsCount,
       OtherKeepsCount DEF Next
  <1> QED
    BY <1>1, <1>2, <1>3, PayableStep DEF CheckoutInv

\* The invariant holds however checkouts and edits of coupons interleave.
THEOREM CheckoutInvariant == Spec => []CheckoutInv
  <1> QED
    BY CheckoutInitInv, CheckoutStep, PTL DEF Spec

\* Coupons, orders and requests keep the shape the schema and the code give them.
THEOREM CheckoutTypeCorrect == Spec => []TypeOK
  <1>1. CheckoutInv => TypeOK
    BY DEF CheckoutInv
  <1> QED
    BY <1>1, CheckoutInvariant, PTL

\* A coupon passes its highest limit by at most one redemption for every other request,
\* for any number of requests, any limits and any edits.
THEOREM RedemptionsStayWithinOverlap == Spec => []RedeemedWithinOverlap
  <1>1. CheckoutInv => RedeemedWithinOverlap
    <2> SUFFICES ASSUME CheckoutInv, NEW c \in DOMAIN ceiling, ceiling[c] # Unlimited
                 PROVE  redeemed[c] <= ceiling[c] - 1 + Cardinality(Request)
      BY DEF RedeemedWithinOverlap
    <2>1. c \in Rows /\ redeemed[c] \in Nat /\ ceiling[c] \in Nat
      BY CheckoutAssumption DEF CheckoutInv, TypeOK
    <2>2. Passed(c) \in SUBSET Request
      BY DEF Passed
    <2>3. Cardinality(Passed(c)) \in Nat /\ Cardinality(Request) \in Nat
      BY <2>2, RequestsAreCounted
    <2>4. redeemed[c] + Cardinality(Passed(c)) <= ceiling[c] - 1 + Cardinality(Request)
      BY DEF CheckoutInv, PassedWithinOverlap
    <2> QED
      BY <2>1, <2>3, <2>4
  <1> QED
    BY <1>1, CheckoutInvariant, PTL

\* No discount without its redemption and no redemption without its discount, but for
\* those of requests under way or dead.
THEOREM EveryDiscountIsCounted == Spec => []DiscountsAreCounted
  <1>1. CheckoutInv => DiscountsAreCounted
    BY DEF CheckoutInv
  <1> QED
    BY <1>1, CheckoutInvariant, PTL

\* Only the death of its request leaves an order that cannot be paid.
THEOREM OrdersCanBePaid == Spec => []PayableUnlessCut
  <1>1. CheckoutInv => PayableUnlessCut
    BY DEF CheckoutInv
  <1> QED
    BY <1>1, CheckoutInvariant, PTL
=============================================================================
