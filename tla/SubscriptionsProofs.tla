------------------------ MODULE SubscriptionsProofs -------------------------
(***************************************************************************)
(* Subscriptions for any plans, orders and handlers, and any number of     *)
(* grants and days.                                                        *)
(*                                                                         *)
(* The properties speak of the rows.  What makes them inductive is what a  *)
(* request carries from its read to its write: a date that the time bought *)
(* still covers once the grant is counted, an order that was created, and  *)
(* a row that has run out unless someone is extending it.                  *)
(***************************************************************************)
EXTENDS Subscriptions, SequenceTheorems, FiniteSetTheorems, WellFoundedInduction, TLAPS

HasOrder == {"find", "extend", "supersede", "insert", "paid"}
HasRow == {"extend", "supersede", "expire", "lapse", "open", "remind", "attach"}
Ends == {"expire", "lapse"}

\* An order that was created has a plan, and only such orders are granted.
OrdersFit ==
    \A o \in Orders :
        /\ order[o] # "none" => planOf[o] \in Plans
        /\ grants[o] > 0 => order[o] # "none"

\* A date to be written is covered by what is bought when it is.
DateCovered(date, o) ==
    /\ date = Null <=> Duration[planOf[o]] = Null
    /\ date # Null => date <= bought + Duration[planOf[o]]

RequestFits(h) ==
    LET q == request[h] IN
    /\ q.pc \in HasOrder => q.o \in Orders /\ order[q.o] # "none"
    /\ q.pc \in HasRow => q.r \in DOMAIN subs
    /\ q.pc = "extend" => q.date # Null
    /\ q.pc \in {"extend", "supersede", "insert"} => DateCovered(q.date, q.o)
    /\ q.pc \in {"open", "remind"} => q.date # Null /\ q.date <= bought + GraceDays
    /\ q.pc = "paid" => grants[q.o] > 0

RequestsFit == \A h \in Handlers : RequestFits(h)

\* A row about to end has run out, and a row about to be extended is still ACTIVE,
\* or an extension and an expiry overlapped on it.
NoSurprise(h) ==
    LET r == request[h].r IN
    \/ r \in raced
    \/ /\ request[h].pc \in Ends => Past(subs[r].expires)
       /\ request[h].pc = "extend" => subs[r].status # "EXPIRED" /\ ~ At(r, Ends)

NoSurprises == \A h \in Handlers : NoSurprise(h)

\* An order that has been granted, and is not one of the doubled, was granted by a
\* delivery that is about to write PAID and is alone at work on it, or it is PAID.
Once(o) ==
    grants[o] > 0 /\ o \notin doubled =>
        /\ \A g \in Handlers : Delivers(g, o) => Doing(g, "paid")
        /\ \A g, h \in Handlers : Delivers(g, o) /\ Delivers(h, o) => g = h
        /\ order[o] = "PENDING" => \E g \in Handlers : Delivers(g, o)

OnceInv == \A o \in Orders : Once(o)

SubscriptionsInv ==
    /\ TypeOK
    /\ OrdersFit
    /\ RequestsFit
    /\ NoSurprises
    /\ NeverBeyondBought
    /\ ExpiredIsOver
    /\ PaidIsGranted

-----------------------------------------------------------------------------
\* No rows and no requests at first.
LEMMA SubscriptionsInitInv == Init => SubscriptionsInv
  <1> SUFFICES ASSUME Init PROVE SubscriptionsInv
    OBVIOUS
  <1>1. subs = <<>> /\ DOMAIN subs = {} /\ subs \in Seq(Subscription)
    BY DEF Init
  <1>2. TypeOK
    BY <1>1, SubscriptionsAssumption DEF Init, TypeOK, NoRequest, Pcs, Date
  <1>3. OrdersFit /\ PaidIsGranted
    BY DEF Init, OrdersFit, PaidIsGranted
  <1>4. RequestsFit /\ NoSurprises
    BY DEF Init, RequestsFit, RequestFits, NoSurprises, NoSurprise, NoRequest,
           HasOrder, HasRow, Ends
  <1>5. NeverBeyondBought /\ ExpiredIsOver
    BY <1>1 DEF NeverBeyondBought, ExpiredIsOver
  <1> QED
    BY <1>2, <1>3, <1>4, <1>5 DEF SubscriptionsInv

\* The next-state relation, one disjunct for each action.
LEMMA SubscriptionsSteps ==
    ASSUME Next
    PROVE  \/ \E h \in Handlers : FindExisting(h)
           \/ \E h \in Handlers : Extend(h)
           \/ \E h \in Handlers : Supersede(h)
           \/ \E h \in Handlers : Insert(h)
           \/ \E h \in Handlers : OrderPaid(h)
           \/ \E h \in Handlers : FindOver(h)
           \/ \E h \in Handlers : Expire(h)
           \/ \E h \in Handlers : Lapse(h)
           \/ \E h \in Handlers : Remind(h)
           \/ \E h \in Handlers : Attach(h)
           \/ \E h \in Handlers : Abort(h)
           \/ \E h \in Handlers, r \in DOMAIN subs : SweepLapsed(h, r)
           \/ \E h \in Handlers, r \in DOMAIN subs : SweepDue(h, r)
           \/ \E h \in Handlers, o \in Orders : Fulfill(h, o)
           \/ \E h \in Handlers, o \in Orders : OpenRenewal(h, o)
           \/ \E h \in Handlers, o \in Orders : RenewNow(h, o)
           \/ \E o \in Orders, p \in Plans : CreateOrder(o, p)
           \/ \E r \in DOMAIN subs : Cancel(r)
           \/ DayPasses
  BY DEF Next

-----------------------------------------------------------------------------
\* A day later a date is no later, stays past, and stays within a window that is
\* counted in days from now.
LEMMA DayLater ==
    ASSUME NEW date \in Date
    PROVE  /\ Later(date) \in Date
           /\ Later(date) = Null <=> date = Null
           /\ date # Null => Later(date) <= date
           /\ Past(date) => Past(Later(date))
           /\ \A n \in Nat : date # Null /\ date <= n + 1 => Later(date) <= n
  BY SubscriptionsAssumption DEF Date, Later, Past

\* Replacing one row keeps the others.
LEMMA OneRow ==
    ASSUME TypeOK, NEW r \in DOMAIN subs, NEW row \in Subscription,
           subs' = [subs EXCEPT ![r] = row]
    PROVE  /\ subs' \in Seq(Subscription)
           /\ DOMAIN subs' = DOMAIN subs
           /\ subs'[r] = row
           /\ \A q \in DOMAIN subs : q # r => subs'[q] = subs[q]
  <1>1. subs \in Seq(Subscription) /\ DOMAIN subs = 1..Len(subs)
    BY DEF TypeOK
  <1> QED
    BY <1>1, ExceptSeq, Zenon

\* A row of the table has its columns.
LEMMA RowColumns ==
    ASSUME TypeOK, NEW r \in DOMAIN subs
    PROVE  /\ subs[r] \in Subscription
           /\ subs[r].plan \in Plans
           /\ subs[r].status \in {"ACTIVE", "EXPIRED", "CANCELLED"}
           /\ subs[r].expires \in Date
           /\ subs[r].grace \in Date
           /\ subs[r].attempts \in Nat
           /\ subs[r].pending \in Orders \cup {Null}
  <1>1. subs[r] \in Subscription
    BY DEF TypeOK
  <1> QED
    BY <1>1 DEF Subscription

\* A nonempty set of row numbers has a greatest element: the one with the fewest
\* numbers above it.
LEMMA GreatestOf ==
    ASSUME NEW n \in Nat, NEW S \in SUBSET (1..n), S # {}
    PROVE  \E r \in S : \A q \in S : q <= r
  <1> DEFINE Above(r) == {q \in S : r < q}
             T == {Above(r) : r \in S}
             R == StrictSubsetOrdering(S)
  <1>1. IsFiniteSet(S)
    <2>1. IsFiniteSet(1..n)
      BY FS_Interval
    <2> QED
      BY <2>1, FS_Subset
  <1>2. IsWellFoundedOn(R, FiniteSubsetsOf(S))
    BY FS_StrictSubsetOrderingWellFounded
  <1>3. T \subseteq FiniteSubsetsOf(S) /\ T # {}
    <2>1. ASSUME NEW r \in S PROVE Above(r) \in SUBSET S /\ IsFiniteSet(Above(r))
      BY <1>1, FS_Subset
    <2> QED
      BY <2>1 DEF FiniteSubsetsOf
  <1> HIDE DEF R
  <1>4. PICK U \in T : \A V \in T : ~ (<<V, U>> \in R)
    BY <1>2, <1>3, WFMin
  <1>5. PICK r \in S : U = Above(r)
    BY <1>4
  <1>6. ASSUME NEW q \in S, r < q PROVE FALSE
    <2>1. S \subseteq Int
      OBVIOUS
    <2>2. ASSUME NEW p \in S, q < p PROVE r < p
      BY <2>1, <2>2, <1>6
    <2>3. q \in Above(r) /\ q \notin Above(q)
      BY <2>1, <1>6
    <2>4. Above(q) \subseteq Above(r)
      BY <2>2
    <2>5. <<Above(q), Above(r)>> \in R
      BY <2>3, <2>4 DEF R, StrictSubsetOrdering
    <2> QED
      BY <2>5, <1>4, <1>5
  <1> QED
    BY <1>6

\* The newest ACTIVE row, if there is one.
LEMMA NewestIsActive ==
    ASSUME TypeOK, Newest # 0
    PROVE  Newest \in DOMAIN subs /\ subs[Newest].status = "ACTIVE"
  <1>1. Active # {}
    BY DEF Newest
  <1>2. Len(subs) \in Nat /\ Active \in SUBSET (1..Len(subs))
    BY DEF Active, TypeOK
  <1>3. \E r \in Active : \A q \in Active : q <= r
    BY <1>1, <1>2, GreatestOf
  <1> QED
    BY <1>1, <1>3 DEF Newest, Active

-----------------------------------------------------------------------------
Requests == [pc : Pcs, o : Orders \cup {Null}, r : Nat, date : Date]

\* A request that goes on carries what it read.
LEMMA Continued ==
    ASSUME TypeOK, NEW h \in Handlers, NEW pc \in Pcs, Continue(h, pc)
    PROVE  /\ request' \in [Handlers -> Requests]
           /\ request'[h].pc = pc
           /\ request'[h].o = request[h].o
           /\ request'[h].r = request[h].r
           /\ request'[h].date = request[h].date
           /\ \A g \in Handlers : g # h => request'[g] = request[g]
  BY DEF TypeOK, Continue, Requests

\* A request that is answered works on nothing.
LEMMA Answered ==
    ASSUME TypeOK, NEW h \in Handlers, Answer(h)
    PROVE  /\ request' \in [Handlers -> Requests]
           /\ request'[h].pc = "idle"
           /\ \A g \in Handlers : g # h => request'[g] = request[g]
  BY DEF TypeOK, Answer, NoRequest, Pcs, Requests, Date

\* A request that read something carries it.
LEMMA Started ==
    ASSUME TypeOK, NEW h \in Handlers, NEW pc \in Pcs, NEW o \in Orders \cup {Null},
           NEW r \in Nat, NEW date \in Date,
           request' = [request EXCEPT ![h] = [pc |-> pc, o |-> o, r |-> r, date |-> date]]
    PROVE  /\ request' \in [Handlers -> Requests]
           /\ request'[h].pc = pc
           /\ request'[h].o = o
           /\ request'[h].r = r
           /\ request'[h].date = date
           /\ \A g \in Handlers : g # h => request'[g] = request[g]
  BY DEF TypeOK, Requests

\* An extended row has the date to be written and no grace.
LEMMA ExtendedRow ==
    ASSUME TypeOK, RequestsFit, NEW h \in Handlers, Extend(h)
    PROVE  LET r == request[h].r IN
           /\ r \in DOMAIN subs
           /\ subs' \in Seq(Subscription)
           /\ DOMAIN subs' = DOMAIN subs
           /\ subs'[r].status = subs[r].status
           /\ subs'[r].expires = request[h].date
           /\ subs'[r].grace = Null
           /\ \A q \in DOMAIN subs : q # r => subs'[q] = subs[q]
  <1> DEFINE r == request[h].r
             row == [subs[r] EXCEPT !.expires = request[h].date, !.autoRenew = TRUE,
                                    !.attempts = 0, !.reminded = FALSE,
                                    !.grace = Null, !.pending = Null]
  <1>1. r \in DOMAIN subs /\ request[h].date \in Date
    BY DEF TypeOK, RequestsFit, RequestFits, Extend, Doing, HasRow
  <1>2. subs[r] \in Subscription
    BY <1>1, RowColumns
  <1>3. row \in Subscription
    BY <1>1, <1>2 DEF Subscription, Date
  <1>4. subs' = [subs EXCEPT ![r] = row]
    BY DEF Extend
  <1>5. row.status = subs[r].status /\ row.expires = request[h].date /\ row.grace = Null
    BY <1>2 DEF Subscription
  <1> HIDE DEF row
  <1> QED
    BY <1>1, <1>3, <1>4, <1>5, OneRow

\* A row that is ended keeps its dates.
LEMMA EndedRow ==
    ASSUME TypeOK, NEW r \in DOMAIN subs, NEW st \in {"EXPIRED", "CANCELLED"},
           \/ subs' = [subs EXCEPT ![r].status = st]
           \/ subs' = [subs EXCEPT ![r].status = st, ![r].autoRenew = FALSE]
    PROVE  /\ subs' \in Seq(Subscription)
           /\ DOMAIN subs' = DOMAIN subs
           /\ subs'[r].status = st
           /\ subs'[r].expires = subs[r].expires
           /\ subs'[r].grace = subs[r].grace
           /\ \A q \in DOMAIN subs : q # r => subs'[q] = subs[q]
  <1>1. subs[r] \in Subscription
    BY RowColumns
  <1>2. PICK row \in Subscription :
            /\ subs' = [subs EXCEPT ![r] = row]
            /\ row.status = st
            /\ row.expires = subs[r].expires
            /\ row.grace = subs[r].grace
    <2>1. CASE subs' = [subs EXCEPT ![r].status = st]
      <3> DEFINE row == [subs[r] EXCEPT !.status = st]
      <3>1. row \in Subscription
        BY <1>1 DEF Subscription
      <3>2. row.status = st /\ row.expires = subs[r].expires /\ row.grace = subs[r].grace
        BY <1>1 DEF Subscription
      <3>3. subs' = [subs EXCEPT ![r] = row]
        BY <2>1
      <3> QED
        BY <3>1, <3>2, <3>3
    <2>2. CASE subs' = [subs EXCEPT ![r].status = st, ![r].autoRenew = FALSE]
      <3> DEFINE row == [subs[r] EXCEPT !.status = st, !.autoRenew = FALSE]
      <3>1. row \in Subscription
        BY <1>1 DEF Subscription
      <3>2. row.status = st /\ row.expires = subs[r].expires /\ row.grace = subs[r].grace
        BY <1>1 DEF Subscription
      <3>3. subs' = [subs EXCEPT ![r] = row]
        BY <2>2
      <3> QED
        BY <3>1, <3>2, <3>3
    <2> QED
      BY <2>1, <2>2
  <1> QED
    BY <1>2, OneRow

\* A reminded row has the grace date to be written.
LEMMA RemindedRow ==
    ASSUME TypeOK, RequestsFit, NEW h \in Handlers, Remind(h)
    PROVE  LET r == request[h].r IN
           /\ r \in DOMAIN subs
           /\ subs' \in Seq(Subscription)
           /\ DOMAIN subs' = DOMAIN subs
           /\ subs'[r].status = subs[r].status
           /\ subs'[r].expires = subs[r].expires
           /\ subs'[r].grace = request[h].date
           /\ \A q \in DOMAIN subs : q # r => subs'[q] = subs[q]
  <1> DEFINE r == request[h].r
             row == [subs[r] EXCEPT !.attempts = @ + 1, !.reminded = TRUE,
                                    !.grace = request[h].date, !.pending = request[h].o]
  <1>1. r \in DOMAIN subs /\ request[h].date \in Date /\ request[h].o \in Orders \cup {Null}
    BY DEF TypeOK, RequestsFit, RequestFits, Remind, Doing, HasRow
  <1>2. subs[r] \in Subscription /\ subs[r].attempts + 1 \in Nat
    BY <1>1, RowColumns
  <1>3. row \in Subscription
    BY <1>1, <1>2 DEF Subscription
  <1>4. subs' = [subs EXCEPT ![r] = row]
    BY DEF Remind
  <1>5. /\ row.status = subs[r].status
        /\ row.expires = subs[r].expires
        /\ row.grace = request[h].date
    BY <1>2 DEF Subscription
  <1> HIDE DEF row
  <1> QED
    BY <1>1, <1>3, <1>4, <1>5, OneRow

\* A row a renewal order is attached to keeps its dates.
LEMMA AttachedRow ==
    ASSUME TypeOK, RequestsFit, NEW h \in Handlers, Attach(h)
    PROVE  LET r == request[h].r IN
           /\ r \in DOMAIN subs
           /\ subs' \in Seq(Subscription)
           /\ DOMAIN subs' = DOMAIN subs
           /\ subs'[r].status = subs[r].status
           /\ subs'[r].expires = subs[r].expires
           /\ subs'[r].grace = subs[r].grace
           /\ \A q \in DOMAIN subs : q # r => subs'[q] = subs[q]
  <1> DEFINE r == request[h].r
             row == [subs[r] EXCEPT !.pending = request[h].o]
  <1>1. r \in DOMAIN subs /\ request[h].o \in Orders \cup {Null}
    BY DEF TypeOK, RequestsFit, RequestFits, Attach, Doing, HasRow
  <1>2. subs[r] \in Subscription
    BY <1>1, RowColumns
  <1>3. row \in Subscription
    BY <1>1, <1>2 DEF Subscription
  <1>4. subs' = [subs EXCEPT ![r] = row]
    BY DEF Attach
  <1>5. /\ row.status = subs[r].status
        /\ row.expires = subs[r].expires
        /\ row.grace = subs[r].grace
    BY <1>2 DEF Subscription
  <1> HIDE DEF row
  <1> QED
    BY <1>1, <1>3, <1>4, <1>5, OneRow

\* A new row comes after the others, with the date to be written and no grace.
LEMMA InsertedRow ==
    ASSUME TypeOK, OrdersFit, RequestsFit, NEW h \in Handlers, Insert(h)
    PROVE  LET r == Len(subs) + 1 IN
           /\ subs' \in Seq(Subscription)
           /\ DOMAIN subs' = DOMAIN subs \cup {r}
           /\ r \notin DOMAIN subs
           /\ subs'[r].status = "ACTIVE"
           /\ subs'[r].expires = request[h].date
           /\ subs'[r].grace = Null
           /\ \A q \in DOMAIN subs : subs'[q] = subs[q]
  <1> DEFINE r == Len(subs) + 1
             row == [plan |-> planOf[request[h].o], status |-> "ACTIVE",
                     autoRenew |-> request[h].date # Null, expires |-> request[h].date,
                     grace |-> Null, attempts |-> 0, reminded |-> FALSE, pending |-> Null]
  <1>1. planOf[request[h].o] \in Plans /\ request[h].date \in Date
    BY DEF TypeOK, OrdersFit, RequestsFit, RequestFits, Insert, Doing, HasOrder
  <1>2. row \in Subscription
    <2>1. (request[h].date # Null) \in BOOLEAN
      OBVIOUS
    <2> QED
      BY <1>1, <2>1 DEF Subscription, Date
  <1>3. subs' = Append(subs, row)
    BY DEF Insert
  <1>4. row.status = "ACTIVE" /\ row.expires = request[h].date /\ row.grace = Null
    OBVIOUS
  <1> HIDE DEF row
  <1>5. subs \in Seq(Subscription) /\ DOMAIN subs = 1..Len(subs) /\ Len(subs) \in Nat
    BY DEF TypeOK
  <1>6. /\ subs' \in Seq(Subscription)
        /\ Len(subs') = Len(subs) + 1
        /\ \A q \in 1..Len(subs) : subs'[q] = subs[q]
        /\ subs'[Len(subs) + 1] = row
    BY <1>2, <1>3, <1>5, AppendProperties
  <1>7. DOMAIN subs' = 1..(Len(subs) + 1)
    BY <1>6
  <1> QED
    BY <1>4, <1>5, <1>6, <1>7

\* A day later every row has its dates a day later.
LEMMA DayRows ==
    ASSUME TypeOK, DayPasses
    PROVE  /\ subs' \in Seq(Subscription)
           /\ DOMAIN subs' = DOMAIN subs
           /\ \A q \in DOMAIN subs :
                 /\ subs'[q].status = subs[q].status
                 /\ subs'[q].expires = Later(subs[q].expires)
                 /\ subs'[q].grace = Later(subs[q].grace)
  <1> DEFINE row(q) == [subs[q] EXCEPT !.expires = Later(@), !.grace = Later(@),
                                       !.reminded = FALSE]
  <1>1. ASSUME NEW q \in DOMAIN subs
        PROVE  /\ row(q) \in Subscription
               /\ row(q).status = subs[q].status
               /\ row(q).expires = Later(subs[q].expires)
               /\ row(q).grace = Later(subs[q].grace)
    <2>1. subs[q] \in Subscription
      BY RowColumns
    <2>2. Later(subs[q].expires) \in Date /\ Later(subs[q].grace) \in Date
      BY RowColumns, DayLater
    <2> QED
      BY <2>1, <2>2 DEF Subscription
  <1>2. subs' = [q \in DOMAIN subs |-> row(q)]
    BY DEF DayPasses
  <1> HIDE DEF row
  <1>3. DOMAIN subs = 1..Len(subs) /\ Len(subs) \in Nat
    BY DEF TypeOK
  <1>4. subs' \in [1..Len(subs) -> Subscription]
    BY <1>1, <1>2, <1>3
  <1>5. subs' \in Seq(Subscription)
    BY <1>3, <1>4, SeqDef
  <1> QED
    BY <1>1, <1>2, <1>5

\* A day later every request has its date a day later.
LEMMA DayRequests ==
    ASSUME TypeOK, DayPasses
    PROVE  /\ request' \in [Handlers -> Requests]
           /\ \A h \in Handlers :
                 /\ request'[h].pc = request[h].pc
                 /\ request'[h].o = request[h].o
                 /\ request'[h].r = request[h].r
                 /\ request'[h].date = Later(request[h].date)
  <1> DEFINE q(h) == [request[h] EXCEPT !.date = Later(@)]
  <1>1. ASSUME NEW h \in Handlers
        PROVE  /\ q(h) \in Requests
               /\ q(h).pc = request[h].pc
               /\ q(h).o = request[h].o
               /\ q(h).r = request[h].r
               /\ q(h).date = Later(request[h].date)
    <2>1. request[h] \in Requests
      BY DEF TypeOK, Requests
    <2>2. Later(request[h].date) \in Date
      BY <2>1, DayLater DEF Requests
    <2> QED
      BY <2>1, <2>2 DEF Requests
  <1>2. request' = [h \in Handlers |-> q(h)]
    BY DEF DayPasses
  <1> HIDE DEF q
  <1> QED
    BY <1>1, <1>2

-----------------------------------------------------------------------------
\* Orders are created once and keep their plan, and grants are not taken back.
OrdersKept ==
    \A o \in Orders :
        /\ order[o] # "none" => order'[o] # "none" /\ planOf'[o] = planOf[o]
        /\ grants[o] > 0 => grants'[o] > 0

\* Rows keep their expiry, a grace window is within bounds, and none expires.
RowsKept ==
    /\ DOMAIN subs' = DOMAIN subs
    /\ raced' = raced
    /\ bought' = bought
    /\ \A q \in DOMAIN subs :
          /\ subs'[q].expires = subs[q].expires
          /\ \/ subs'[q].grace = subs[q].grace
             \/ subs'[q].grace # Null => subs'[q].grace <= bought + GraceDays
          /\ subs'[q].status = "EXPIRED" => subs[q].status = "EXPIRED"

\* No request sets out to end or to extend a row.
Quiet ==
    \A g \in Handlers :
        request'[g] = request[g] \/ request'[g].pc \notin Ends \cup {"extend"}

\* What a request read stays true while the others work.
LEMMA OthersFit ==
    ASSUME TypeOK, OrdersFit, OrdersKept, NEW g \in Handlers, RequestFits(g),
           request'[g] = request[g], DOMAIN subs \subseteq DOMAIN subs',
           bought' \in Nat, bought <= bought'
    PROVE  RequestFits(g)'
  <1>1. PICK q \in Requests : request[g] = q /\ request'[g] = q
    BY DEF TypeOK, Requests
  <1>2. q.date \in Date /\ bought \in Nat
    BY <1>1 DEF Requests, TypeOK
  <1>3. q.pc \in HasOrder =>
            /\ q.o \in Orders /\ order'[q.o] # "none"
            /\ planOf'[q.o] = planOf[q.o] /\ planOf[q.o] \in Plans
    BY <1>1 DEF RequestFits, OrdersKept, OrdersFit
  <1>4. q.pc \in HasRow => q.r \in DOMAIN subs'
    BY <1>1 DEF RequestFits
  <1>5. ASSUME q.pc \in {"extend", "supersede", "insert"} PROVE DateCovered(q.date, q.o)'
    <2>1. DateCovered(q.date, q.o)
      BY <1>1, <1>5 DEF RequestFits
    <2>2. planOf'[q.o] = planOf[q.o] /\ planOf[q.o] \in Plans
      BY <1>3, <1>5 DEF HasOrder
    <2>3. Duration[planOf[q.o]] \in Nat \cup {Null}
      BY <2>2, SubscriptionsAssumption
    <2>4. (q.date # Null => q.date <= bought' + Duration[planOf[q.o]])
      BY <1>2, <2>1, <2>3 DEF DateCovered, Date
    <2> QED
      BY <1>1, <2>1, <2>2, <2>4 DEF DateCovered
  <1>6. q.pc \in {"open", "remind"} => q.date # Null /\ q.date <= bought' + GraceDays
    BY <1>1, <1>2, SubscriptionsAssumption DEF RequestFits, Date
  <1>7. q.pc = "paid" => grants'[q.o] > 0
    BY <1>1, <1>3 DEF RequestFits, OrdersKept, HasOrder
  <1>8. q.pc = "extend" => q.date # Null
    BY <1>1 DEF RequestFits
  <1> QED
    BY <1>1, <1>3, <1>4, <1>5, <1>6, <1>7, <1>8 DEF RequestFits

\* A step that keeps rows and orders and starts nothing on a row keeps what is
\* said of rows.
LEMMA QuietStep ==
    ASSUME SubscriptionsInv, OrdersKept, RowsKept, Quiet
    PROVE  NoSurprises' /\ NeverBeyondBought' /\ ExpiredIsOver'
  <1>1. NoSurprises'
    <2> SUFFICES ASSUME NEW g \in Handlers PROVE NoSurprise(g)'
      BY DEF NoSurprises
    <2>1. CASE request'[g].pc \notin Ends \cup {"extend"}
      BY <2>1 DEF NoSurprise, Ends
    <2>2. CASE request'[g].pc \in Ends \cup {"extend"}
      <3>1. request'[g] = request[g]
        BY <2>2 DEF Quiet
      <3>2. request[g].r \in DOMAIN subs
        BY <2>2, <3>1 DEF SubscriptionsInv, RequestsFit, RequestFits, HasRow, Ends
      <3>3. NoSurprise(g)
        BY DEF SubscriptionsInv, NoSurprises
      <3>4. At(request[g].r, Ends)' => At(request[g].r, Ends)
        BY <3>1 DEF At, Quiet
      <3>5. request[g].pc \in Ends /\ request[g].r \notin raced
                => Past(subs[request[g].r].expires)
        BY <3>3 DEF NoSurprise
      <3>6. request[g].pc = "extend" /\ request[g].r \notin raced
                => /\ subs[request[g].r].status # "EXPIRED"
                   /\ ~ At(request[g].r, Ends)
        BY <3>3 DEF NoSurprise
      <3>7. request[g].pc \in Ends /\ request[g].r \notin raced
                => Past(subs'[request[g].r].expires)
        BY <3>2, <3>5 DEF RowsKept
      <3>8. request[g].pc = "extend" /\ request[g].r \notin raced
                => /\ subs'[request[g].r].status # "EXPIRED"
                   /\ ~ At(request[g].r, Ends)'
        BY <3>2, <3>4, <3>6 DEF RowsKept
      <3> QED
        BY <3>1, <3>7, <3>8 DEF NoSurprise, RowsKept, At
    <2> QED
      BY <2>1, <2>2
  <1>2. NeverBeyondBought'
    BY DEF SubscriptionsInv, OrdersFit, NeverBeyondBought, RowsKept, OrdersKept
  <1>3. ExpiredIsOver'
    BY DEF SubscriptionsInv, ExpiredIsOver, RowsKept, Past
  <1> QED
    BY <1>1, <1>2, <1>3

\* For such a step the request at work is what is left to look at.
LEMMA QuietInv ==
    ASSUME SubscriptionsInv, TypeOK', OrdersKept, RowsKept, Quiet,
           OrdersFit', PaidIsGranted',
           \A g \in Handlers : request'[g] = request[g] \/ RequestFits(g)'
    PROVE  SubscriptionsInv'
  <1>1. NoSurprises' /\ NeverBeyondBought' /\ ExpiredIsOver'
    BY QuietStep
  <1>2. bought' \in Nat /\ bought' = bought /\ DOMAIN subs' = DOMAIN subs
    BY DEF TypeOK, RowsKept
  <1>3. ASSUME NEW g \in Handlers, request'[g] = request[g] PROVE RequestFits(g)'
    <2>1. RequestFits(g)
      BY DEF SubscriptionsInv, RequestsFit
    <2> QED
      BY <1>2, <1>3, <2>1, OthersFit DEF SubscriptionsInv
  <1>4. RequestsFit'
    BY <1>3 DEF RequestsFit
  <1> QED
    BY <1>1, <1>4 DEF SubscriptionsInv

\* A step that changes requests alone, other than to end or extend a row.
LEMMA RequestsOnly ==
    ASSUME SubscriptionsInv, request' \in [Handlers -> Requests], Quiet,
           UNCHANGED <<subs, order, planOf, grants, bought, raced>>, doubled' \subseteq Orders,
           \A g \in Handlers : request'[g] = request[g] \/ RequestFits(g)'
    PROVE  SubscriptionsInv'
  <1>1. TypeOK' /\ OrdersFit' /\ PaidIsGranted'
    BY DEF SubscriptionsInv, TypeOK, Requests, OrdersFit, PaidIsGranted
  <1>2. OrdersKept /\ RowsKept
    BY DEF OrdersKept, RowsKept
  <1> QED
    BY <1>1, <1>2, QuietInv

\* An idle request knows nothing.
LEMMA IdleFits ==
    ASSUME NEW h \in Handlers, request'[h].pc = "idle"
    PROVE  RequestFits(h)'
  BY DEF RequestFits, HasOrder, HasRow

\* Creating an order.
LEMMA CreateOrderInv ==
    ASSUME SubscriptionsInv, NEW o \in Orders, NEW p \in Plans, CreateOrder(o, p)
    PROVE  SubscriptionsInv'
  <1>1. TypeOK'
    BY DEF SubscriptionsInv, TypeOK, CreateOrder
  <1>2. OrdersKept /\ OrdersFit' /\ PaidIsGranted'
    BY DEF SubscriptionsInv, TypeOK, CreateOrder, OrdersKept, OrdersFit, PaidIsGranted
  <1>3. RowsKept /\ Quiet
    BY DEF CreateOrder, RowsKept, Quiet
  <1> QED
    BY <1>1, <1>2, <1>3, QuietInv DEF CreateOrder

\* fulfill's look at the order.
LEMMA FulfillInv ==
    ASSUME SubscriptionsInv, NEW h \in Handlers, NEW o \in Orders, Fulfill(h, o)
    PROVE  SubscriptionsInv'
  <1>1. request' = [request EXCEPT ![h] = [pc |-> "find", o |-> o, r |-> 0, date |-> Null]]
    BY DEF Fulfill, Deliver
  <1>2. TypeOK /\ "find" \in Pcs /\ o \in Orders \cup {Null} /\ 0 \in Nat /\ Null \in Date
    BY DEF SubscriptionsInv, Pcs, Date
  <1>3. /\ request' \in [Handlers -> Requests]
        /\ request'[h].pc = "find"
        /\ request'[h].o = o
        /\ \A g \in Handlers : g # h => request'[g] = request[g]
    BY <1>1, <1>2, Started
  <1>4. /\ UNCHANGED <<subs, order, planOf, grants, bought, raced>> /\ order[o] # "none"
        /\ doubled' \subseteq Orders
    BY <1>2 DEF Fulfill, Deliver, TypeOK
  <1>5. RequestFits(h)'
    BY <1>3, <1>4 DEF RequestFits, HasOrder, HasRow
  <1>6. Quiet
    BY <1>3 DEF Quiet, Ends
  <1> QED
    BY <1>3, <1>4, <1>5, <1>6, RequestsOnly

\* Superseding a row.
LEMMA SupersedeInv ==
    ASSUME SubscriptionsInv, NEW h \in Handlers, Supersede(h)
    PROVE  SubscriptionsInv'
  <1>1. TypeOK /\ RequestFits(h) /\ request[h].pc = "supersede" /\ "insert" \in Pcs
    BY DEF SubscriptionsInv, RequestsFit, Supersede, Doing, Pcs
  <1>2. request[h].r \in DOMAIN subs
    BY <1>1 DEF RequestFits, HasRow
  <1>3. /\ subs' \in Seq(Subscription)
        /\ DOMAIN subs' = DOMAIN subs
        /\ subs'[request[h].r].status = "CANCELLED"
        /\ subs'[request[h].r].expires = subs[request[h].r].expires
        /\ subs'[request[h].r].grace = subs[request[h].r].grace
        /\ \A q \in DOMAIN subs : q # request[h].r => subs'[q] = subs[q]
    BY <1>1, <1>2, EndedRow DEF Supersede
  <1>4. /\ request' \in [Handlers -> Requests]
        /\ request'[h].pc = "insert"
        /\ request'[h].o = request[h].o
        /\ request'[h].date = request[h].date
        /\ \A g \in Handlers : g # h => request'[g] = request[g]
    BY <1>1, Continued DEF Supersede
  <1>5. UNCHANGED <<order, planOf, grants, bought, raced, doubled>>
    BY DEF Supersede
  <1>6. TypeOK'
    BY <1>1, <1>3, <1>4, <1>5 DEF TypeOK, Requests
  <1>7. OrdersKept /\ OrdersFit' /\ PaidIsGranted'
    BY <1>5 DEF SubscriptionsInv, OrdersKept, OrdersFit, PaidIsGranted
  <1>8. RowsKept
    BY <1>3, <1>5 DEF RowsKept
  <1>9. Quiet
    BY <1>4 DEF Quiet, Ends
  <1>10. RequestFits(h)'
    BY <1>1, <1>4, <1>5 DEF RequestFits, HasOrder, HasRow, DateCovered
  <1> QED
    BY <1>4, <1>6, <1>7, <1>8, <1>9, <1>10, QuietInv

\* fulfill's last write.
LEMMA OrderPaidInv ==
    ASSUME SubscriptionsInv, NEW h \in Handlers, OrderPaid(h)
    PROVE  SubscriptionsInv'
  <1>1. TypeOK /\ RequestFits(h) /\ request[h].pc = "paid"
    BY DEF SubscriptionsInv, RequestsFit, OrderPaid, Doing
  <1>2. /\ request[h].o \in Orders
        /\ order[request[h].o] # "none"
        /\ grants[request[h].o] > 0
    BY <1>1 DEF RequestFits, HasOrder
  <1>3. /\ request' \in [Handlers -> Requests]
        /\ request'[h].pc = "idle"
        /\ \A g \in Handlers : g # h => request'[g] = request[g]
    BY <1>1, Answered DEF OrderPaid
  <1>4. /\ order' = [order EXCEPT ![request[h].o] = "PAID"]
        /\ UNCHANGED <<subs, planOf, grants, bought, raced, doubled>>
    BY DEF OrderPaid
  <1>5. TypeOK'
    BY <1>1, <1>2, <1>3, <1>4 DEF TypeOK, Requests
  <1>6. OrdersKept /\ OrdersFit' /\ PaidIsGranted'
    BY <1>1, <1>2, <1>4 DEF SubscriptionsInv, TypeOK, OrdersKept, OrdersFit, PaidIsGranted
  <1>7. RowsKept
    BY <1>4 DEF RowsKept
  <1>8. Quiet
    BY <1>3 DEF Quiet, Ends
  <1> QED
    BY <1>3, <1>5, <1>6, <1>7, <1>8, IdleFits, QuietInv

\* A request that dies.
LEMMA AbortInv ==
    ASSUME SubscriptionsInv, NEW h \in Handlers, Abort(h)
    PROVE  SubscriptionsInv'
  <1>1. /\ request' \in [Handlers -> Requests]
        /\ request'[h].pc = "idle"
        /\ \A g \in Handlers : g # h => request'[g] = request[g]
    BY Answered DEF SubscriptionsInv, Abort
  <1>2. Quiet
    BY <1>1 DEF Quiet, Ends
  <1>3. Doing(h, "paid") => request[h].o \in Orders
    BY DEF SubscriptionsInv, RequestsFit, RequestFits, HasOrder, Doing
  <1>4. doubled' \subseteq Orders
    BY <1>3 DEF SubscriptionsInv, TypeOK, Abort
  <1> QED
    BY <1>1, <1>2, <1>4, IdleFits, RequestsOnly DEF Abort

\* A user cancels a row.
LEMMA CancelInv ==
    ASSUME SubscriptionsInv, NEW r \in DOMAIN subs, Cancel(r)
    PROVE  SubscriptionsInv'
  <1>1. TypeOK
    BY DEF SubscriptionsInv
  <1>2. /\ subs' \in Seq(Subscription)
        /\ DOMAIN subs' = DOMAIN subs
        /\ subs'[r].status = "CANCELLED"
        /\ subs'[r].expires = subs[r].expires
        /\ subs'[r].grace = subs[r].grace
        /\ \A q \in DOMAIN subs : q # r => subs'[q] = subs[q]
    BY <1>1, EndedRow DEF Cancel
  <1>3. UNCHANGED <<order, planOf, request, grants, bought, raced, doubled>>
    BY DEF Cancel
  <1>4. TypeOK' /\ RowsKept
    BY <1>1, <1>2, <1>3 DEF TypeOK, RowsKept
  <1>5. OrdersKept /\ OrdersFit' /\ PaidIsGranted' /\ Quiet
    BY <1>3 DEF SubscriptionsInv, OrdersKept, OrdersFit, PaidIsGranted, Quiet
  <1> QED
    BY <1>3, <1>4, <1>5, QuietInv

\* renewNow opens an order for the newest row.
LEMMA RenewNowInv ==
    ASSUME SubscriptionsInv, NEW h \in Handlers, NEW o \in Orders, RenewNow(h, o)
    PROVE  SubscriptionsInv'
  <1>1. TypeOK /\ Newest # 0
    BY DEF SubscriptionsInv, RenewNow
  <1>2. Newest \in DOMAIN subs
    BY <1>1, NewestIsActive
  <1>3. PICK r \in DOMAIN subs :
            /\ planOf' = [planOf EXCEPT ![o] = subs[r].plan]
            /\ request' = [request EXCEPT ![h] =
                  [pc |-> "attach", o |-> o, r |-> r, date |-> Null]]
    BY <1>2 DEF RenewNow
  <1>4. /\ order[o] = "none"
        /\ order' = [order EXCEPT ![o] = "PENDING"]
        /\ UNCHANGED <<subs, grants, bought, raced, doubled>>
    BY DEF RenewNow
  <1>5. subs[r].plan \in Plans
    BY <1>1, RowColumns
  <1>6. r \in Nat /\ "attach" \in Pcs /\ Null \in Date
    BY <1>1 DEF TypeOK, Pcs, Date
  <1>7. /\ request' \in [Handlers -> Requests]
        /\ request'[h].pc = "attach"
        /\ request'[h].r = r
        /\ \A g \in Handlers : g # h => request'[g] = request[g]
    BY <1>1, <1>3, <1>6, Started
  <1>8. TypeOK'
    BY <1>1, <1>3, <1>4, <1>5, <1>7 DEF TypeOK, Requests
  <1>9. OrdersKept /\ OrdersFit' /\ PaidIsGranted'
    BY <1>1, <1>3, <1>4, <1>5
       DEF SubscriptionsInv, TypeOK, OrdersKept, OrdersFit, PaidIsGranted
  <1>10. RowsKept
    BY <1>4 DEF RowsKept
  <1>11. Quiet
    BY <1>7 DEF Quiet, Ends
  <1>12. RequestFits(h)'
    BY <1>4, <1>7 DEF RequestFits, HasOrder, HasRow
  <1> QED
    BY <1>7, <1>8, <1>9, <1>10, <1>11, <1>12, QuietInv

\* The order is attached to the row.
LEMMA AttachInv ==
    ASSUME SubscriptionsInv, NEW h \in Handlers, Attach(h)
    PROVE  SubscriptionsInv'
  <1>1. TypeOK /\ RequestsFit
    BY DEF SubscriptionsInv
  <1>2. PICK r \in DOMAIN subs :
            /\ subs' \in Seq(Subscription)
            /\ DOMAIN subs' = DOMAIN subs
            /\ subs'[r].status = subs[r].status
            /\ subs'[r].expires = subs[r].expires
            /\ subs'[r].grace = subs[r].grace
            /\ \A q \in DOMAIN subs : q # r => subs'[q] = subs[q]
    BY <1>1, AttachedRow
  <1>3. /\ request' \in [Handlers -> Requests]
        /\ request'[h].pc = "idle"
        /\ \A g \in Handlers : g # h => request'[g] = request[g]
    BY <1>1, Answered DEF Attach
  <1>4. UNCHANGED <<order, planOf, grants, bought, raced, doubled>>
    BY DEF Attach
  <1>5. TypeOK' /\ RowsKept
    BY <1>1, <1>2, <1>3, <1>4 DEF TypeOK, RowsKept, Requests
  <1>6. OrdersKept /\ OrdersFit' /\ PaidIsGranted'
    BY <1>4 DEF SubscriptionsInv, OrdersKept, OrdersFit, PaidIsGranted
  <1>7. Quiet
    BY <1>3 DEF Quiet, Ends
  <1> QED
    BY <1>3, <1>5, <1>6, <1>7, IdleFits, QuietInv

\* A grace window the sweep may write ends within GraceDays of what is bought.
LEMMA GraceEndCovered ==
    ASSUME SubscriptionsInv, NEW r \in DOMAIN subs, subs[r].expires # Null
    PROVE  GraceEnd(r) \in Int /\ GraceEnd(r) <= bought + GraceDays
  <1>1. subs[r].expires \in Int /\ subs[r].grace \in Date
    BY RowColumns DEF SubscriptionsInv, Date
  <1>2. /\ subs[r].expires <= bought
        /\ subs[r].grace # Null => subs[r].grace <= bought + GraceDays
    BY DEF SubscriptionsInv, NeverBeyondBought
  <1>3. bought \in Nat /\ GraceDays \in Nat
    BY SubscriptionsAssumption DEF SubscriptionsInv, TypeOK
  <1> QED
    BY <1>1, <1>2, <1>3 DEF GraceEnd, Date

\* The sweep sets out to remind.
LEMMA SweepDueInv ==
    ASSUME SubscriptionsInv, NEW h \in Handlers, NEW r \in DOMAIN subs, SweepDue(h, r)
    PROVE  SubscriptionsInv'
  <1>1. TypeOK /\ subs[r].expires # Null /\ Null \notin Int
    BY SubscriptionsAssumption DEF SubscriptionsInv, SweepDue, Due
  <1>2. GraceEnd(r) \in Int /\ GraceEnd(r) <= bought + GraceDays
    BY <1>1, GraceEndCovered
  <1>3. PICK pc \in {"open", "remind"} :
            request' = [request EXCEPT ![h] =
                [pc |-> pc, o |-> subs[r].pending, r |-> r, date |-> GraceEnd(r)]]
    BY DEF SweepDue
  <1>4. r \in Nat /\ pc \in Pcs /\ GraceEnd(r) \in Date /\ subs[r].pending \in Orders \cup {Null}
    BY <1>1, <1>2, RowColumns DEF TypeOK, Pcs, Date
  <1>5. /\ request' \in [Handlers -> Requests]
        /\ request'[h].pc = pc
        /\ request'[h].r = r
        /\ request'[h].date = GraceEnd(r)
        /\ \A g \in Handlers : g # h => request'[g] = request[g]
    BY <1>1, <1>3, <1>4, Started
  <1>6. UNCHANGED <<subs, order, planOf, grants, bought, raced>> /\ doubled' \subseteq Orders
    BY <1>1 DEF SweepDue, TypeOK
  <1>7. RequestFits(h)'
    BY <1>1, <1>2, <1>5, <1>6 DEF RequestFits, HasOrder, HasRow
  <1>8. Quiet
    BY <1>5 DEF Quiet, Ends
  <1> QED
    BY <1>5, <1>6, <1>7, <1>8, RequestsOnly

\* The sweep opens a renewal order.
LEMMA OpenRenewalInv ==
    ASSUME SubscriptionsInv, NEW h \in Handlers, NEW o \in Orders, OpenRenewal(h, o)
    PROVE  SubscriptionsInv'
  <1>1. TypeOK /\ RequestFits(h) /\ request[h].pc = "open"
    BY DEF SubscriptionsInv, RequestsFit, OpenRenewal, Doing
  <1>2. /\ request[h].r \in DOMAIN subs
        /\ request[h].date # Null
        /\ request[h].date <= bought + GraceDays
    BY <1>1 DEF RequestFits, HasRow
  <1>3. subs[request[h].r].plan \in Plans
    BY <1>1, <1>2, RowColumns
  <1>4. /\ order[o] = "none"
        /\ order' = [order EXCEPT ![o] = "PENDING"]
        /\ planOf' = [planOf EXCEPT ![o] = subs[request[h].r].plan]
        /\ request' = [request EXCEPT ![h].pc = "remind", ![h].o = o]
        /\ UNCHANGED <<subs, grants, bought, raced, doubled>>
    BY DEF OpenRenewal
  <1>5. /\ request' \in [Handlers -> Requests]
        /\ request'[h].pc = "remind"
        /\ request'[h].r = request[h].r
        /\ request'[h].date = request[h].date
        /\ \A g \in Handlers : g # h => request'[g] = request[g]
    BY <1>1, <1>4 DEF TypeOK, Requests, Pcs
  <1>6. TypeOK'
    BY <1>1, <1>3, <1>4, <1>5 DEF TypeOK, Requests
  <1>7. OrdersKept /\ OrdersFit' /\ PaidIsGranted'
    BY <1>1, <1>3, <1>4
       DEF SubscriptionsInv, TypeOK, OrdersKept, OrdersFit, PaidIsGranted
  <1>8. RowsKept
    BY <1>4 DEF RowsKept
  <1>9. Quiet
    BY <1>5 DEF Quiet, Ends
  <1>10. RequestFits(h)'
    BY <1>2, <1>4, <1>5 DEF RequestFits, HasOrder, HasRow
  <1> QED
    BY <1>5, <1>6, <1>7, <1>8, <1>9, <1>10, QuietInv

\* The reminder is written.
LEMMA RemindInv ==
    ASSUME SubscriptionsInv, NEW h \in Handlers, Remind(h)
    PROVE  SubscriptionsInv'
  <1>1. TypeOK /\ RequestsFit /\ RequestFits(h) /\ request[h].pc = "remind"
    BY DEF SubscriptionsInv, RequestsFit, Remind, Doing
  <1>2. PICK r \in DOMAIN subs :
            /\ subs' \in Seq(Subscription)
            /\ DOMAIN subs' = DOMAIN subs
            /\ subs'[r].status = subs[r].status
            /\ subs'[r].expires = subs[r].expires
            /\ subs'[r].grace = request[h].date
            /\ \A q \in DOMAIN subs : q # r => subs'[q] = subs[q]
    BY <1>1, RemindedRow
  <1>3. request[h].date <= bought + GraceDays
    BY <1>1 DEF RequestFits
  <1>4. /\ request' \in [Handlers -> Requests]
        /\ request'[h].pc = "idle"
        /\ \A g \in Handlers : g # h => request'[g] = request[g]
    BY <1>1, Answered DEF Remind
  <1>5. UNCHANGED <<order, planOf, grants, bought, raced, doubled>>
    BY DEF Remind
  <1>6. TypeOK' /\ RowsKept
    BY <1>1, <1>2, <1>3, <1>4, <1>5 DEF TypeOK, RowsKept, Requests
  <1>7. OrdersKept /\ OrdersFit' /\ PaidIsGranted'
    BY <1>5 DEF SubscriptionsInv, OrdersKept, OrdersFit, PaidIsGranted
  <1>8. Quiet
    BY <1>4 DEF Quiet, Ends
  <1> QED
    BY <1>4, <1>6, <1>7, <1>8, IdleFits, QuietInv

-----------------------------------------------------------------------------
\* Someone sets out to end a row that has run out.
LEMMA EndingStarted ==
    ASSUME SubscriptionsInv, NEW h \in Handlers, NEW r \in DOMAIN subs, NEW pc \in Ends,
           Past(subs[r].expires),
           request' = [request EXCEPT ![h] =
               [pc |-> pc, o |-> Null, r |-> r, date |-> Null]],
           raced' = IF At(r, {"extend"}) THEN raced \cup {r} ELSE raced,
           UNCHANGED <<subs, order, planOf, grants, bought, doubled>>
    PROVE  SubscriptionsInv'
  <1>1. TypeOK /\ r \in Nat /\ pc \in Pcs /\ Null \in Date
    BY DEF SubscriptionsInv, TypeOK, Pcs, Date, Ends
  <1>2. /\ request' \in [Handlers -> Requests]
        /\ request'[h].pc = pc
        /\ request'[h].r = r
        /\ \A g \in Handlers : g # h => request'[g] = request[g]
    BY <1>1, Started
  <1>3. TypeOK'
    BY <1>1, <1>2 DEF TypeOK, Requests
  <1>4. OrdersFit' /\ PaidIsGranted' /\ OrdersKept
    BY DEF SubscriptionsInv, OrdersFit, PaidIsGranted, OrdersKept
  <1>5. RequestsFit'
    <2> SUFFICES ASSUME NEW g \in Handlers PROVE RequestFits(g)'
      BY DEF RequestsFit
    <2>1. CASE g = h
      BY <1>2, <2>1 DEF RequestFits, HasOrder, Ends
    <2>2. CASE g # h
      <3>1. RequestFits(g) /\ request'[g] = request[g]
        BY <1>2, <2>2 DEF SubscriptionsInv, RequestsFit
      <3>2. bought' \in Nat /\ bought <= bought'
        BY <1>1 DEF TypeOK
      <3> QED
        BY <1>1, <1>4, <3>1, <3>2, OthersFit DEF SubscriptionsInv
    <2> QED
      BY <2>1, <2>2
  <1>6. NeverBeyondBought'
    BY DEF SubscriptionsInv, NeverBeyondBought
  <1>7. ExpiredIsOver'
    BY DEF SubscriptionsInv, ExpiredIsOver, Past
  <1>8. ASSUME NEW g \in Handlers PROVE NoSurprise(g)'
    <2>1. CASE g = h
      BY <1>2, <2>1 DEF NoSurprise, Ends, Past
    <2>2. CASE g # h
      <3>1. request'[g] = request[g] /\ NoSurprise(g)
        BY <1>2, <2>2 DEF SubscriptionsInv, NoSurprises
      <3>2. CASE request[g].pc = "extend" /\ request[g].r = r
        <4>1. At(r, {"extend"})
          BY <3>2 DEF At
        <4> QED
          BY <3>1, <3>2, <4>1 DEF NoSurprise
      <3>3. CASE request[g].pc = "extend" /\ request[g].r # r
        <4>1. At(request[g].r, Ends)' => At(request[g].r, Ends)
          BY <1>2, <3>1, <3>3 DEF At
        <4>2. \/ request[g].r \in raced
              \/ /\ subs[request[g].r].status # "EXPIRED"
                 /\ ~ At(request[g].r, Ends)
          BY <3>1, <3>3 DEF NoSurprise
        <4>3. request[g].pc \notin Ends
          BY <3>3 DEF Ends
        <4> QED
          BY <3>1, <4>1, <4>2, <4>3 DEF NoSurprise, At
      <3>4. CASE request[g].pc # "extend"
        BY <3>1, <3>4 DEF NoSurprise, Past
      <3> QED
        BY <3>2, <3>3, <3>4
    <2> QED
      BY <2>1, <2>2
  <1>9. NoSurprises'
    BY <1>8 DEF NoSurprises
  <1> QED
    BY <1>3, <1>4, <1>5, <1>6, <1>7, <1>9 DEF SubscriptionsInv

\* mySubscription sets out to expire a row.
LEMMA FindOverInv ==
    ASSUME SubscriptionsInv, NEW h \in Handlers, FindOver(h)
    PROVE  SubscriptionsInv'
  <1>1. Newest \in DOMAIN subs /\ Past(subs[Newest].expires)
    BY NewestIsActive DEF SubscriptionsInv, FindOver, Over
  <1>2. "expire" \in Ends
    BY DEF Ends
  <1>3. PICK r \in DOMAIN subs :
            /\ Past(subs[r].expires)
            /\ request' = [request EXCEPT ![h] =
                   [pc |-> "expire", o |-> Null, r |-> r, date |-> Null]]
            /\ raced' = IF At(r, {"extend"}) THEN raced \cup {r} ELSE raced
    BY <1>1 DEF FindOver
  <1> QED
    BY <1>2, <1>3, EndingStarted DEF FindOver

\* The sweep sets out to expire a row.
LEMMA SweepLapsedInv ==
    ASSUME SubscriptionsInv, NEW h \in Handlers, NEW r \in DOMAIN subs, SweepLapsed(h, r)
    PROVE  SubscriptionsInv'
  <1>1. Past(subs[r].expires)
    BY DEF SweepLapsed, Due, Lapsed, Past
  <1>2. "lapse" \in Ends
    BY DEF Ends
  <1> QED
    BY <1>1, <1>2, EndingStarted DEF SweepLapsed

\* The row read is ended, whatever became of it.
LEMMA EndingDone ==
    ASSUME SubscriptionsInv, NEW h \in Handlers, request[h].pc \in Ends, Answer(h),
           \/ subs' = [subs EXCEPT ![request[h].r].status = "EXPIRED"]
           \/ subs' = [subs EXCEPT ![request[h].r].status = "EXPIRED",
                                   ![request[h].r].autoRenew = FALSE],
           UNCHANGED <<order, planOf, grants, bought, raced, doubled>>
    PROVE  SubscriptionsInv'
  <1>1. TypeOK /\ RequestFits(h) /\ NoSurprise(h)
    BY DEF SubscriptionsInv, RequestsFit, NoSurprises
  <1>2. PICK r \in DOMAIN subs : request[h].r = r
    BY <1>1 DEF RequestFits, HasRow, Ends
  <1>3. /\ subs' \in Seq(Subscription)
        /\ DOMAIN subs' = DOMAIN subs
        /\ subs'[r].status = "EXPIRED"
        /\ subs'[r].expires = subs[r].expires
        /\ subs'[r].grace = subs[r].grace
        /\ \A q \in DOMAIN subs : q # r => subs'[q] = subs[q]
    BY <1>1, <1>2, EndedRow
  <1>4. /\ request' \in [Handlers -> Requests]
        /\ request'[h].pc = "idle"
        /\ \A g \in Handlers : g # h => request'[g] = request[g]
    BY <1>1, Answered
  <1>5. TypeOK'
    BY <1>1, <1>3, <1>4 DEF TypeOK, Requests
  <1>6. OrdersFit' /\ PaidIsGranted' /\ OrdersKept
    BY DEF SubscriptionsInv, OrdersFit, PaidIsGranted, OrdersKept
  <1>7. RequestsFit'
    <2> SUFFICES ASSUME NEW g \in Handlers PROVE RequestFits(g)'
      BY DEF RequestsFit
    <2>1. CASE g = h
      BY <1>4, <2>1, IdleFits
    <2>2. CASE g # h
      <3>1. RequestFits(g) /\ request'[g] = request[g]
        BY <1>4, <2>2 DEF SubscriptionsInv, RequestsFit
      <3>2. bought' \in Nat /\ bought <= bought'
        BY <1>1 DEF TypeOK
      <3> QED
        BY <1>1, <1>3, <1>6, <3>1, <3>2, OthersFit DEF SubscriptionsInv
    <2> QED
      BY <2>1, <2>2
  <1>8. NeverBeyondBought'
    BY <1>3 DEF SubscriptionsInv, NeverBeyondBought
  <1>9. ExpiredIsOver'
    <2>1. Past(subs[r].expires) \/ r \in raced
      BY <1>1, <1>2 DEF NoSurprise
    <2> QED
      BY <1>3, <2>1 DEF SubscriptionsInv, ExpiredIsOver, Past
  <1>10. ASSUME NEW g \in Handlers PROVE NoSurprise(g)'
    <2>1. CASE g = h
      BY <1>4, <2>1 DEF NoSurprise, Ends
    <2>2. CASE g # h
      <3>1. request'[g] = request[g] /\ NoSurprise(g) /\ RequestFits(g)
        BY <1>4, <2>2 DEF SubscriptionsInv, NoSurprises, RequestsFit
      <3>2. CASE request[g].pc = "extend"
        <4>1. At(r, Ends)
          BY <1>2 DEF At
        <4>2. request[g].r = r => r \in raced
          BY <3>1, <3>2, <4>1 DEF NoSurprise
        <4>3. At(request[g].r, Ends)' => At(request[g].r, Ends)
          BY <1>4, <3>1 DEF At, Ends
        <4>4. \/ request[g].r \in raced
              \/ /\ subs[request[g].r].status # "EXPIRED"
                 /\ ~ At(request[g].r, Ends)
          BY <3>1, <3>2 DEF NoSurprise
        <4>5. request[g].pc \notin Ends /\ request[g].r \in DOMAIN subs
          BY <3>1, <3>2 DEF Ends, RequestFits, HasRow
        <4> QED
          BY <1>3, <3>1, <4>2, <4>3, <4>4, <4>5 DEF NoSurprise, At
      <3>3. CASE request[g].pc \in Ends
        <4>1. request[g].r \in DOMAIN subs /\ request[g].pc # "extend"
          BY <3>1, <3>3 DEF RequestFits, HasRow, Ends
        <4>2. subs'[request[g].r].expires = subs[request[g].r].expires
          BY <1>3, <4>1
        <4> QED
          BY <3>1, <4>1, <4>2 DEF NoSurprise, Past
      <3>4. CASE request[g].pc \notin Ends \cup {"extend"}
        BY <3>1, <3>4 DEF NoSurprise
      <3> QED
        BY <3>2, <3>3, <3>4
    <2> QED
      BY <2>1, <2>2
  <1>11. NoSurprises'
    BY <1>10 DEF NoSurprises
  <1> QED
    BY <1>5, <1>6, <1>7, <1>8, <1>9, <1>11 DEF SubscriptionsInv

-----------------------------------------------------------------------------
\* An extension starts from a date that is covered.
LEMMA BaseCovered ==
    ASSUME SubscriptionsInv, NEW r \in DOMAIN subs
    PROVE  Base(r) \in Nat /\ Base(r) <= bought
  <1>1. subs[r].expires \in Date /\ bought \in Nat
    BY RowColumns DEF SubscriptionsInv, TypeOK
  <1>2. subs[r].expires # Null => subs[r].expires <= bought
    BY DEF SubscriptionsInv, NeverBeyondBought
  <1> QED
    BY <1>1, <1>2 DEF Base, Date

\* What grantSubscription decides on: an order, the newest ACTIVE row, and a date
\* that is covered once the grant is counted.
LEMMA Decided ==
    ASSUME SubscriptionsInv, NEW h \in Handlers, FindExisting(h)
    PROVE  \E pc \in {"extend", "supersede", "insert"}, r \in Nat, date \in Date :
               /\ request' = [request EXCEPT ![h] =
                      [pc |-> pc, o |-> request[h].o, r |-> r, date |-> date]]
               /\ r = Newest
               /\ pc # "insert" => r # 0
               /\ pc = "extend" => date # Null
               /\ DateCovered(date, request[h].o)
  <1> DEFINE p == planOf[request[h].o]
  <1>1. TypeOK /\ RequestFits(h) /\ request[h].pc = "find" /\ Null \notin Int
    BY SubscriptionsAssumption DEF SubscriptionsInv, RequestsFit, FindExisting, Doing
  <1>2. p \in Plans
    BY <1>1 DEF SubscriptionsInv, RequestFits, HasOrder, OrdersFit
  <1>3. Duration[p] \in Nat \cup {Null} /\ bought \in Nat
    BY <1>1, <1>2, SubscriptionsAssumption DEF TypeOK
  <1>4. Newest # 0 => Newest \in DOMAIN subs
    BY <1>1, NewestIsActive
  <1>5. Newest \in Nat
    <2>1. DOMAIN subs \subseteq Nat
      BY <1>1 DEF TypeOK
    <2> QED
      BY <1>4, <2>1
  <1>6. DateCovered(Duration[p], request[h].o)
    BY <1>1, <1>3 DEF DateCovered
  <1>7. CASE Newest # 0 /\ subs[Newest].plan = p /\ Duration[p] # Null
    <2>1. Base(Newest) \in Nat /\ Base(Newest) <= bought
      BY <1>4, <1>7, BaseCovered
    <2>2. Base(Newest) + Duration[p] \in Int
      BY <1>3, <1>7, <2>1
    <2>3. Base(Newest) + Duration[p] <= bought + Duration[p]
      BY <1>3, <1>7, <2>1
    <2>4. DateCovered(Base(Newest) + Duration[p], request[h].o)
      BY <1>1, <1>7, <2>2, <2>3 DEF DateCovered
    <2>5. request' = [request EXCEPT ![h] =
              [pc |-> "extend", o |-> request[h].o, r |-> Newest,
               date |-> Base(Newest) + Duration[p]]]
      BY <1>7 DEF FindExisting
    <2> QED
      BY <1>1, <1>5, <1>7, <2>2, <2>4, <2>5 DEF Date
  <1>8. CASE ~ (Newest # 0 /\ subs[Newest].plan = p /\ Duration[p] # Null)
    <2> DEFINE pc == IF Newest # 0 /\ subs[Newest].plan # p THEN "supersede" ELSE "insert"
    <2>1. request' = [request EXCEPT ![h] =
              [pc |-> pc, o |-> request[h].o, r |-> Newest, date |-> Duration[p]]]
      BY <1>8 DEF FindExisting
    <2>2. /\ pc \in {"extend", "supersede", "insert"}
          /\ pc # "insert" => Newest # 0
          /\ pc # "extend"
      OBVIOUS
    <2>3. Duration[p] \in Date
      BY <1>3 DEF Date
    <2> HIDE DEF pc
    <2> QED
      BY <1>5, <1>6, <2>1, <2>2, <2>3
  <1> QED
    BY <1>7, <1>8

\* grantSubscription's reads.
LEMMA FindExistingInv ==
    ASSUME SubscriptionsInv, NEW h \in Handlers, FindExisting(h)
    PROVE  SubscriptionsInv'
  <1>1. TypeOK /\ RequestFits(h) /\ request[h].pc = "find"
    BY DEF SubscriptionsInv, RequestsFit, FindExisting, Doing
  <1>2. PICK pc \in {"extend", "supersede", "insert"}, r \in Nat, date \in Date :
            /\ request' = [request EXCEPT ![h] =
                   [pc |-> pc, o |-> request[h].o, r |-> r, date |-> date]]
            /\ r = Newest
            /\ pc # "insert" => r # 0
            /\ pc = "extend" => date # Null
            /\ DateCovered(date, request[h].o)
    BY Decided
  <1>3. request[h].o \in Orders /\ order[request[h].o] # "none"
    BY <1>1 DEF RequestFits, HasOrder
  <1>4. /\ request' \in [Handlers -> Requests]
        /\ request'[h].pc = pc
        /\ request'[h].o = request[h].o
        /\ request'[h].r = r
        /\ request'[h].date = date
        /\ \A g \in Handlers : g # h => request'[g] = request[g]
    <2>1. pc \in Pcs /\ request[h].o \in Orders \cup {Null}
      BY <1>3 DEF Pcs
    <2> QED
      BY <1>1, <1>2, <2>1, Started
  <1>5. /\ UNCHANGED <<subs, order, planOf, grants, bought, doubled>>
        /\ raced' = IF r # 0 /\ At(r, {"expire", "lapse"}) THEN raced \cup {r} ELSE raced
    BY <1>2 DEF FindExisting
  <1>6. r # 0 => r \in DOMAIN subs /\ subs[r].status = "ACTIVE"
    BY <1>1, <1>2, NewestIsActive
  <1>7. TypeOK'
    BY <1>1, <1>4, <1>5, <1>6 DEF TypeOK, Requests
  <1>8. OrdersFit' /\ PaidIsGranted' /\ OrdersKept
    BY <1>5 DEF SubscriptionsInv, OrdersFit, PaidIsGranted, OrdersKept
  <1>9. RequestsFit'
    <2> SUFFICES ASSUME NEW g \in Handlers PROVE RequestFits(g)'
      BY DEF RequestsFit
    <2>1. CASE g = h
      <3>1. pc \in HasOrder /\ pc \notin {"open", "remind", "paid"}
        BY DEF HasOrder
      <3>2. pc \in HasRow => r \in DOMAIN subs
        BY <1>2, <1>6 DEF HasRow
      <3>3. DateCovered(date, request[h].o)' = DateCovered(date, request[h].o)
        BY <1>4, <1>5 DEF DateCovered
      <3> QED
        BY <1>2, <1>3, <1>4, <1>5, <2>1, <3>1, <3>2 DEF RequestFits, DateCovered
    <2>2. CASE g # h
      <3>1. RequestFits(g) /\ request'[g] = request[g]
        BY <1>4, <2>2 DEF SubscriptionsInv, RequestsFit
      <3>2. bought' \in Nat /\ bought <= bought'
        BY <1>1, <1>5 DEF TypeOK
      <3> QED
        BY <1>1, <1>5, <1>8, <3>1, <3>2, OthersFit DEF SubscriptionsInv
    <2> QED
      BY <2>1, <2>2
  <1>10. NeverBeyondBought'
    BY <1>5 DEF SubscriptionsInv, NeverBeyondBought
  <1>11. ExpiredIsOver'
    BY <1>5 DEF SubscriptionsInv, ExpiredIsOver, Past
  <1>12. ASSUME NEW q \in Nat PROVE At(q, Ends)' => At(q, Ends)
    BY <1>2, <1>4 DEF At, Ends
  <1>13. ASSUME NEW g \in Handlers PROVE NoSurprise(g)'
    <2>1. CASE g = h
      <3>1. CASE pc = "extend"
        <4>1. r \in raced' \/ ~ At(r, Ends)
          BY <1>2, <1>5, <3>1 DEF Ends
        <4>2. subs'[r].status # "EXPIRED"
          BY <1>2, <1>5, <1>6, <3>1
        <4>3. pc \notin Ends
          BY <3>1 DEF Ends
        <4> QED
          BY <1>4, <1>12, <2>1, <4>1, <4>2, <4>3 DEF NoSurprise, At
      <3>2. CASE pc # "extend"
        BY <1>2, <1>4, <2>1, <3>2 DEF NoSurprise, Ends
      <3> QED
        BY <3>1, <3>2
    <2>2. CASE g # h
      <3>1. request'[g] = request[g] /\ NoSurprise(g) /\ request[g].r \in Nat
        BY <1>1, <1>4, <2>2 DEF SubscriptionsInv, NoSurprises, TypeOK
      <3>2. At(request[g].r, Ends)' => At(request[g].r, Ends)
        BY <3>1, <1>12 DEF At
      <3>3. raced \subseteq raced'
        BY <1>5
      <3> QED
        BY <1>5, <3>1, <3>2, <3>3 DEF NoSurprise, Past, At
    <2> QED
      BY <2>1, <2>2
  <1>14. NoSurprises'
    BY <1>13 DEF NoSurprises
  <1> QED
    BY <1>7, <1>8, <1>9, <1>10, <1>11, <1>14 DEF SubscriptionsInv

\* What a grant adds to the record.
LEMMA GrantCounted ==
    ASSUME SubscriptionsInv, OnceInv, NEW h \in Handlers, NEW o \in Orders, order[o] # "none",
           Delivers(h, o), ~ Doing(h, "paid"), Granted(h, o), UNCHANGED <<order, planOf>>
    PROVE  /\ grants' \in [Orders -> Nat]
           /\ doubled' \subseteq Orders
           /\ grants'[o] > 0
           /\ bought' \in Nat
           /\ bought <= bought'
           /\ Duration[planOf[o]] # Null => bought' = bought + Duration[planOf[o]]
           /\ OrdersKept
           /\ OrdersFit'
           /\ PaidIsGranted'
  <1>1. planOf[o] \in Plans
    BY DEF SubscriptionsInv, OrdersFit
  <1>2. Duration[planOf[o]] \in Nat \cup {Null} /\ bought \in Nat
    BY <1>1, SubscriptionsAssumption DEF SubscriptionsInv, TypeOK
  <1>3. /\ grants \in [Orders -> Nat]
        /\ grants' = [grants EXCEPT ![o] = grants[o] + 1]
    BY DEF SubscriptionsInv, TypeOK, Granted
  <1>4. /\ grants' \in [Orders -> Nat]
        /\ grants'[o] > 0
        /\ \A x \in Orders : grants[x] > 0 => grants'[x] > 0
        /\ \A x \in Orders : x # o => grants'[x] = grants[x]
    BY <1>3
  <1>5. OrdersKept /\ OrdersFit' /\ PaidIsGranted'
    BY <1>4 DEF SubscriptionsInv, OrdersKept, OrdersFit, PaidIsGranted
  <1>6. ~ (grants[o] > 0 /\ o \notin doubled)
    BY DEF OnceInv, Once
  <1>7. doubled' \subseteq Orders
    BY DEF SubscriptionsInv, TypeOK, Granted
  <1>8. bought' = IF Duration[planOf[o]] = Null THEN bought ELSE bought + Duration[planOf[o]]
    BY <1>6 DEF Granted
  <1> QED
    BY <1>2, <1>4, <1>5, <1>7, <1>8

\* Extending a row.
LEMMA ExtendInv ==
    ASSUME SubscriptionsInv, OnceInv, NEW h \in Handlers, Extend(h)
    PROVE  SubscriptionsInv'
  <1>1. /\ TypeOK /\ RequestsFit /\ OrdersFit
        /\ RequestFits(h) /\ NoSurprise(h) /\ request[h].pc = "extend"
    BY DEF SubscriptionsInv, RequestsFit, NoSurprises, Extend, Doing
  <1>2. PICK o \in Orders : request[h].o = o /\ order[o] # "none"
    BY <1>1 DEF RequestFits, HasOrder
  <1>3. PICK date \in Int : /\ request[h].date = date
                            /\ Duration[planOf[o]] # Null
                            /\ date <= bought + Duration[planOf[o]]
    <2>1. request[h].date \in Date
      BY <1>1 DEF TypeOK
    <2> QED
      BY <1>1, <1>2, <2>1 DEF RequestFits, DateCovered, Date
  <1>4. PICK r \in DOMAIN subs :
            /\ request[h].r = r
            /\ subs' \in Seq(Subscription)
            /\ DOMAIN subs' = DOMAIN subs
            /\ subs'[r].status = subs[r].status
            /\ subs'[r].expires = request[h].date
            /\ subs'[r].grace = Null
            /\ \A q \in DOMAIN subs : q # r => subs'[q] = subs[q]
    BY <1>1, ExtendedRow
  <1>5. UNCHANGED <<order, planOf, raced>>
    BY DEF Extend
  <1>6. /\ grants' \in [Orders -> Nat]
        /\ doubled' \subseteq Orders
        /\ grants'[o] > 0
        /\ bought' \in Nat
        /\ bought <= bought'
        /\ bought' = bought + Duration[planOf[o]]
        /\ OrdersKept
        /\ OrdersFit'
        /\ PaidIsGranted'
    <2>1. Delivers(h, o) /\ ~ Doing(h, "paid") /\ Granted(h, o)
      BY <1>1, <1>2 DEF Extend, Delivers, Doing
    <2> QED
      BY <1>2, <1>3, <1>5, <2>1, GrantCounted
  <1>7. /\ request' \in [Handlers -> Requests]
        /\ request'[h].pc = "paid"
        /\ request'[h].o = request[h].o
        /\ \A g \in Handlers : g # h => request'[g] = request[g]
    BY <1>1, Continued DEF Extend, Pcs
  <1>8. TypeOK'
    BY <1>1, <1>4, <1>5, <1>6, <1>7 DEF TypeOK, Requests
  <1>9. RequestsFit'
    <2> SUFFICES ASSUME NEW g \in Handlers PROVE RequestFits(g)'
      BY DEF RequestsFit
    <2>1. CASE g = h
      BY <1>2, <1>5, <1>6, <1>7, <2>1 DEF RequestFits, HasOrder, HasRow
    <2>2. CASE g # h
      <3>1. RequestFits(g) /\ request'[g] = request[g]
        BY <1>1, <1>7, <2>2 DEF RequestsFit
      <3> QED
        BY <1>1, <1>4, <1>6, <3>1, OthersFit
    <2> QED
      BY <2>1, <2>2
  <1>10. NeverBeyondBought'
    <2> SUFFICES ASSUME NEW q \in DOMAIN subs
                 PROVE  /\ subs'[q].expires # Null => subs'[q].expires <= bought'
                        /\ subs'[q].grace # Null => subs'[q].grace <= bought' + GraceDays
                        /\ subs'[q].expires = Null =>
                              \E x \in Orders : grants'[x] > 0 /\ Duration[planOf'[x]] = Null
      BY <1>4 DEF NeverBeyondBought
    <2>1. CASE q = r
      BY <1>3, <1>4, <1>6, <2>1, SubscriptionsAssumption
    <2>2. CASE q # r
      <3>1. subs'[q] = subs[q]
        BY <1>4, <2>2
      <3>2. subs[q].expires \in Date /\ subs[q].grace \in Date
        BY <1>1, RowColumns
      <3>3. bought \in Nat /\ GraceDays \in Nat
        BY <1>1, SubscriptionsAssumption DEF TypeOK
      <3>4. /\ subs[q].expires # Null => subs[q].expires <= bought
            /\ subs[q].grace # Null => subs[q].grace <= bought + GraceDays
            /\ subs[q].expires = Null =>
                  \E x \in Orders : grants[x] > 0 /\ Duration[planOf[x]] = Null
        BY DEF SubscriptionsInv, NeverBeyondBought
      <3>5. subs[q].expires = Null =>
                \E x \in Orders : grants'[x] > 0 /\ Duration[planOf'[x]] = Null
        BY <1>5, <1>6, <3>4 DEF OrdersKept
      <3> QED
        BY <1>6, <3>1, <3>2, <3>3, <3>4, <3>5 DEF Date
    <2> QED
      BY <2>1, <2>2
  <1>11. ExpiredIsOver'
    <2>1. subs[r].status = "EXPIRED" => r \in raced
      BY <1>1, <1>4 DEF NoSurprise
    <2> QED
      BY <1>4, <1>5, <2>1 DEF SubscriptionsInv, ExpiredIsOver, Past
  <1>12. ASSUME NEW q \in Nat PROVE At(q, Ends)' => At(q, Ends)
    BY <1>7 DEF At, Ends
  <1>13. ASSUME NEW g \in Handlers PROVE NoSurprise(g)'
    <2>1. CASE g = h
      BY <1>7, <2>1 DEF NoSurprise, Ends
    <2>2. CASE g # h
      <3>1. /\ request'[g] = request[g] /\ NoSurprise(g) /\ RequestFits(g)
            /\ request[g].r \in Nat
        BY <1>1, <1>7, <2>2 DEF SubscriptionsInv, NoSurprises, RequestsFit, TypeOK
      <3>2. At(request[g].r, Ends)' => At(request[g].r, Ends)
        BY <3>1, <1>12 DEF At
      <3>3. CASE request[g].pc \in Ends
        <4>1. request[g].r \in DOMAIN subs /\ request[g].pc # "extend"
          BY <3>1, <3>3 DEF RequestFits, HasRow, Ends
        <4>2. request[g].r = r => r \in raced
          BY <1>1, <1>4, <3>3 DEF NoSurprise, At
        <4>3. request[g].r # r => subs'[request[g].r] = subs[request[g].r]
          BY <1>4, <4>1
        <4> QED
          BY <1>5, <3>1, <4>1, <4>2, <4>3 DEF NoSurprise, Past
      <3>4. CASE request[g].pc = "extend"
        <4>1. request[g].r \in DOMAIN subs /\ request[g].pc \notin Ends
          BY <3>1, <3>4 DEF RequestFits, HasRow, Ends
        <4>2. subs'[request[g].r].status = subs[request[g].r].status
          BY <1>4, <4>1
        <4> QED
          BY <1>5, <3>1, <3>2, <4>1, <4>2 DEF NoSurprise, At
      <3>5. CASE request[g].pc \notin Ends \cup {"extend"}
        BY <3>1, <3>5 DEF NoSurprise
      <3> QED
        BY <3>3, <3>4, <3>5
    <2> QED
      BY <2>1, <2>2
  <1>14. NoSurprises'
    BY <1>13 DEF NoSurprises
  <1> QED
    BY <1>6, <1>8, <1>9, <1>10, <1>11, <1>14 DEF SubscriptionsInv

\* Creating a row.
LEMMA InsertInv ==
    ASSUME SubscriptionsInv, OnceInv, NEW h \in Handlers, Insert(h)
    PROVE  SubscriptionsInv'
  <1>1. /\ TypeOK /\ RequestsFit /\ OrdersFit
        /\ RequestFits(h) /\ request[h].pc = "insert"
    BY DEF SubscriptionsInv, RequestsFit, Insert, Doing
  <1>2. PICK o \in Orders : request[h].o = o /\ order[o] # "none"
    BY <1>1 DEF RequestFits, HasOrder
  <1>3. request[h].date \in Date /\ DateCovered(request[h].date, o)
    BY <1>1, <1>2 DEF TypeOK, RequestFits
  <1>4. PICK r \in Nat :
            /\ subs' \in Seq(Subscription)
            /\ DOMAIN subs' = DOMAIN subs \cup {r}
            /\ r \notin DOMAIN subs
            /\ subs'[r].status = "ACTIVE"
            /\ subs'[r].expires = request[h].date
            /\ subs'[r].grace = Null
            /\ \A q \in DOMAIN subs : subs'[q] = subs[q]
    <2>1. Len(subs) + 1 \in Nat
      BY <1>1 DEF TypeOK
    <2> QED
      BY <1>1, <2>1, InsertedRow
  <1>5. UNCHANGED <<order, planOf, raced>>
    BY DEF Insert
  <1>6. /\ grants' \in [Orders -> Nat]
        /\ doubled' \subseteq Orders
        /\ grants'[o] > 0
        /\ bought' \in Nat
        /\ bought <= bought'
        /\ Duration[planOf[o]] # Null => bought' = bought + Duration[planOf[o]]
        /\ OrdersKept
        /\ OrdersFit'
        /\ PaidIsGranted'
    <2>1. Delivers(h, o) /\ ~ Doing(h, "paid") /\ Granted(h, o)
      BY <1>1, <1>2 DEF Insert, Delivers, Doing
    <2> QED
      BY <1>2, <1>5, <2>1, GrantCounted
  <1>7. /\ request' \in [Handlers -> Requests]
        /\ request'[h].pc = "paid"
        /\ request'[h].o = request[h].o
        /\ \A g \in Handlers : g # h => request'[g] = request[g]
    BY <1>1, Continued DEF Insert, Pcs
  <1>8. TypeOK'
    BY <1>1, <1>4, <1>5, <1>6, <1>7 DEF TypeOK, Requests
  <1>9. RequestsFit'
    <2> SUFFICES ASSUME NEW g \in Handlers PROVE RequestFits(g)'
      BY DEF RequestsFit
    <2>1. CASE g = h
      BY <1>2, <1>5, <1>6, <1>7, <2>1 DEF RequestFits, HasOrder, HasRow
    <2>2. CASE g # h
      <3>1. RequestFits(g) /\ request'[g] = request[g]
        BY <1>1, <1>7, <2>2 DEF RequestsFit
      <3> QED
        BY <1>1, <1>4, <1>6, <3>1, OthersFit
    <2> QED
      BY <2>1, <2>2
  <1>10. NeverBeyondBought'
    <2> SUFFICES ASSUME NEW q \in DOMAIN subs \cup {r}
                 PROVE  /\ subs'[q].expires # Null => subs'[q].expires <= bought'
                        /\ subs'[q].grace # Null => subs'[q].grace <= bought' + GraceDays
                        /\ subs'[q].expires = Null =>
                              \E x \in Orders : grants'[x] > 0 /\ Duration[planOf'[x]] = Null
      BY <1>4 DEF NeverBeyondBought
    <2>1. CASE q = r
      <3>1. subs'[q].grace = Null /\ subs'[q].expires = request[h].date
        BY <1>4, <2>1
      <3>2. request[h].date # Null => request[h].date <= bought'
        BY <1>3, <1>6 DEF DateCovered
      <3>3. request[h].date = Null => grants'[o] > 0 /\ Duration[planOf'[o]] = Null
        BY <1>3, <1>5, <1>6 DEF DateCovered
      <3> QED
        BY <3>1, <3>2, <3>3
    <2>2. CASE q # r
      <3>1. subs'[q] = subs[q] /\ q \in DOMAIN subs
        BY <1>4, <2>2
      <3>2. subs[q].expires \in Date /\ subs[q].grace \in Date
        BY <1>1, <3>1, RowColumns
      <3>3. bought \in Nat /\ GraceDays \in Nat
        BY <1>1, SubscriptionsAssumption DEF TypeOK
      <3>4. /\ subs[q].expires # Null => subs[q].expires <= bought
            /\ subs[q].grace # Null => subs[q].grace <= bought + GraceDays
            /\ subs[q].expires = Null =>
                  \E x \in Orders : grants[x] > 0 /\ Duration[planOf[x]] = Null
        BY <3>1 DEF SubscriptionsInv, NeverBeyondBought
      <3>5. subs[q].expires = Null =>
                \E x \in Orders : grants'[x] > 0 /\ Duration[planOf'[x]] = Null
        BY <1>5, <1>6, <3>4 DEF OrdersKept
      <3> QED
        BY <1>6, <3>1, <3>2, <3>3, <3>4, <3>5 DEF Date
    <2> QED
      BY <2>1, <2>2
  <1>11. ExpiredIsOver'
    BY <1>4, <1>5 DEF SubscriptionsInv, ExpiredIsOver, Past
  <1>12. ASSUME NEW g \in Handlers PROVE NoSurprise(g)'
    <2>1. CASE g = h
      BY <1>7, <2>1 DEF NoSurprise, Ends
    <2>2. CASE g # h
      <3>1. request'[g] = request[g] /\ NoSurprise(g) /\ RequestFits(g)
        BY <1>1, <1>7, <2>2 DEF SubscriptionsInv, NoSurprises, RequestsFit
      <3>2. At(request[g].r, Ends)' => At(request[g].r, Ends)
        BY <1>7, <3>1 DEF At, Ends
      <3>3. CASE request[g].pc \in Ends \cup {"extend"}
        <4>1. request[g].r \in DOMAIN subs
          BY <3>1, <3>3 DEF RequestFits, HasRow, Ends
        <4>2. subs'[request[g].r] = subs[request[g].r]
          BY <1>4, <4>1
        <4> QED
          BY <1>5, <3>1, <3>2, <4>2 DEF NoSurprise, Past, At
      <3>4. CASE request[g].pc \notin Ends \cup {"extend"}
        BY <3>1, <3>4 DEF NoSurprise
      <3> QED
        BY <3>3, <3>4
    <2> QED
      BY <2>1, <2>2
  <1>13. NoSurprises'
    BY <1>12 DEF NoSurprises
  <1> QED
    BY <1>6, <1>8, <1>9, <1>10, <1>11, <1>13 DEF SubscriptionsInv

-----------------------------------------------------------------------------
\* A date that time bought covers is covered a day later.
LEMMA CoveredLater ==
    ASSUME TypeOK, NEW date \in Date, date # Null, NEW n \in Nat,
           date <= bought + n,
           bought' = IF bought = 0 THEN 0 ELSE bought - 1
    PROVE  Later(date) # Null /\ Later(date) <= bought' + n
  <1>1. bought \in Nat /\ bought' \in Nat /\ date \in Int
    BY DEF TypeOK, Date
  <1>2. Later(date) # Null /\ Later(date) \in Int /\ Later(date) <= date
    BY <1>1, DayLater DEF Date
  <1>3. CASE bought = 0
    BY <1>1, <1>2, <1>3
  <1>4. CASE bought # 0
    <2>1. bought' + n \in Nat /\ date <= (bought' + n) + 1
      BY <1>1, <1>4
    <2> QED
      BY <1>2, <2>1, DayLater
  <1> QED
    BY <1>3, <1>4

\* A day passes.
LEMMA DayPassesInv ==
    ASSUME SubscriptionsInv, DayPasses
    PROVE  SubscriptionsInv'
  <1>1. TypeOK /\ RequestsFit /\ OrdersFit
    BY DEF SubscriptionsInv
  <1>2. /\ subs' \in Seq(Subscription)
        /\ DOMAIN subs' = DOMAIN subs
        /\ \A q \in DOMAIN subs :
              /\ subs'[q].status = subs[q].status
              /\ subs'[q].expires = Later(subs[q].expires)
              /\ subs'[q].grace = Later(subs[q].grace)
    BY <1>1, DayRows
  <1>3. /\ request' \in [Handlers -> Requests]
        /\ \A h \in Handlers :
              /\ request'[h].pc = request[h].pc
              /\ request'[h].o = request[h].o
              /\ request'[h].r = request[h].r
              /\ request'[h].date = Later(request[h].date)
    BY <1>1, DayRequests
  <1>4. /\ bought' = IF bought = 0 THEN 0 ELSE bought - 1
        /\ UNCHANGED <<order, planOf, grants, raced, doubled>>
    BY DEF DayPasses
  <1>5. bought \in Nat /\ bought' \in Nat /\ GraceDays \in Nat
    BY <1>1, <1>4, SubscriptionsAssumption DEF TypeOK
  <1>6. TypeOK'
    BY <1>1, <1>2, <1>3, <1>4, <1>5 DEF TypeOK, Requests
  <1>7. OrdersFit' /\ PaidIsGranted'
    BY <1>4 DEF SubscriptionsInv, OrdersFit, PaidIsGranted
  <1>8. ASSUME NEW h \in Handlers PROVE RequestFits(h)'
    <2>1. RequestFits(h) /\ request[h].date \in Date
      BY <1>1 DEF RequestsFit, TypeOK
    <2>2. request[h].pc \in HasOrder =>
              request[h].o \in Orders /\ planOf[request[h].o] \in Plans
      BY <1>1, <2>1 DEF RequestFits, OrdersFit
    <2>3. Later(request[h].date) = Null <=> request[h].date = Null
      BY <2>1, DayLater
    <2>4. ASSUME request[h].pc \in {"extend", "supersede", "insert"}
          PROVE  /\ Later(request[h].date) = Null <=> Duration[planOf[request[h].o]] = Null
                 /\ Later(request[h].date) # Null =>
                       Later(request[h].date) <= bought' + Duration[planOf[request[h].o]]
      <3>1. DateCovered(request[h].date, request[h].o)
        BY <2>1, <2>4 DEF RequestFits
      <3>2. Duration[planOf[request[h].o]] \in Nat \cup {Null}
        BY <2>2, <2>4, SubscriptionsAssumption DEF HasOrder
      <3>3. CASE request[h].date = Null
        BY <2>3, <3>1, <3>3 DEF DateCovered
      <3>4. CASE request[h].date # Null
        <4>1. Duration[planOf[request[h].o]] \in Nat
          BY <3>1, <3>2, <3>4 DEF DateCovered
        <4>2. request[h].date <= bought + Duration[planOf[request[h].o]]
          BY <3>1, <3>4 DEF DateCovered
        <4> QED
          BY <1>1, <1>4, <2>1, <3>1, <3>4, <4>1, <4>2, CoveredLater DEF DateCovered
      <3> QED
        BY <3>3, <3>4
    <2>5. ASSUME request[h].pc \in {"open", "remind"}
          PROVE  Later(request[h].date) # Null /\ Later(request[h].date) <= bought' + GraceDays
      <3>1. request[h].date # Null /\ request[h].date <= bought + GraceDays
        BY <2>1, <2>5 DEF RequestFits
      <3> QED
        BY <1>1, <1>4, <1>5, <2>1, <3>1, CoveredLater
    <2> QED
      BY <1>2, <1>3, <1>4, <2>1, <2>3, <2>4, <2>5 DEF RequestFits, DateCovered
  <1>9. RequestsFit'
    BY <1>8 DEF RequestsFit
  <1>10. ASSUME NEW q \in DOMAIN subs
         PROVE  /\ Past(subs[q].expires) => Past(subs'[q].expires)
                /\ subs'[q].expires # Null => subs'[q].expires <= bought'
                /\ subs'[q].grace # Null => subs'[q].grace <= bought' + GraceDays
                /\ subs'[q].expires = Null => subs[q].expires = Null
    <2>1. subs[q].expires \in Date /\ subs[q].grace \in Date
      BY <1>1, RowColumns
    <2>2. /\ subs[q].expires # Null => subs[q].expires <= bought + 0
          /\ subs[q].grace # Null => subs[q].grace <= bought + GraceDays
      BY <1>5 DEF SubscriptionsInv, NeverBeyondBought
    <2>3. subs[q].expires # Null => Later(subs[q].expires) <= bought' + 0
      BY <1>1, <1>4, <2>1, <2>2, CoveredLater
    <2>4. subs[q].grace # Null => Later(subs[q].grace) <= bought' + GraceDays
      BY <1>1, <1>4, <1>5, <2>1, <2>2, CoveredLater
    <2>5. /\ Past(subs[q].expires) => Past(Later(subs[q].expires))
          /\ Later(subs[q].expires) = Null <=> subs[q].expires = Null
          /\ Later(subs[q].grace) = Null <=> subs[q].grace = Null
      BY <2>1, DayLater
    <2> QED
      BY <1>2, <1>5, <2>3, <2>4, <2>5
  <1>11. NeverBeyondBought'
    BY <1>2, <1>4, <1>10 DEF SubscriptionsInv, NeverBeyondBought
  <1>12. ExpiredIsOver'
    BY <1>2, <1>4, <1>10 DEF SubscriptionsInv, ExpiredIsOver
  <1>13. ASSUME NEW g \in Handlers PROVE NoSurprise(g)'
    <2>1. NoSurprise(g) /\ RequestFits(g)
      BY <1>1 DEF SubscriptionsInv, NoSurprises, RequestsFit
    <2>2. At(request[g].r, Ends)' <=> At(request[g].r, Ends)
      BY <1>3 DEF At
    <2>3. request[g].pc \in Ends \cup {"extend"} => request[g].r \in DOMAIN subs
      BY <2>1 DEF RequestFits, HasRow, Ends
    <2>4. CASE request[g].pc \in Ends
      BY <1>3, <1>4, <1>10, <2>1, <2>3, <2>4 DEF NoSurprise, Ends
    <2>5. CASE request[g].pc = "extend"
      <3>1. request[g].pc \notin Ends
        BY <2>5 DEF Ends
      <3>2. subs'[request[g].r].status = subs[request[g].r].status
        BY <1>2, <2>3, <2>5
      <3> QED
        BY <1>3, <1>4, <2>1, <2>2, <2>5, <3>1, <3>2 DEF NoSurprise, At
    <2>6. CASE request[g].pc \notin Ends \cup {"extend"}
      BY <1>3, <2>6 DEF NoSurprise
    <2> QED
      BY <2>4, <2>5, <2>6
  <1>14. NoSurprises'
    BY <1>13 DEF NoSurprises
  <1> QED
    BY <1>6, <1>7, <1>9, <1>11, <1>12, <1>14 DEF SubscriptionsInv

-----------------------------------------------------------------------------
\* The deliveries at work are the same, one by one, and so is what they have granted.
SameDeliveries ==
    \A g \in Handlers, o \in Orders :
        /\ Delivers(g, o)' <=> Delivers(g, o)
        /\ Delivers(g, o) => (Doing(g, "paid")' <=> Doing(g, "paid"))

LEMMA OnceKept ==
    ASSUME OnceInv, SameDeliveries, UNCHANGED <<grants, doubled>>,
           \A o \in Orders : order'[o] = "PENDING" /\ grants[o] > 0 => order[o] = "PENDING"
    PROVE  OnceInv'
  BY DEF OnceInv, Once, SameDeliveries

\* What a request turns into tells what it delivers.
LEMMA SameButOne ==
    ASSUME NEW h \in Handlers, \A g \in Handlers : g # h => request'[g] = request[g],
           \A o \in Orders : Delivers(h, o)' <=> Delivers(h, o),
           \A o \in Orders : Delivers(h, o) => (Doing(h, "paid")' <=> Doing(h, "paid"))
    PROVE  SameDeliveries
  BY DEF SameDeliveries, Delivers, Doing

\* A delivery that sets out is alone, or the order is not granted, or it is doubled now.
LEMMA DeliverOnce ==
    ASSUME SubscriptionsInv, OnceInv, NEW h \in Handlers, NEW o \in Orders, Fulfill(h, o)
    PROVE  OnceInv'
  <1>1. /\ request \in [Handlers -> Requests] /\ request[h].pc = "idle" /\ order[o] = "PENDING"
        /\ request' = [request EXCEPT ![h] = [pc |-> "find", o |-> o, r |-> 0, date |-> Null]]
        /\ doubled' = IF \E g \in Handlers : Delivers(g, o) /\ Doing(g, "paid")
                      THEN doubled \cup {o} ELSE doubled
        /\ UNCHANGED <<order, grants>>
    BY DEF Fulfill, Deliver, Doing, SubscriptionsInv, TypeOK, Requests
  <1>2. /\ request'[h] = [pc |-> "find", o |-> o, r |-> 0, date |-> Null]
        /\ \A g \in Handlers : g # h => request'[g] = request[g]
    BY <1>1
  <1>3. ASSUME NEW x \in Orders PROVE Once(x)'
    <2>1. CASE x = o
      <3>1. ~ (grants'[o] > 0 /\ o \notin doubled')
        BY <1>1 DEF OnceInv, Once
      <3> QED
        BY <2>1, <3>1 DEF Once
    <2>2. CASE x # o
      <3>1. \A g \in Handlers : /\ Delivers(g, x)' <=> Delivers(g, x)
                                /\ Delivers(g, x) => (Doing(g, "paid")' <=> Doing(g, "paid"))
        BY <1>1, <1>2, <2>2 DEF Delivers, Doing
      <3>2. grants'[x] = grants[x] /\ order'[x] = order[x] /\ (x \in doubled' <=> x \in doubled)
        BY <1>1, <2>2
      <3>3. Once(x)
        BY DEF OnceInv
      <3> QED
        BY <3>1, <3>2, <3>3 DEF Once
    <2> QED
      BY <2>1, <2>2
  <1> QED
    BY <1>3 DEF OnceInv

\* A grant is the first, and its delivery alone, or the order is doubled now.
LEMMA GrantOnce ==
    ASSUME SubscriptionsInv, OnceInv, NEW h \in Handlers, Extend(h) \/ Insert(h)
    PROVE  OnceInv'
  <1>1. /\ TypeOK /\ RequestFits(h) /\ request[h].pc \in {"extend", "insert"}
        /\ Granted(h, request[h].o) /\ Continue(h, "paid") /\ UNCHANGED order
    BY DEF Extend, Insert, Doing, SubscriptionsInv, RequestsFit
  <1>2. PICK o \in Orders : request[h].o = o
    BY <1>1 DEF RequestFits, HasOrder
  <1>3. /\ request'[h].pc = "paid" /\ request'[h].o = o
        /\ \A g \in Handlers : g # h => request'[g] = request[g]
    BY <1>1, <1>2, Continued DEF Pcs
  <1>4. /\ grants \in [Orders -> Nat] /\ grants' = [grants EXCEPT ![o] = grants[o] + 1]
        /\ doubled' = IF \E g \in Handlers \ {h} : Delivers(g, o) THEN doubled \cup {o} ELSE doubled
    BY <1>1, <1>2 DEF Granted, TypeOK
  <1>5. ASSUME NEW x \in Orders PROVE Once(x)'
    <2>1. CASE x = o
      <3>1. Delivers(h, o)' /\ Doing(h, "paid")'
        BY <1>3 DEF Delivers, Doing
      <3>2. ASSUME o \notin doubled', NEW g \in Handlers, Delivers(g, o)' PROVE g = h
        BY <1>3, <1>4, <3>2 DEF Delivers
      <3> QED
        BY <2>1, <3>1, <3>2 DEF Once
    <2>2. CASE x # o
      <3>1. \A g \in Handlers : /\ Delivers(g, x)' <=> Delivers(g, x)
                                /\ Delivers(g, x) => (Doing(g, "paid")' <=> Doing(g, "paid"))
        BY <1>2, <1>3, <2>2 DEF Delivers, Doing
      <3>2. grants'[x] = grants[x] /\ order'[x] = order[x] /\ (x \in doubled' <=> x \in doubled)
        BY <1>1, <1>4, <2>2
      <3>3. Once(x)
        BY DEF OnceInv
      <3> QED
        BY <3>1, <3>2, <3>3 DEF Once
    <2> QED
      BY <2>1, <2>2
  <1> QED
    BY <1>5 DEF OnceInv

\* A delivery that ends has written PAID, or had granted nothing, or its order is doubled.
LEMMA EndOnce ==
    ASSUME SubscriptionsInv, OnceInv, NEW h \in Handlers, OrderPaid(h) \/ Abort(h)
    PROVE  OnceInv'
  <1>1. /\ request' \in [Handlers -> Requests] /\ request'[h].pc = "idle"
        /\ \A g \in Handlers : g # h => request'[g] = request[g]
        /\ grants' = grants /\ doubled \subseteq doubled'
        /\ order \in [Orders -> {"none", "PENDING", "PAID"}]
    BY Answered DEF OrderPaid, Abort, SubscriptionsInv, TypeOK
  <1>2. \/ Doing(h, "paid") /\ order' = [order EXCEPT ![request[h].o] = "PAID"]
        \/ Doing(h, "paid") /\ request[h].o \in doubled' /\ order' = order
        \/ ~ Doing(h, "paid") /\ order' = order
    BY DEF OrderPaid, Abort
  <1>3. \A g \in Handlers, o \in Orders :
            /\ Delivers(g, o)' =>
                  g # h /\ Delivers(g, o) /\ (Doing(g, "paid")' <=> Doing(g, "paid"))
            /\ Delivers(g, o) => g = h \/ Delivers(g, o)'
    BY <1>1 DEF Delivers, Doing
  <1>4. ASSUME NEW o \in Orders, grants'[o] > 0, o \notin doubled' PROVE Once(o)'
    <2>1. /\ \A g \in Handlers : Delivers(g, o) => Doing(g, "paid")
          /\ \A g, f \in Handlers : Delivers(g, o) /\ Delivers(f, o) => g = f
          /\ order[o] = "PENDING" => \E g \in Handlers : Delivers(g, o)
      BY <1>1, <1>4 DEF OnceInv, Once
    <2>2. ASSUME order'[o] = "PENDING" PROVE \E g \in Handlers : Delivers(g, o)'
      <3>1. order[o] = "PENDING"
        BY <1>1, <1>2, <2>2
      <3>2. PICK g \in Handlers : Delivers(g, o)
        BY <2>1, <3>1
      <3>3. g # h
        BY <1>1, <1>2, <1>4, <2>1, <2>2, <3>2 DEF Delivers
      <3> QED
        BY <1>3, <3>2, <3>3
    <2> QED
      BY <1>3, <2>1, <2>2 DEF Once
  <1> QED
    BY <1>4 DEF OnceInv, Once

\* The steps that deliver on, or nothing.
LEMMA OtherOnce ==
    ASSUME SubscriptionsInv, OnceInv, Next,
           ~ \E h \in Handlers, o \in Orders : Fulfill(h, o),
           ~ \E h \in Handlers : Extend(h) \/ Insert(h) \/ OrderPaid(h) \/ Abort(h)
    PROVE  OnceInv'
  <1>1. TypeOK /\ request \in [Handlers -> Requests]
    BY DEF SubscriptionsInv, TypeOK, Requests
  <1>2. ASSUME NEW h \in Handlers, FindExisting(h) \/ Supersede(h) PROVE OnceInv'
    <2>1. /\ \A g \in Handlers : g # h => request'[g] = request[g]
          /\ request[h].pc \in {"find", "supersede"} /\ request'[h].o = request[h].o
          /\ request'[h].pc \in {"extend", "supersede", "insert"}
          /\ UNCHANGED <<order, grants, doubled>>
      BY <1>1, <1>2 DEF FindExisting, Supersede, Continue, Doing, Requests
    <2>2. SameDeliveries
      BY <2>1, SameButOne DEF Delivers, Doing
    <2> QED
      BY <2>1, <2>2, OnceKept
  <1>3. ASSUME NEW h \in Handlers,
               \/ FindOver(h) \/ Expire(h) \/ Lapse(h) \/ Remind(h) \/ Attach(h)
               \/ \E r \in DOMAIN subs : SweepLapsed(h, r) \/ SweepDue(h, r)
        PROVE  OnceInv'
    <2> DEFINE Elsewhere == {"idle", "expire", "lapse", "open", "remind", "attach"}
    <2>1. /\ \A g \in Handlers : g # h => request'[g] = request[g]
          /\ request[h].pc \in Elsewhere /\ request'[h].pc \in Elsewhere
          /\ UNCHANGED <<order, grants, doubled>>
      BY <1>1, <1>3
         DEF FindOver, Expire, Lapse, Remind, Attach, SweepLapsed, SweepDue, Answer, NoRequest,
             Doing, Requests
    <2>2. SameDeliveries
      BY <2>1, SameButOne DEF Delivers, Doing
    <2> QED
      BY <2>1, <2>2, OnceKept
  <1>4. ASSUME NEW o \in Orders, order[o] = "none", order' = [order EXCEPT ![o] = "PENDING"],
               UNCHANGED <<grants, doubled>>, SameDeliveries
        PROVE  OnceInv'
    <2>1. ~ (grants[o] > 0) /\ order \in [Orders -> {"none", "PENDING", "PAID"}]
      BY <1>1, <1>4 DEF SubscriptionsInv, OrdersFit, TypeOK
    <2> QED
      BY <1>4, <2>1, OnceKept
  <1>5. ASSUME NEW h \in Handlers, NEW o \in Orders, OpenRenewal(h, o) \/ RenewNow(h, o)
        PROVE  OnceInv'
    <2>1. /\ \A g \in Handlers : g # h => request'[g] = request[g]
          /\ request[h].pc \in {"idle", "open"} /\ request'[h].pc \in {"attach", "remind"}
          /\ order[o] = "none" /\ order' = [order EXCEPT ![o] = "PENDING"]
          /\ UNCHANGED <<grants, doubled>>
      BY <1>1, <1>5 DEF OpenRenewal, RenewNow, Doing, Requests
    <2>2. SameDeliveries
      BY <2>1, SameButOne DEF Delivers, Doing
    <2> QED
      BY <1>4, <2>1, <2>2
  <1>6. ASSUME NEW o \in Orders, NEW p \in Plans, CreateOrder(o, p) PROVE OnceInv'
    <2>1. SameDeliveries
      BY <1>6 DEF CreateOrder, SameDeliveries, Delivers, Doing
    <2> QED
      BY <1>4, <1>6, <2>1 DEF CreateOrder
  <1>7. ASSUME NEW r \in DOMAIN subs, Cancel(r) PROVE OnceInv'
    <2>1. SameDeliveries
      BY <1>7 DEF Cancel, SameDeliveries, Delivers, Doing
    <2> QED
      BY <1>7, <2>1, OnceKept DEF Cancel
  <1>8. CASE DayPasses
    <2>1. SameDeliveries
      BY <1>1, <1>8, DayRequests DEF SameDeliveries, Delivers, Doing
    <2> QED
      BY <1>8, <2>1, OnceKept DEF DayPasses
  <1> QED
    BY <1>2, <1>3, <1>5, <1>6, <1>7, <1>8, SubscriptionsSteps

LEMMA OnceStepInv ==
    ASSUME SubscriptionsInv, OnceInv, [Next]_vars
    PROVE  OnceInv'
  <1>1. CASE UNCHANGED vars
    BY <1>1 DEF vars, OnceInv, Once, Delivers, Doing
  <1> QED
    BY <1>1, DeliverOnce, GrantOnce, EndOnce, OtherOnce

-----------------------------------------------------------------------------
\* Every step keeps the invariant: one action each, and doing nothing.
LEMMA SubscriptionsStepInv ==
    ASSUME SubscriptionsInv, OnceInv, [Next]_vars
    PROVE  SubscriptionsInv'
  <1>1. ASSUME NEW h \in Handlers, Expire(h) PROVE SubscriptionsInv'
    BY <1>1, EndingDone DEF Expire, Doing, Ends
  <1>2. ASSUME NEW h \in Handlers, Lapse(h) PROVE SubscriptionsInv'
    BY <1>2, EndingDone DEF Lapse, Doing, Ends
  <1>3. CASE UNCHANGED vars
    BY <1>3
       DEF vars, SubscriptionsInv, TypeOK, OrdersFit, RequestsFit, RequestFits, DateCovered,
           NoSurprises, NoSurprise, At, Past, NeverBeyondBought, ExpiredIsOver, PaidIsGranted
  <1>4. CASE Next
    BY <1>1, <1>2, <1>4, SubscriptionsSteps, FindExistingInv, ExtendInv, SupersedeInv,
       InsertInv, OrderPaidInv, FindOverInv, RemindInv, AttachInv, AbortInv, SweepLapsedInv,
       SweepDueInv, FulfillInv, OpenRenewalInv, RenewNowInv, CreateOrderInv, CancelInv,
       DayPassesInv
  <1> QED
    BY <1>3, <1>4

\* The inductive invariant of the subscriptions.
THEOREM SubscriptionsInvariant == Spec => [](SubscriptionsInv /\ OnceInv)
  <1>1. Init => SubscriptionsInv /\ OnceInv
    BY SubscriptionsInitInv DEF Init, OnceInv, Once
  <1>2. SubscriptionsInv /\ OnceInv /\ [Next]_vars => (SubscriptionsInv /\ OnceInv)'
    BY SubscriptionsStepInv, OnceStepInv
  <1> QED
    BY <1>1, <1>2, PTL DEF Spec

\* Every row, order, request and date keeps its type.
THEOREM SubscriptionsTypeCorrect == Spec => []TypeOK
  <1>1. SubscriptionsInv => TypeOK
    BY DEF SubscriptionsInv
  <1> QED
    BY <1>1, SubscriptionsInvariant, PTL

\* Access never outlasts what was paid for, each order counted once, however grants
\* (orders.service.ts), reminders and sweeps (subscriptions.service.ts) overlap; only an
\* order two deliveries were at work on, or whose delivery died before PAID, counts again.
THEOREM AccessIsBought == Spec => []NeverBeyondBought
  <1>1. SubscriptionsInv => NeverBeyondBought
    BY DEF SubscriptionsInv
  <1> QED
    BY <1>1, SubscriptionsInvariant, PTL

\* Paid time is expired only where an extension and an expiry overlapped.
THEOREM ExpiryIsDue == Spec => []ExpiredIsOver
  <1>1. SubscriptionsInv => ExpiredIsOver
    BY DEF SubscriptionsInv
  <1> QED
    BY <1>1, SubscriptionsInvariant, PTL

\* An order fulfill marks PAID was granted.
THEOREM PaidOrdersAreGranted == Spec => []PaidIsGranted
  <1>1. SubscriptionsInv => PaidIsGranted
    BY DEF SubscriptionsInv
  <1> QED
    BY <1>1, SubscriptionsInvariant, PTL
=============================================================================
