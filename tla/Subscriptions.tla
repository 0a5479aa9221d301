---------------------------- MODULE Subscriptions ----------------------------
(***************************************************************************)
(* The subscriptions of one user: OrdersService.fulfill with               *)
(* grantSubscription, and SubscriptionsService: mySubscription, renewNow,  *)
(* changePlan, cancel and the dunning sweep (processDunning).              *)
(*                                                                         *)
(* All of them read rows, decide, and write absolute values some queries   *)
(* later, with nothing tying the write to what was read.                   *)
(*                                                                         *)
(* Dates are counted in days from now, so a day passing makes every date,  *)
(* also one a request carries, one smaller.  Dates further back than       *)
(* LongAgo days are not told apart.                                        *)
(***************************************************************************)
EXTENDS Integers, Sequences

CONSTANTS Plans,
          Duration,      \* plan -> durationDays, Null for a lifetime plan
          Orders,        \* subscription orders that may be created
          Handlers,      \* requests in flight at a time
          Null,          \* a null column
          ReminderDays,  \* SUB_RENEW_REMINDER_DAYS
          GraceDays,     \* SUB_GRACE_DAYS
          MaxAttempts,   \* SUB_MAX_RENEW_ATTEMPTS
          LongAgo

ASSUME SubscriptionsAssumption ==
    /\ Null \notin Int
    /\ Null \notin Orders
    /\ Duration \in [Plans -> (Nat \ {0}) \cup {Null}]
    /\ ReminderDays \in Nat
    /\ GraceDays \in Nat
    /\ MaxAttempts \in Nat
    /\ LongAgo \in Nat
    /\ LongAgo > GraceDays

VARIABLES subs,     \* the user's Subscription rows in the order they started
          order,    \* Order.status, "none" before it is created
          planOf,   \* Order.planId
          request,  \* what each handler is doing
          grants,   \* history: how often an order was granted
          bought,   \* history: the end, in days from now, of everything paid for
          raced,    \* history: rows an extension and an expiry both worked on
          doubled   \* history: orders granted while another delivery was at work, or
                    \* by one that died before it wrote PAID

vars == <<subs, order, planOf, request, grants, bought, raced, doubled>>

Date == Int \cup {Null}

\* expires: expiresAt; grace: graceUntil; reminded: lastReminderAt is less than a
\* day ago; pending: pendingOrderId.
Subscription ==
    [plan : Plans, status : {"ACTIVE", "EXPIRED", "CANCELLED"}, autoRenew : BOOLEAN,
     expires : Date, grace : Date, attempts : Nat, reminded : BOOLEAN,
     pending : Orders \cup {Null}]

Pcs == {"idle", "find", "extend", "supersede", "insert", "paid",
        "expire", "lapse", "open", "remind", "attach"}

\* o: the order at work; r: the row read; date: the date to be written.
NoRequest == [pc |-> "idle", o |-> Null, r |-> 0, date |-> Null]

TypeOK ==
    /\ subs \in Seq(Subscription)
    /\ order \in [Orders -> {"none", "PENDING", "PAID"}]
    /\ planOf \in [Orders -> Plans \cup {Null}]
    /\ request \in [Handlers -> [pc : Pcs, o : Orders \cup {Null}, r : Nat, date : Date]]
    /\ grants \in [Orders -> Nat]
    /\ bought \in Nat
    /\ raced \subseteq DOMAIN subs
    /\ doubled \subseteq Orders

Init ==
    /\ subs = <<>>
    /\ order = [o \in Orders |-> "none"]
    /\ planOf = [o \in Orders |-> Null]
    /\ request = [h \in Handlers |-> NoRequest]
    /\ grants = [o \in Orders |-> 0]
    /\ bought = 0
    /\ raced = {}
    /\ doubled = {}

-----------------------------------------------------------------------------
Doing(h, pc) == request[h].pc = pc

Continue(h, pc) == request' = [request EXCEPT ![h].pc = pc]

Answer(h) == request' = [request EXCEPT ![h] = NoRequest]

Active == {r \in DOMAIN subs : subs[r].status = "ACTIVE"}

\* findFirst of the ACTIVE rows by startedAt, descending; 0 for none.
Newest == IF Active = {} THEN 0 ELSE CHOOSE r \in Active : \A q \in Active : q <= r

\* Someone else is at one of these steps on the row.
At(r, pcs) == \E g \in Handlers : request[g].r = r /\ request[g].pc \in pcs

Past(date) == date # Null /\ date < 0

\* createSubscriptionOrder, from a checkout or changePlan.
CreateOrder(o, p) ==
    /\ order[o] = "none"
    /\ order' = [order EXCEPT ![o] = "PENDING"]
    /\ planOf' = [planOf EXCEPT ![o] = p]
    /\ UNCHANGED <<subs, request, grants, bought, raced, doubled>>

\* h is fulfilling o.
Delivers(h, o) ==
    request[h].o = o /\ request[h].pc \in {"find", "extend", "supersede", "insert", "paid"}

\* A delivery sets out, beside one that has granted the order or not.
Deliver(h, o) ==
    /\ Doing(h, "idle")
    /\ request' = [request EXCEPT ![h] =
            [pc |-> "find", o |-> o, r |-> 0, date |-> Null]]
    /\ doubled' = IF \E g \in Handlers : Delivers(g, o) /\ Doing(g, "paid")
                  THEN doubled \cup {o} ELSE doubled
    /\ UNCHANGED <<subs, order, planOf, grants, bought, raced>>

\* Mutant of Fulfill: an order that is PAID is granted again.
FulfillAgain(h, o) == order[o] # "none" /\ Deliver(h, o)

\* fulfill of a paid order: reads it, and returns if it is PAID.  Deliveries of the
\* payment that passed markPaid's check before the first wrote PAID come here too.
Fulfill(h, o) == order[o] = "PENDING" /\ Deliver(h, o)

\* Where grantSubscription extends from: the later of now and the expiry.
Base(r) == IF subs[r].expires # Null /\ subs[r].expires > 0 THEN subs[r].expires ELSE 0

\* grantSubscription reads the plan, the clock and the newest ACTIVE row, and
\* decides: extend it, supersede it, or only insert a new one.
FindExisting(h) ==
    LET p == planOf[request[h].o]
        r == Newest IN
    /\ Doing(h, "find")
    /\ IF r # 0 /\ subs[r].plan = p /\ Duration[p] # Null
       THEN request' = [request EXCEPT ![h] =
                [pc |-> "extend", o |-> request[h].o, r |-> r, date |-> Base(r) + Duration[p]]]
       ELSE request' = [request EXCEPT ![h] =
                [pc |-> IF r # 0 /\ subs[r].plan # p THEN "supersede" ELSE "insert",
                 o |-> request[h].o, r |-> r, date |-> Duration[p]]]
    /\ raced' = IF r # 0 /\ At(r, {"expire", "lapse"}) THEN raced \cup {r} ELSE raced
    /\ UNCHANGED <<subs, order, planOf, grants, bought, doubled>>

\* A grant is on record: bought moves on by the plan's duration, for each order once, or
\* again if it is one of the doubled.
Granted(h, o) ==
    LET again == grants[o] > 0 /\ o \notin doubled
    IN  /\ grants' = [grants EXCEPT ![o] = @ + 1]
        /\ bought' = IF Duration[planOf[o]] = Null \/ again THEN bought
                     ELSE bought + Duration[planOf[o]]
        /\ doubled' = IF \E g \in Handlers \ {h} : Delivers(g, o)
                      THEN doubled \cup {o} ELSE doubled

\* The update of the row read, whose status it leaves alone.
Extend(h) ==
    LET r == request[h].r IN
    /\ Doing(h, "extend")
    /\ subs' = [subs EXCEPT ![r].expires = request[h].date, ![r].autoRenew = TRUE,
                            ![r].attempts = 0, ![r].reminded = FALSE,
                            ![r].grace = Null, ![r].pending = Null]
    /\ Granted(h, request[h].o)
    /\ Continue(h, "paid")
    /\ UNCHANGED <<order, planOf, raced>>

\* Mutant of Supersede: the switch stops after the old row.
SupersedeOnly(h) ==
    LET r == request[h].r IN
    /\ Doing(h, "supersede")
    /\ subs' = [subs EXCEPT ![r].status = "CANCELLED", ![r].autoRenew = FALSE]
    /\ Continue(h, "paid")
    /\ UNCHANGED <<order, planOf, grants, bought, raced, doubled>>

\* A switch of plans cancels the row read.
Supersede(h) ==
    LET r == request[h].r IN
    /\ Doing(h, "supersede")
    /\ subs' = [subs EXCEPT ![r].status = "CANCELLED", ![r].autoRenew = FALSE]
    /\ Continue(h, "insert")
    /\ UNCHANGED <<order, planOf, grants, bought, raced, doubled>>

Insert(h) ==
    /\ Doing(h, "insert")
    /\ subs' = Append(subs,
            [plan |-> planOf[request[h].o], status |-> "ACTIVE",
             autoRenew |-> request[h].date # Null, expires |-> request[h].date,
             grace |-> Null, attempts |-> 0, reminded |-> FALSE, pending |-> Null])
    /\ Granted(h, request[h].o)
    /\ Continue(h, "paid")
    /\ UNCHANGED <<order, planOf, raced>>

\* fulfill writes PAID after the grant.
OrderPaid(h) ==
    /\ Doing(h, "paid")
    /\ order' = [order EXCEPT ![request[h].o] = "PAID"]
    /\ Answer(h)
    /\ UNCHANGED <<subs, planOf, grants, bought, raced, doubled>>

-----------------------------------------------------------------------------
\* Mutant of Over: the last day counts as over.
OverOnLastDay(r) ==
    /\ subs[r].expires # Null /\ subs[r].expires <= 0
    /\ subs[r].grace # Null => subs[r].grace <= 0

\* The later of expiry and grace has passed; a lifetime row never ends.
Over(r) == Past(subs[r].expires) /\ (subs[r].grace # Null => subs[r].grace < 0)

\* mySubscription reads the newest ACTIVE row and finds it over.
FindOver(h) ==
    LET r == Newest IN
    /\ Doing(h, "idle")
    /\ r # 0 /\ Over(r)
    /\ request' = [request EXCEPT ![h] =
            [pc |-> "expire", o |-> Null, r |-> r, date |-> Null]]
    /\ raced' = IF At(r, {"extend"}) THEN raced \cup {r} ELSE raced
    /\ UNCHANGED <<subs, order, planOf, grants, bought, doubled>>

Expire(h) ==
    /\ Doing(h, "expire")
    /\ subs' = [subs EXCEPT ![request[h].r].status = "EXPIRED"]
    /\ Answer(h)
    /\ UNCHANGED <<order, planOf, grants, bought, raced, doubled>>

GraceEnd(r) == IF subs[r].grace # Null THEN subs[r].grace ELSE subs[r].expires + GraceDays

\* The rows the sweep looks at, inside the reminder window.
Due(r) ==
    /\ subs[r].status = "ACTIVE" /\ subs[r].autoRenew /\ subs[r].expires # Null
    /\ subs[r].expires <= ReminderDays

\* Past expiry, and past the grace window or out of attempts.
Lapsed(r) ==
    subs[r].expires < 0 /\ (GraceEnd(r) < 0 \/ subs[r].attempts >= MaxAttempts)

\* The sweep decides on the snapshot it took of the row.
SweepLapsed(h, r) ==
    /\ Doing(h, "idle")
    /\ Due(r) /\ Lapsed(r)
    /\ request' = [request EXCEPT ![h] =
            [pc |-> "lapse", o |-> Null, r |-> r, date |-> Null]]
    /\ raced' = IF At(r, {"extend"}) THEN raced \cup {r} ELSE raced
    /\ UNCHANGED <<subs, order, planOf, grants, bought, doubled>>

Lapse(h) ==
    LET r == request[h].r IN
    /\ Doing(h, "lapse")
    /\ subs' = [subs EXCEPT ![r].status = "EXPIRED", ![r].autoRenew = FALSE]
    /\ Answer(h)
    /\ UNCHANGED <<order, planOf, grants, bought, raced, doubled>>

\* Otherwise it reminds, at most once a day; it opens a renewal order unless the
\* row has one (no code marks an order FAILED).
SweepDue(h, r) ==
    /\ Doing(h, "idle")
    /\ Due(r) /\ ~ Lapsed(r) /\ ~ subs[r].reminded
    /\ request' = [request EXCEPT ![h] =
            [pc |-> IF subs[r].pending = Null THEN "open" ELSE "remind",
             o |-> subs[r].pending, r |-> r, date |-> GraceEnd(r)]]
    /\ UNCHANGED <<subs, order, planOf, grants, bought, raced, doubled>>

OpenRenewal(h, o) ==
    /\ Doing(h, "open")
    /\ order[o] = "none"
    /\ order' = [order EXCEPT ![o] = "PENDING"]
    /\ planOf' = [planOf EXCEPT ![o] = subs[request[h].r].plan]
    /\ request' = [request EXCEPT ![h].pc = "remind", ![h].o = o]
    /\ UNCHANGED <<subs, grants, bought, raced, doubled>>

Remind(h) ==
    LET r == request[h].r IN
    /\ Doing(h, "remind")
    /\ subs' = [subs EXCEPT ![r].attempts = @ + 1, ![r].reminded = TRUE,
                            ![r].grace = request[h].date, ![r].pending = request[h].o]
    /\ Answer(h)
    /\ UNCHANGED <<order, planOf, grants, bought, raced, doubled>>

\* renewNow reads the newest ACTIVE row and opens an order of its plan.
RenewNow(h, o) ==
    LET r == Newest IN
    /\ Doing(h, "idle")
    /\ r # 0 /\ Duration[subs[r].plan] # Null
    /\ order[o] = "none"
    /\ order' = [order EXCEPT ![o] = "PENDING"]
    /\ planOf' = [planOf EXCEPT ![o] = subs[r].plan]
    /\ request' = [request EXCEPT ![h] =
            [pc |-> "attach", o |-> o, r |-> r, date |-> Null]]
    /\ UNCHANGED <<subs, grants, bought, raced, doubled>>

Attach(h) ==
    /\ Doing(h, "attach")
    /\ subs' = [subs EXCEPT ![request[h].r].pending = request[h].o]
    /\ Answer(h)
    /\ UNCHANGED <<order, planOf, grants, bought, raced, doubled>>

\* cancel, from any status.
Cancel(r) ==
    /\ subs' = [subs EXCEPT ![r].status = "CANCELLED", ![r].autoRenew = FALSE]
    /\ UNCHANGED <<order, planOf, request, grants, bought, raced, doubled>>

\* A query rejects, or the process restarts; between the grant and PAID, a retry grants
\* the order again.
Abort(h) ==
    /\ ~ Doing(h, "idle")
    /\ Answer(h)
    /\ doubled' = IF Doing(h, "paid") THEN doubled \cup {request[h].o} ELSE doubled
    /\ UNCHANGED <<subs, order, planOf, grants, bought, raced>>

-----------------------------------------------------------------------------
\* A date seen a day later.
Later(date) == IF date = Null \/ date = -LongAgo THEN date ELSE date - 1

DayPasses ==
    /\ subs' = [r \in DOMAIN subs |->
            [subs[r] EXCEPT !.expires = Later(@), !.grace = Later(@), !.reminded = FALSE]]
    /\ request' = [h \in Handlers |-> [request[h] EXCEPT !.date = Later(@)]]
    /\ bought' = IF bought = 0 THEN 0 ELSE bought - 1
    /\ UNCHANGED <<order, planOf, grants, raced, doubled>>

Next ==
    \/ \E h \in Handlers :
          \/ FindExisting(h) \/ Extend(h) \/ Supersede(h) \/ Insert(h) \/ OrderPaid(h)
          \/ FindOver(h) \/ Expire(h)
          \/ Lapse(h) \/ Remind(h) \/ Attach(h) \/ Abort(h)
          \/ \E r \in DOMAIN subs : SweepLapsed(h, r) \/ SweepDue(h, r)
          \/ \E o \in Orders : Fulfill(h, o) \/ OpenRenewal(h, o) \/ RenewNow(h, o)
    \/ \E o \in Orders, p \in Plans : CreateOrder(o, p)
    \/ \E r \in DOMAIN subs : Cancel(r)
    \/ DayPasses

Spec == Init /\ [][Next]_vars

-----------------------------------------------------------------------------
\* Access never outlasts what was paid for: however grants, reminders and sweeps
\* overlap, no row ends later than the durations of the orders paid add up to, each
\* counted once, no grace window ends later than GraceDays after that, and a lifetime
\* row takes a granted lifetime order.  The exception is the doubled: bought counts an
\* order again if two deliveries were at work on it when one had granted it, or if one
\* died between the grant and PAID.
NeverBeyondBought ==
    \A r \in DOMAIN subs :
        /\ subs[r].expires # Null => subs[r].expires <= bought
        /\ subs[r].grace # Null => subs[r].grace <= bought + GraceDays
        /\ subs[r].expires = Null =>
              \E o \in Orders : grants[o] > 0 /\ Duration[planOf[o]] = Null

\* "expire (only after expiry)": a row that is EXPIRED with time left was extended
\* and expired by requests that overlapped; in every other order of calls neither
\* the sweep nor mySubscription takes paid time away.
ExpiredIsOver ==
    \A r \in DOMAIN subs :
        subs[r].status = "EXPIRED" => Past(subs[r].expires) \/ r \in raced

\* A PAID order has been granted: fulfill returns early on PAID, so nothing
\* would grant it later.
PaidIsGranted == \A o \in Orders : order[o] = "PAID" => grants[o] > 0

\* "Grant access for a paid order. Idempotent - safe to call from a webhook that
\* may be delivered more than once."
GrantedOnce == \A o \in Orders : grants[o] <= 1

\* LibraryService.hasActiveSubscription, which looks at expiresAt only.
LibraryAccess == Newest # 0 /\ ~ Past(subs[Newest].expires)

\* "access continues until this date while payment is retried"
GraceKeepsAccess ==
    Newest # 0 /\ subs[Newest].grace # Null /\ ~ Past(subs[Newest].grace) => LibraryAccess
=============================================================================
