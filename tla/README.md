# Formal models of the Consult Hub / 10X learning platform

The repository is a learning and consultation business: a NestJS backend over
Prisma and Postgres (`src/backend`), a Next.js web site and marketplace, two Expo
apps, and deployment scripts. This directory models the part of it where money, access
and allowances change hands, where a learner advances, and where the clients keep state
of their own; checks it with TLC and proves its main safety properties with TLAPS.

## The system

### How it executes

Three facts about the code shape every model here.

* **No transactions.** A service method is a sequence of awaited Prisma calls, each
  one atomic on the database, with nothing around them. Requests interleave at every
  `await`. A model therefore has *handlers* (requests in flight), each with a program
  counter, and one action per awaited query that another request could notice.
  Consecutive reads, or a read whose value cannot change, share a step.
* **Requests die.** A query can reject, and PM2 restarts the process when it exits or
  passes `max_memory_restart` (`src/ecosystem.config.js:29-36`). Both are `Abort(h)`:
  the request is gone, what it wrote stays. A restart is `Abort` taken by every
  handler in turn, so it needs no action of its own. Nothing resumes a dead request.
* **Notifications repeat.** Gateways deliver a webhook at least once, in any order. A
  notification is an input the environment may give at any time, any number of times.

### Components

Files are under `src/backend/src/`. `PROJECT.json` lists every component with its
status; these are the ones with state worth a model.

| Component | State | Operations | Hard because | Correct when |
|---|---|---|---|---|
| payments | `Payment.status`, `receiptNo` | `markPaid`, `markFailed`, checkout, bank transfer proof and verdict | redelivery, FAILED racing PAID, dying between the status write and the release | PAID is never lost; PAID means released |
| purchases | `Purchase.status` | `create`, `activate`, `cancel` | activation from any status | ACTIVE only behind a payment |
| orders | `Order.status`, entitlements, enrollments, memberships, subscriptions | `create*`, `fulfill` | a bundle is granted item by item | a PAID order has granted everything |
| payouts | `Payout` rows | `recordSale` | find-then-create without a unique key | one row per sale |
| attribution, referral | `SaleAttribution`, `Commission`, `ReferralReward` | `recordSale` | several creates behind different unique keys, errors swallowed | at most one commission and one bonus per role; whole unless cut |
| gamification | `UserGameStat` | `awardBonusPoints`, badges, streaks | idempotency left to the caller; find-then-create on a unique key | no double bonus |
| usage allowances | `textUsed`, `audioUsed`, `videoUsed`, `sessionsUsed` | `findUsablePurchase`, `hasRoom`, `consume` | check and increment are apart | limits hold, or are passed by a known amount |
| meetings | `Meeting.status`, `purchaseId` | `book`, `approve`, `reject`, `reschedule`, `cancel`, `complete` | `approve` waits for an external link with its checks behind it | an APPROVED session was charged for |
| messaging | `Conversation.status`, `purchaseId`, `Message` rows | `sendMessage`, `markRead`, `closeConsultation`, `submitFeedback` | statuses written from values read many queries before | messages are metered; the SINGLE workflow stays in order |
| hard copy orders | `HardCopyOrder.status` | `updateStatus`, the write in `markPaid` | admin and webhook both write | (recorded, no property) |
| subscriptions | `Subscription` status, `expiresAt`, `graceUntil`, `pendingOrderId` | grant, renew, change, cancel, dunning sweep | absolute dates from stale reads, a sweep over a snapshot | access is what was paid for, no more; paid time is not expired |
| authentication and devices | `UserDevice`, `OtpCode`, a `User` that may be deleted | sign-in by password or code, `registerDevice`, `revokeDevice`, `deleteAccount`, `JwtStrategy.validate` | `lastSeenAt` written by every request, unawaited; check and sign-out apart | no more devices than the limit; a deleted account is signed out |
| courses and learning | `LessonCompletion`, `Enrollment`, `QuizAttempt`, submissions; modules and lessons | progress, quiz, assignment and review, `recomputeProgress`, `findOne` with its locks, edits of the course | counts, maxima and sums from stale reads; locks computed from a structure that is edited | progress is earned; nobody gets stuck; limits hold up to overlap |
| certificates | `Certificate` rows | `ensureForCompletion`, `issueForUser` | find-then-create without a unique key | a completed course has one |
| notifications and scheduled broadcasts | `ScheduledNotification` | schedule, cancel, the minute timer and `runDueScheduled` | overlapping runs over a snapshot, failures half way, restarts | what is due goes out, once; cancelled stays cancelled |
| checkout and coupons | `Coupon`, new `Order`, `Purchase`, `Payment` rows | `create` of orders, purchases and hard copies, coupon administration | count, order and payment in three queries | redemptions counted and bounded; every order payable |
| web chat (`src/web/src/components/chat.tsx`) | draft, thread on screen | `sendText`, `load`, edits, the interval, server events | answers out of order, lost events, failures after the fact | no text lost or silently doubled; the screen catches up |
| offline lessons (`src/mobile/src/offlineCourseSecure.ts`) | file, token in the keychain, manifest | download, play, refresh, remove, wipe | three stores written one after the other; whole manifest written back | copies end with access |

The remaining components are catalogue CRUD, read-only queries, logs, user
interfaces or I/O to other services; `PROJECT.json` says so for each.

### How they interact

`PaymentsService.markPaid` is the hub. A PAID webhook, the mock checkout or an admin's
verdict calls it; it writes the status, calls `PurchasesService.activate` or
`OrdersService.fulfill` (which call `PayoutsService.recordSale`) or updates the hard copy
order, notifies the buyer, and calls `AttributionService.recordSale`, which calls
`GamificationService.awardBonusPoints`. An ACTIVE purchase is then what
`MessagingService` and `MeetingsService` meter against through `UsageService`. The
orders' entitlements are what the library, courses and communities read. A sale begins
in `OrdersService.create`, which counts a coupon's redemption and makes the order and the
payment that `markPaid` later settles. An enrolment is what `CoursesService` lets a
learner study under and what the mobile app's copies of lessons depend on. The web chat
is a client of `MessagingService` and of the event stream of `RealtimeService`.

## The modules

| Module | Models | Composition |
|---|---|---|
| `Attribution` | `recordSale` of attribution, with gamification's bonus awards: rows per payment, one call per handler | a specification of its own (`AttributionSpec`) |
| `Settlement` | `markPaid`, `markFailed`, `activate`, `fulfill`, payouts' `recordSale`, hard copies, cancellation | EXTENDS `Attribution`; its handlers step the call they await |
| `SettlementPromise` | the abstract promise: confirm, entitle, release, withdraw, earn | instantiated by `Settlement` as `Promise` |
| `Usage` | the allowances: choice of a package, room, the atomic increment | extended by the next two |
| `Meetings` | booking, approval and charge of sessions | EXTENDS `Usage` |
| `Messaging` | sending and opening messages, metering, the SINGLE workflow | EXTENDS `Usage` |
| `Subscriptions` | `grantSubscription` inside `fulfill`, renewal, change of plan, cancellation, lazy expiry, the dunning sweep, the library's access rule | on its own: it starts where a subscription order is fulfilled |
| `Course` | the lessons of a course, and which are assignments | extended by the next two |
| `Learning` | progress, quiz attempts, reviews, the recomputed percentage, certificates: one learner in one course | EXTENDS `Course` |
| `Curriculum` | `CoursesService.findOne`: access, module, sequence and time locks, with the edits and reviews they depend on | EXTENDS `Course`; complements `Learning` |
| `OfflineCourse` | the mobile app's copies of lessons, against the server's verdict on access | on its own |
| `Accounts` | sign-in, device limit, one-time codes, account deletion: one user | on its own |
| `Scheduler` | scheduled broadcasts | on its own |
| `ChatClient` | the web chat thread | on its own; its server is `Messaging` as the client sees it |
| `Checkout` | opening orders and their payments, coupons and what an admin does to them | on its own; ends where `Settlement` begins |
| `MC*` | constants, bounds and symmetry for TLC | EXTEND the module they check |
| `SettlementProofs` | the proofs about `Attribution`, then about `Settlement` and its refinement of `SettlementPromise` | EXTENDS `Settlement` |
| `MeetingsProofs`, `MessagingProofs`, `SubscriptionsProofs`, `AccountsProofs`, `CheckoutProofs` | the proofs | EXTEND the module they prove about |
| `LearningProofs` | the proofs about `Learning` and `Curriculum` | EXTENDS both |
| `BackgroundProofs` | the proofs about `ChatClient`, `Scheduler`, `OfflineCourse` | EXTENDS the three, whose names differ for that (`ChatSpec`, `PollerSpec`, `CopiesSpec`) |

### Correspondence with the code

*Attribution.* `call[h]` is the recording call handler `h` is inside; its `pc` values are
the queries of `recordSale` in order. Tables are counts of rows per payment: a create on
an `@unique` column is enabled only at 0, and at 1 the call can only throw
(`CallThrows`), the way Prisma does. `recordSale` swallows its errors, so a throw ends
the call and not the handler. Amounts and channels are left out.

*Settlement.* A payment settles exactly one row, so purchase, order and hard copy
statuses are indexed by the payment. `request[h].pc` follows `markPaid`: `pay` (the
status write), `activate` / `fulfill`, `grant` / `ship` (the release), `payoutSeen`,
`payout`, `notify`, `attribute`. `fulfill` reads the order, upserts one entitlement per
item (`Grant`), and writes PAID last (`OrderPaid`); the early return on a PAID order is
`Fulfill`'s THEN. `markFailed` is a read (`MarkFailed`) and an unconditional write
(`Fail`). `confirmed` and `broken` are history variables: which payments the gateway
confirmed, and on which a request died inside the release. What later happens to access
(a course revoked by an admin, a window that runs out, access given by hand) is not
settlement's, so `entitled` holds what settling grants and only grows. A subscription
order counts as one granted item; its dates are the matter of `Subscriptions`.

*Usage, Meetings, Messaging.* `standing` is `Purchase.status` (what `Settlement` calls
`purchase`, here driven by `PackageStep`: paid, cancelled, or past `expiresAt`).
`FindUsablePurchase` is the *set* of answers, the usable package with the earliest start,
or `NoPackage`. `approve` is three steps with the Meet link between the first and the
second; `sendMessage` is read, find, create, consume, update, each from what the earlier
ones read. `markRead` decides on a status and writes it a query later.

*Subscriptions.* One user's rows, in the order they started, so that the newest ACTIVE row
is the `findFirst` of the code. Dates are counted in days from now; `DayPasses` makes
every date one smaller, those a request carries included. `grantSubscription` is
`FindExisting` (plan, clock and row read, decision), then `Extend`, or `Supersede` and
`Insert`, or `Insert`; `OrderPaid` is `fulfill` after it. The sweep is one request per
row of its snapshot: `SweepLapsed` and `SweepDue` read and decide, `Lapse`,
`OpenRenewal` and `Remind` write any number of other steps later, as a sweep that awaits
its way through many rows does. Nothing in the repository schedules the sweep (an admin
posts to its endpoint), so the specification has no fairness. An order's amount and the
proration quote are left out. Three variables are history: `bought`, the end of
everything paid for so far, which an order moves on once; `raced`, the rows an expiry and
an extension worked on at once; and `doubled`, the orders that were granted while another
delivery was at work on them, or by one that died before it wrote PAID. Only these count
again in `bought` when they are granted again.

*Learning.* One request walks `pc` through the queries of `updateLessonProgress`,
`markLessonComplete`, `submitQuiz` or `gradeSubmission`: `save` writes from the row that
was `seen`, `aggregate` sums the rows, `update` writes the percentage, `lookup` and
`issue` are `ensureForCompletion`. Progress is counted in `Full`ths of a lesson (20, so
that the 95 percent rule has a value of its own, 19), and `Percent` rounds as the code
does. `peak` and `cut` are history variables. What a quiz scores is an input: passed or
not.

*Curriculum.* No requests here: `findOne` is a read, so `LockReason` and `Open` are
operators over the state and the actions are what changes it. `hours[l]` is the time
since lesson `l` was completed (for an assignment, since its submission was approved),
which stands for `completedAt` and the clock together. Lessons and modules are named by
their index, so `Before` is the order of the loops. Which lock a lesson has and how long it
waits are constants; changing them, and adding or removing lessons, is not modelled.

*OfflineCourse.* `task[t]` is one asynchronous flow of the app (a download, a removal, a
playback, a wipe), one await per action; `Crash` ends all of them. Every call of the device
may fail instead, and `Fault` counts that: a transfer that breaks off leaves the old file,
none, or part of a new one (`BreakOff`; only a bad answer deletes), a keychain write that
rejects ends a download and makes a refresh hand out a lapsed copy (`StoreToken`), a keychain
delete that rejects is ignored (`DropToken`), a manifest that cannot be read counts as empty
(`Read`), and what nobody catches ends the flow (`GiveUp`). `mishaps` counts kills and
failed calls together. `Play` is `validateAndGetLocalUri` and the player that takes its
answer; at `play`, `by` says on what ground: by the `device`'s own check, with the token
`unread`, after the `server` granted anew, or `late`, with `tokenValid` false. A download
ends with the same call, which a `Play` after it stands for. An entry of the manifest keeps
only what the code asks of its dates; `AgeAll` moves the entries in hand as well as those in
the manifest, since both hold the same instants. A token is granted (`Granted`) to a learner
with access, and for a preview to anyone; its terms (`Terms`) are the course's
`offlineValidityDays` and never reach beyond the access window, which for a preview may be
over already.

*Accounts.* `newer` is the order of `lastSeenAt`; `Seen(d)` is a write of the present
time. `touching` are devices whose request was let in and whose unawaited update is on
its way. `registerDevice` is `Upsert`, `List`, `RevokeExcess`. `late` records that a
sign-in was past its checks when a deleted account's devices were signed out. `Limit` is a
constant: an admin may lower `maxDevices` (`users/dto.ts:79-83`), which signs nobody out, so
the account then has more devices than its limit until the next sign-in.

*Scheduler.* `run[r]` is one call of `runDueScheduled`, with the rows it read. `Pick`
starts the broadcast of the next row (with no recipients where resolving them throws),
`Send` is one `create`, `Finish` the roll forward. `Roll` is the code's loop in closed
form. `told`, `again`, `overlapped` and `cancelled` are history.

*ChatClient.* A flow is `sendText` (post, then `load`), an edit, deletion or reaction
(act, then `load`), or a `load` by the interval or by an event. `Get` is the server's
answer, `Show` its arrival; others come in between, so answers overtake each other. `RequestFails`
lets a request fail before or after the server acted on it.

*Checkout.* `Open` stands for the reads of `create` (item, ownership, coupon), `Redeem`
for the increment, then `CreateOrder` and `CreatePayment`. Row ids are never used again: a coupon is
created under an id that is not in the history of limits, `DOMAIN ceiling`, even if an
older row was removed. An item is a kind of product
with the rules of its kind: `OwnedOnce` is refused to its owner, `NoCoupon` takes no
coupons. `Fulfill` is settlement as a whole. `ceiling`, `lost` and `broken` are history.

## The runs

| Run | Bounds | Shows |
|---|---|---|
| `settlement` | 2 handlers; a package bought under the buyer's own code, a bundle of 2 books bought under another's; the package's revenue is split | 7 invariants, and that `Settlement` implements `SettlementPromise` (`KeepsPromise`) |
| `settlement_live` | 2 handlers; an order of one book, a hard copy; fairness | a PAID payment is released, or a request died on it (`PaidIsReleased`) |
| `meetings` | 2 handlers, 2 meetings; a package of one session and one unlimited | the limit is passed by at most one session per other request; an APPROVED meeting was charged for |
| `messaging` | 2 handlers, 2 conversations; a SINGLE package usable in one, a CHAT package in both | the same bound for messages; every message is counted once; the workflow stays in SINGLE consultations |
| `subscriptions` | 2 handlers, 2 orders, up to 2 grants; a plan of one day and a lifetime plan; reminders on the last day, a day of grace, one attempt | access never outlasts what was paid for, each order counted once unless two deliveries of it overlapped or one died; paid time is expired only by requests that overlap; a PAID order was granted |
| `learning` | 2 requests; a video with a quiz of one attempt, an assignment | certificates and attempts beyond the limit come from overlap only, one per other request; progress shown is earned, and taken back only by a request that overlapped; a completed course has its certificate unless a query failed |
| `curriculum` | 3 lessons (one an assignment), 2 modules, every grouping of them, 3 edits; fairness of the learner, the reviewer and the clock | nobody gets stuck (`CourseIsFinished`); only a review closes what was open (`RelockOnlyByReview`) |
| `offline` | 1 lesson, 2 flows, one mishap, access regained once; fairness | tokens stay with their copies; files are listed; what the device by itself declares valid is within its deadline; what is no longer granted is wiped in the end |
| `accounts` | 3 devices, limit 2, 2 sign-ins, 1 code, 1 failure | the limit holds whenever no sign-in is under way; a code is used again only by overlap; deletion signs out |
| `scheduler` | a one-off and a daily job, 1 recipient, 2 runs, 2 days, 1 failure; fairness | nobody is told twice without overlap or failure; cancelled stays cancelled; what is due is taken |
| `chat` | 2 texts, 2 flows, 1 other change, 2 failures; fairness | a second copy only after a reported failure; no text lost while the user waits for the answer; the screen catches up |
| `checkout` | 2 requests, 2 orders; a community, a bundle, a package; 1 coupon | redemptions pass the limit by overlap only; discounts and redemptions agree; an order without a payment means a dead request |

**Why these bounds.** Every race of the code is between two requests over one row, and a
third actor (admin, clock, cancellation) acts in any state without a handler, so two
handlers show each of them; the proofs remove the bound for every property but the
five about liveness. Two payments
let a commission of one sale meet the self-referral rule of the other and let requests
on different sales share the buyer's `UserGameStat`. Two items are the least in which
a bundle can be half granted. Two meetings contend for the last session, with a second,
unlimited package to book against. Two conversations let one package be spent in
either. Three devices are the least that exceed a limit of two by a sign-in and leave a
choice of whom to sign out. Two overlapping runs of the poller over two days let one roll
a job forward from what the other has already moved. Two modules and three lessons hold every
kind of neighbour the locks look at: none, one in the same group, the last of the group
before, an empty group. One lesson is enough for two flows on the phone: the manifest is
written back whole, so they already lose each other's change on it. What a flow does to
*another* lesson, as when it writes back a manifest it could not read, is left to the
proofs, which have any number of lessons. One mishap is as far as the properties of the
phone reach; the proofs have any number. With two texts a
failed one can be put back over the next. With two orders a coupon
of one use can be passed, and one of no use at all (`maxRedemptions` 0) refused.

**Named bounds.** `MCMeetings!UsedBound` (through `MaxUsed`) and
`MCMessaging!MessagesBound` (through `MaxMessages`) are state constraints on counters
that only grow. Each lets a limited counter reach one past its limit, which is the
most two handlers can do, so no violation is hidden behind the bound. Receipts, payouts
and rows are bounded by the code itself or by the number of handlers: a payment takes a
new receipt or payout only in a request that read none.

`MCSubscriptions!GrantsBound` (through `MaxGrants`) caps the grants, and with them rows
and dates: two are enough for an extension, a switch and a row that a second one
outlives. `LongAgo` is where the past stops being told apart, a day beyond the grace
window.

`MCLearning!RowsBound` caps attempts and certificates together: with one attempt allowed
and two requests, the second of either is the most the bounds permit, and still fits.
`MCCheckout!RowsBound` allows one redemption lost to a dead request per coupon row, so that
a limit can be used up by requests that died. `Learning!MaxClock` tells two instants of
completion apart, `MaxManual` allows a certificate issued by hand. `MaxEdits` bounds
changes of the course, of access, and retakes; `Longest` is the longest wait, beyond which
hours are alike. `MaxMishaps`, `MaxGrants` (`OfflineCourse`), `MaxFails` (`Accounts`,
`ChatClient`), `MaxChanges`, and `MaxDay`, `MaxCrashes` (`Scheduler`) count what the
environment does; each is one or two, after which the system must still get through.

**Symmetry** permutes handlers and, where they are interchangeable, items, meetings,
orders, devices and coupon rows, in runs that check no liveness (the action property of
`learning` is symmetric itself).

**Deadlock** is checked everywhere but in `accounts`: an account that is closed, its code
used up and nothing under way is a state in which that user's part of the system stops.

**Fairness.** `FairSpec` assumes `WF_vars(HandlerStep(h))` for each handler: an awaited
query is eventually answered, because Node runs the continuation of a settled promise
and Postgres answers or rejects. It assumes nothing about notifications, admins or
aborts, and an abort is always allowed instead of the step, which is why
`PaidIsReleased` has `p \in broken` as its escape. In `Scheduler`, `WF` of `Tick` is
`setInterval` firing, `WF` of the run's own steps the queries being answered; in
`ChatClient`, `WF` of `Poll` is the client's interval, `WF` of a flow's steps its
requests being answered or failing. `OfflineCourse` has `WF` for awaits and `SF` for
`Load(t)`: the learner opens the course online again and again, also between other flows.
That is an assumption on a person, and it is the one the wipe needs: nothing else in the
app looks for revoked access. `Curriculum` likewise assumes a learner who studies what is
open, a reviewer who approves what was handed in, and a clock that runs; the locks are
what is under test.

## What the code does not keep

Statements of comments and documents that the code does not keep, met while modelling.
For items 1 to 7 and 13 the modules define the statement, named in parentheses: put it in
a `.cfg` as an invariant (`ReadResponseCloses` as a property) and TLC prints the story.
The others are told by the escapes of the properties that do hold.

1. `markFailed` "never downgrades a PAID payment" (`payments.service.ts:188`): it checks
   at 194 and writes at 195, and a PAID notification between them is overwritten
   (`Settlement!NeverDowngraded`). Access is not affected: `PaidOrderIsComplete` and
   `AccessOnlyAfterConfirmation` hold.
2. `markPaid` is "Idempotent" (`:105`), and the early return on PAID makes a retry of a
   request that died before the release do nothing (`PaidIsActivated`).
   `WithheldOnlyIfBroken` shows that this is the only way to lose a sale.
3. "one earnings row per completed sale" (`payouts.service.ts:5`): two deliveries can
   create two (`OnePayoutPerSale`).
4. Allowances are to be consumed "atomically" (`usage.service.ts:9-10`): two approvals
   take the last session twice (`Meetings!SessionsWithinLimit`). `SessionOverrunBounded`
   says how far it can go.
5. "A client reading the consultant's response auto-closes the single consultation"
   (`messaging.service.ts:311-312`): the consultant's own read can overwrite
   RESPONSE_SENT first (`Messaging!ReadResponseCloses`).
6. `fulfill` is "Idempotent - safe to call from a webhook that may be delivered more than
   once" (`orders.service.ts:241-242`), and writes PAID only after the grant: a
   subscription order is granted twice by deliveries that overlap, or by a retry of one
   that died in between (`Subscriptions!GrantedOnce`). Items are upserted, so only the
   subscription's dates notice. `NeverBeyondBought` counts every order once, with these,
   the `doubled`, as its named exception: nothing else is granted twice.
7. During the grace window "access continues" (`schema.prisma:973`), but
   `LibraryService.hasActiveSubscription` looks at `expiresAt` alone
   (`Subscriptions!GraceKeepsAccess`).
8. A failed broadcast "will retry next tick if still due"
   (`notifications.service.ts:280`): the row is rolled forward or made inactive right
   after the `catch`, so it never is. `DueIsDispatched` is about being taken, not told.
9. Lesson progress that "only ever moves forward" is taken back by a request that
   read the lesson before another saved it; `ForwardUnlessOverlapped` says that nothing
   else does.
10. The manifest of offline lessons is read, changed and written back whole: a download
    that overlaps a removal lists the removed lesson again, and one that overlaps another
    download drops it from the list. Hence `~flowsMet` in three properties of
    `OfflineCourse`.
11. A module's draft is "hidden from learners" (`schema.prisma`, `CourseModule`), but
    `findOne` neither filters modules by `isPublished` nor skips drafts in the locks.
12. Two orders for one item may both be PENDING and both be paid: ownership is looked at
    when an order is opened, not when it is settled. A learner whose enrolment was
    revoked or has run out cannot order the course again, because the row counts as
    ownership.
13. "Per YouTube behaviour, an expired offline copy stops playing"
    (`offlineCourseSecure.ts:227-228`; also 168, "Returns local URI only if token is
    valid"): with no internet the function returns the copy's address with `tokenValid`
    false, and `LessonDetailScreen.tsx:115-119` shows a warning and plays it
    (`OfflineCourse!ExpiredStopsPlaying`). What holds is `PlaysWithinGrant`: the device
    does not *declare* such a copy valid.
14. A token the keychain fails to return counts as none (`offlineCourseSecure.ts:189`), and
    a copy without a token as a legacy one that is always valid: one failed read, and a
    copy past its deadline is valid. These are the plays `by` "unread", of which
    `PlaysWithinGrant` says nothing.
15. A download that breaks off (`:115`), a keychain write (`:121-122`) or manifest write
    (`:81`) that rejects may leave a file that is not listed, which `downloadAll` counts as
    saved and the player does not take; a manifest that cannot be read counts as empty
    (`:75-76`) and is written back whole, so all other entries of the device go. Hence
    `mishaps = 0` in `FileIsListed`. A wipe that could not read leaves the files, though
    no playable copy.
16. Copies of a preview lesson are granted to anyone, but wiped by every load of the course
    by a learner without access, since the load looks at access only.

## What is proved

Every safety invariant and every action property a run checks is a theorem, and
`SettlementKeepsPromise` is the refinement. They hold for every set of payments,
handlers, users, items, lessons, coupons, texts and jobs that the modules' named assumptions
allow: sets of actors and rows are finite where something is counted, bounds and limits are naturals,
`Goods`, `Buyer` and `CodeOwner` are functions of the right type, the three kinds of payment
are disjoint and make up `Payments`, and the dummy values are not users or payments. TLC
evaluates each assumption in the run of its module.

**SettlementProofs, attribution.** `OneCommissionPerSale`, `NoDoubleBonus` and
`RecordedWholeUnlessCut` are not inductive: they say nothing of a call that has passed
its check and not yet written. The inductive invariant `AttributionInv` adds that

* at most one handler *owns* a sale, having created its attribution row, and an owner
  exists only if the row does;
* the rows of a sale are exactly those the owner's `pc` says it has written; with no
  owner and no cut, they are all there.

From it follow the three theorems (`CommissionEarnedOnce`, `BonusAwardedOnce`,
`SaleRecordedWhole`), for any number of concurrent recordings.

**SettlementProofs, settlement.** Every step of `Settlement` is a step of `AttributionSpec` or leaves
its variables alone (`SettlementAttributes`), so the three theorems carry over. The rest
rests on `SettlementInv`: type correctness; `RequestKnows`, what a request knows at each
`pc` (its payment is confirmed and of the kind that leads there; at `grant` what is not
left to do has been granted; past the release the goods are out); `CallsAwaited`, that an
attribution call belongs to the handler awaiting it and to the same, confirmed payment.
The facts a request relies on between its steps survive the steps of the others because
they are monotone: `confirmed`, `entitled` and an order's PAID never go back, and a
purchase never returns to PENDING. It yields `TypeCorrect`, `NothingGivenAway`,
`PaidOrdersAreComplete`, `PayoutsAreForReleasedSales`, `GoodsWithheldOnlyIfBroken`.

**Refinement.** `SettlementKeepsPromise` proves `Spec => Promise!Spec` under the mapping
`sale`, `earned`: each step is a step of the promise or a stutter. The two interesting
cases are `OrderPaid`, a `Release` whose guard is what `RequestKnows` says at `grant`,
and `CreateCommission`, an `Earn` of a payment that has earned nothing by
`AttributionInv`.

**MeetingsProofs, MessagingProofs.** The overrun bounds say that a counter passes its
limit by at most the requests in flight but one. What is inductive is finer: the counter
plus the requests that have passed the check and not yet charged stays within the limit
plus `Cardinality(Handlers) - 1`. A request may enter the counted set only while the
counter is below the limit, when every other handler at once still fits
(`RoomCoversOverrun`); a charge moves one request from the set into the
counter. `ApprovalsAreCharged` needs besides that a request at the charge works on a
meeting that exists and on that meeting's own package (`RequestsFit`).
`MessagesCounted` holds because counter, requests at the charge and messages move
together, and a request that dies there is recorded; `WorkflowNeedsSingle` because what
a request read of a SINGLE package stays true. All of it for any number of handlers,
meetings, conversations and packages.

**SubscriptionsProofs.** The properties speak of rows; what makes them inductive is what a
request carries from its read to its write. `RequestsFit`: a date to be written is covered
by what is bought once the grant is counted (`DateCovered`), and stays so while other
grants are counted and days pass; an order at work was created, and the orders at `paid`
were granted. `NoSurprises`: a row about to be ended has run out, and a row about to be
extended is neither EXPIRED nor about to be, unless it is in `raced`. That an order moves
`bought` on once is enough by `OnceInv`: of an order that was granted and is not `doubled`, at
most one delivery is at work, and that one is past its grant; with none the order is PAID,
and none can set out. From these follow
`AccessIsBought`, `ExpiryIsDue` and `PaidOrdersAreGranted`, for any plans, any number of
handlers, grants and days, and any values of the three settings with
`LongAgo > GraceDays`. Steps that leave rows alone share one argument (`QuietStep`). That
`findFirst` of the newest row returns a row at all needs a greatest element of a set of
row numbers, which comes from the library's well-foundedness of strict subsets
(`GreatestOf`).

**LearningProofs.** Three of the bounds are on rows created behind a check. The inductive
form counts, next to the rows, the requests that have passed the check and not yet
created theirs (`CertificatesCounted`, `AttemptsCounted`): a check that passes sees few
rows, and each of the others is one request. `CompletedIsCertified` is inductive beside
them. `ForwardUnlessOverlapped` needs that a completed lesson was watched in full
(`DoneIsFull`): a save that follows its own read can then only raise the progress and
keep the time. Together they are `LearningInv`, for any course, number of requests,
attempts allowed and reports.

`ProgressIsEarned` speaks of a sum over the lessons, which the model takes from the
library's fold, and the laws of a sum are facts by induction over data. No theorem with
an operator for a parameter can be used for that here, so the induction is done by hand:
a set of naturals has a least element (`LeastNatural`, from the library's
well-foundedness of `<`), and the least size of a set of lessons on which a law fails leads
to a smaller one. `SumsExist` shows so that the fold is defined on every finite set and
satisfies its equation, and `TotalGrows` that the sum grows with each lesson's progress.
`PercentWorth` is what the code's rounding is worth, by division with remainder. What is
inductive is then `EarnedInv`: every lesson is saved at most at its best, and a percentage a
request carries is earned as much as the one that is shown.

**LearningProofs, locks.** `RelockOnlyByReview` is an action property: one step, two
evaluations of `Open`. Its proof compares each of the three locks before and after. A
module's or a lesson's predecessor is the same on both sides, since the structure is; what was
done stays done, unless it was handed in or reviewed anew; a wait that was over stays
over (`WaitsEnd`). For the sequence lock that needs the greatest earlier lesson to exist
(`GreatestNatural`). `LocksTypeOK`, the type invariant of `Curriculum`, is not inductive
alone: approving a submission that waits counts as an edit only if it was done already,
and would pass `MaxEdits`. `LocksInv` adds that what waits for a reviewer is not done.

**AccountsProofs.** That `RevokeExcess` is enough rests on `lastSeenAt` being a strict total
order of the rows (`Ordered`) and on `ExcessIsEnough`: of the devices that stay, each has
its own number, below the limit, of devices seen after it, so there is an injection of
them into `0..Limit-1`. Signed-in devices only exceed the limit while a sign-in is about
to list them or about to sign enough of them out (`LimitOrPending`). A code is accepted
as often as requests held it at once (`CodesCounted`). For any number of devices,
codes and sign-ins and any limit.

**CheckoutProofs.** The limit of a coupon is the same shape as the allowances: the
redemptions of a row and the requests that found it usable and have not counted theirs stay
together within its highest limit plus the overlap (`PassedWithinOverlap`). That limits
are edited meanwhile is why the bound speaks of the highest limit a row has had, and
`RowsAreMade` says that it covers the one it has. The proof showed a flaw of an earlier version of
the model: it let a removed coupon's id be used again, with redemptions of its former
life, which Postgres' generated ids do not. `DiscountsAreCounted` and `PayableUnlessCut` are
inductive beside the type invariant, one request's step at a time.

**BackgroundProofs, chat.** `NoTextLost` follows one text through thread, draft and
flows. A flow past its post must have got its text into the thread, and, as long as the
user did not type on while sending, at most one text is about at all (`OneTextAtATime`); so
putting a failed one back overwrites nothing. `OneCopyPerFailure` is inductive with the
copies to come counted in: those in the thread, the draft and the flows about to post
(`CopiesPaidFor`).

**BackgroundProofs, poller.** `CancelledStays` holds because a run moves a row's date or
ends it, and nothing but scheduling, once per row, makes a row active. `NotTwiceADay` is about what a run knows (`RunsKnow`), and holds only while it is
undisturbed: what it read as due is so still, whom it has yet to tell has not been told,
and a job nobody is sending is ahead of everyone it told. The roll forward needs that
its closed form lands after the day of the run.

**BackgroundProofs, offline copies.** The properties speak of quiet moments and of
playback; the invariant says of the one flow there is what it must still do at each await
(`KeysFit`, `FilesFit`): a file whose token is gone is about to be listed anew or about to
go, the manifest in hand agrees with the device, and a copy with a deadline that is being
checked still has its token. A step either succeeds (`FlowStep`) or a call fails in it
(`FaultStep`), and then it owes less: if this is the first mishap, no copy had lost its
token before, and of files nothing is claimed any more. `KeysGoWithCopy` and
`PlaysWithinGrant` survive one mishap because a removal takes the file first and stops if it
cannot, and a download stores the token before the entry: what one mishap leaves is without
a file or without an entry. A second mishap, inside a later download, can undo that. With
two flows nothing of it holds, which is item 10 above.

**Type invariants** of all components but `Scheduler` and `ChatClient` have a
theorem of their own; `PollerInv` and `ChatInv` contain those. The runs do not repeat them.

**Only model-checked:** the liveness properties (`PaidIsReleased`, `CourseIsFinished`,
`RevokedIsWiped`, `DueIsDispatched`, `ViewCatchesUp`), which are beyond the prover.

## Plan

1. *Done:* `Attribution`, `Settlement`, `SettlementPromise`, `Usage`, `Meetings`,
   `Messaging`, `Subscriptions`, and the proofs of all their safety properties.
2. *Done:* `Accounts` and `Learning`, with their proofs.
3. *Done:* `Curriculum`, `OfflineCourse`, `Scheduler`, `ChatClient`, `Checkout`, and the
   proofs of their safety properties; `ProgressIsEarned`.
4. Next: abstract specifications of allowances and of coupons (what each promises, as
   `SettlementPromise` does for settling), which would say in one place what `Meetings`,
   `Messaging` and `Checkout` now say by similar invariants.

## Not modelled

Gateway signature checks, opening a checkout and attaching a transfer proof write columns
that no modelled guard reads. Fee and commission arithmetic is single-expression. Message
ticks, reactions and editing, availability slots, badges and streaks are left out of the
modules of their components. Cash on delivery of hard copies is off by default and makes
no payment. Reviews, notes, questions, banners, posts and comments, support tickets, books
and packages are rows written by one query behind a unique key or by nobody else.
Reports and the marketplace only read; reconciliation reads too, but for the
revenue an admin enters and one close per month. Delivery of mail, push and SMS,
file storage, the CRM synchronisation and the AI assistant are I/O to outside services
whose failures callers ignore.

By far the larger part of the repository is user interface: pages and screens that show
what the API returned and post forms. The two with concurrent state of their own, the web
chat and the offline lessons, are modelled; the others are represented by the requests
they send. The share of the repository's lines that the models stand for is therefore
small, and would not grow by modelling more of the logic.

## Running

    tlc -workers 2 -config settlement.cfg MCSettlement
    tlapm SettlementProofs.tla

Each run names its module and `.cfg` in `PROJECT.json`.
