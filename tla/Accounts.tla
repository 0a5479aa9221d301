------------------------------ MODULE Accounts ------------------------------
(***************************************************************************)
(* The devices a user is signed in on, and the one-time codes a user may   *)
(* sign in with (AuthService, JwtStrategy).                                *)
(*                                                                         *)
(* A sign-in is a chain of queries: find a code, mark it used; then upsert *)
(* the device's row, list the rows that are signed in, and sign out by id  *)
(* what exceeds the limit.  Sign-ins, remote sign-outs, the deletion of    *)
(* the account and the unawaited "last seen" updates of ordinary requests  *)
(* run in between.  lastSeenAt matters only as an order, kept as such.     *)
(***************************************************************************)
EXTENDS Integers, FiniteSets

CONSTANTS Devices,  \* physical devices of one user
          Codes,    \* rows of OtpCode mailed to that user
          Request,  \* sign-ins that may run at once
          NoDevice, \* the web client sends none; a password reset signs nobody in
          Limit,    \* User.maxDevices, at least 1
          MaxFails  \* bound: sign-ins cut short by an error or a restart

ASSUME AccountsAssumption ==
    /\ IsFiniteSet(Devices) /\ IsFiniteSet(Codes) /\ IsFiniteSet(Request)
    /\ NoDevice \notin Devices
    /\ Limit \in Nat \ {0} /\ MaxFails \in Nat

Idle == [pc |-> "idle"]

VARIABLES account,  \* open; anonymised by its deletion; then closed
          rows,     \* devices with a UserDevice row
          active,   \* those whose revokedAt is null
          newer,    \* <<d, e>>: row d was last seen after row e
          touching, \* devices with an unawaited update of lastSeenAt on its way
          code,     \* code -> none, unused, expired or used
          accepted, \* code -> times it was accepted (history)
          request,  \* request -> where its chain of queries stands
          fails,
          late      \* a sign-in was past its checks when the devices of a deleted
                    \* account were signed out (history)

devices == <<rows, active, newer, touching>>
codes == <<code, accepted>>
vars == <<account, devices, codes, request, fails, late>>

Calls ==
    {Idle}
    \cup [pc : {"use"}, device : Devices \cup {NoDevice}, code : Codes]
    \cup [pc : {"user", "upsert"}, device : Devices \cup {NoDevice}]
    \cup [pc : {"list"}, device : Devices]
    \cup [pc : {"revoke"}, excess : SUBSET Devices]

TypeOK ==
    /\ account \in {"open", "anonymised", "closed"} /\ late \in BOOLEAN
    /\ rows \subseteq Devices /\ active \subseteq rows /\ touching \subseteq rows
    /\ newer \subseteq rows \X rows
    /\ code \in [Codes -> {"none", "unused", "expired", "used"}]
    /\ accepted \in [Codes -> Nat]
    /\ request \in [Request -> Calls]
    /\ fails \in 0..MaxFails

Init ==
    /\ account = "open" /\ late = FALSE
    /\ rows = {} /\ active = {} /\ touching = {} /\ newer = {}
    /\ code = [c \in Codes |-> "none"]
    /\ accepted = [c \in Codes |-> 0]
    /\ request = [r \in Request |-> Idle]
    /\ fails = 0

-----------------------------------------------------------------------------
At(r, pc) == request[r].pc = pc
Become(r, v) == request' = [request EXCEPT ![r] = v]
Quiet == \A r \in Request : At(r, "idle")

\* lastSeenAt := now
Seen(d) ==
    newer' = {p \in newer : d \notin {p[1], p[2]}} \cup ({d} \X (rows \ {d}))

-----------------------------------------------------------------------------
\* login and register: the account is checked, then the device is registered.
SignIn(r, d) ==
    /\ At(r, "idle") /\ account = "open"
    /\ Become(r, [pc |-> "upsert", device |-> d])
    /\ UNCHANGED <<account, devices, codes, fails, late>>

\* requestOtp, forgotPassword
RequestCode(c) ==
    /\ code[c] = "none" /\ account = "open"
    /\ code' = [code EXCEPT ![c] = "unused"]
    /\ UNCHANGED <<account, devices, accepted, request, fails, late>>

ExpireCode(c) ==
    /\ code[c] = "unused"
    /\ code' = [code EXCEPT ![c] = "expired"]
    /\ UNCHANGED <<account, devices, accepted, request, fails, late>>

\* Mutant of FindCode: used codes are found as well.
FindAnyCode(r, d, c) ==
    /\ At(r, "idle") /\ code[c] \in {"unused", "used"}
    /\ Become(r, [pc |-> "use", device |-> d, code |-> c])
    /\ UNCHANGED <<account, devices, codes, fails, late>>

\* consumeOtp, its first query.
FindCode(r, d, c) ==
    /\ At(r, "idle") /\ code[c] = "unused"
    /\ Become(r, [pc |-> "use", device |-> d, code |-> c])
    /\ UNCHANGED <<account, devices, codes, fails, late>>

\* Its second, which asks nothing again.
UseCode(r) ==
    /\ At(r, "use")
    /\ code' = [code EXCEPT ![request[r].code] = "used"]
    /\ accepted' = [accepted EXCEPT ![request[r].code] = @ + 1]
    /\ Become(r, [pc |-> "user", device |-> request[r].device])
    /\ UNCHANGED <<account, devices, fails, late>>

\* verifyOtp looks the user up by the address, which deletion changed.
FindUser(r) ==
    /\ At(r, "user")
    /\ Become(r, IF account # "open" THEN Idle ELSE [pc |-> "upsert", device |-> request[r].device])
    /\ UNCHANGED <<account, devices, codes, fails, late>>

\* registerDevice: the row is created, or signed in again.
Upsert(r) ==
    /\ At(r, "upsert")
    /\ IF request[r].device = NoDevice
       THEN Become(r, Idle) /\ UNCHANGED devices
       ELSE LET d == request[r].device
            IN  /\ rows' = rows \cup {d}
                /\ active' = active \cup {d}
                /\ Seen(d)
                /\ Become(r, [pc |-> "list", device |-> d])
                /\ UNCHANGED touching
    /\ UNCHANGED <<account, codes, fails, late>>

\* Mutant of Excess: one device too many stays.
ExcessLess(n) == {d \in active : Cardinality({e \in active : <<e, d>> \in newer}) > n}

\* All but the n rows seen last.
Excess(n) == {d \in active : Cardinality({e \in active : <<e, d>> \in newer}) >= n}

List(r) ==
    /\ At(r, "list")
    /\ Become(r, IF Cardinality(active) > Limit THEN [pc |-> "revoke", excess |-> Excess(Limit)]
                 ELSE Idle)
    /\ UNCHANGED <<account, devices, codes, fails, late>>

\* By id, whatever happened to those rows meanwhile.
RevokeExcess(r) ==
    /\ At(r, "revoke")
    /\ active' = active \ request[r].excess
    /\ Become(r, Idle)
    /\ UNCHANGED <<account, rows, newer, touching, codes, fails, late>>

\* A query fails or the server stops.
Fail(r) ==
    /\ ~At(r, "idle") /\ fails < MaxFails
    /\ fails' = fails + 1
    /\ Become(r, Idle)
    /\ UNCHANGED <<account, devices, codes, late>>

-----------------------------------------------------------------------------
\* JwtStrategy.validate lets a request of a device in and updates lastSeenAt later.
Validate(d) ==
    /\ d \in active
    /\ touching' = touching \cup {d}
    /\ UNCHANGED <<account, rows, active, newer, codes, request, fails, late>>

Touch(d) ==
    /\ d \in touching
    /\ touching' = touching \ {d}
    /\ Seen(d)
    /\ UNCHANGED <<account, rows, active, codes, request, fails, late>>

\* revokeDevice
RevokeDevice(d) ==
    /\ d \in active
    /\ active' = active \ {d}
    /\ UNCHANGED <<account, rows, newer, touching, codes, request, fails, late>>

\* deleteAccount, its first query: login finds the user no more.
Delete ==
    /\ account = "open"
    /\ account' = "anonymised"
    /\ UNCHANGED <<devices, codes, request, fails, late>>

\* Mutant of SignOutDeleted: only what exceeds a limit of one is signed out.
SignOutOldest ==
    /\ account = "anonymised"
    /\ account' = "closed"
    /\ late' = \E r \in Request : At(r, "upsert")
    /\ active' = active \ Excess(1)
    /\ UNCHANGED <<rows, newer, touching, codes, request, fails>>

\* Its second: every device is signed out.
SignOutDeleted ==
    /\ account = "anonymised"
    /\ account' = "closed"
    /\ late' = \E r \in Request : At(r, "upsert")
    /\ active' = {}
    /\ UNCHANGED <<rows, newer, touching, codes, request, fails>>

Next ==
    \/ \E r \in Request, d \in Devices \cup {NoDevice} :
          SignIn(r, d) \/ \E c \in Codes : FindCode(r, d, c)
    \/ \E r \in Request : UseCode(r) \/ FindUser(r) \/ Upsert(r) \/ List(r) \/ RevokeExcess(r) \/ Fail(r)
    \/ \E c \in Codes : RequestCode(c) \/ ExpireCode(c)
    \/ \E d \in Devices : Validate(d) \/ Touch(d) \/ RevokeDevice(d)
    \/ Delete \/ SignOutDeleted

Spec == Init /\ [][Next]_vars

-----------------------------------------------------------------------------
\* However sign-ins overlap, and whatever requests and sign-outs run in between, once the
\* last one is through no more devices are signed in than the limit allows.
DeviceLimitHolds == Quiet /\ fails = 0 => Cardinality(active) <= Limit

\* A code is accepted more than once only by sign-ins that overlap: never more often
\* than sign-ins can run at once, for however long it is tried.
CodeAcceptedByOverlapOnly == \A c \in Codes : accepted[c] <= Cardinality(Request)

\* Once an account is deleted no device of it is signed in, nor gets signed in later,
\* except by a sign-in that had passed its checks before.
DeletedIsSignedOut == account = "closed" /\ ~late => active = {}
=============================================================================
