--------------------------- MODULE AccountsProofs ---------------------------
(***************************************************************************)
(* Accounts for any number of devices, codes and sign-ins, and any limit.  *)
(*                                                                         *)
(* The order in which rows were last seen is total, so all but the Limit   *)
(* rows seen last are what exceeds the limit.  Too many rows are signed in *)
(* only while a sign-in has yet to list them, or is about to sign out      *)
(* enough of them.                                                         *)
(***************************************************************************)
EXTENDS Accounts, FiniteSetTheorems, TLAPS

\* Any two rows are ordered, one way.
Ordered ==
    /\ \A d, e \in rows : d = e \/ <<d, e>> \in newer \/ <<e, d>> \in newer
    /\ \A d, e \in rows : <<d, e>> \in newer => <<e, d>> \notin newer
    /\ \A d, e, f \in rows : <<d, e>> \in newer /\ <<e, f>> \in newer => <<d, f>> \in newer

\* A request that will bring the devices back within the limit.
WillRestore(r) ==
    \/ At(r, "list")
    \/ At(r, "revoke") /\ Cardinality(active \ request[r].excess) <= Limit

LimitOrPending ==
    fails = 0 => Cardinality(active) <= Limit \/ \E r \in Request : WillRestore(r)

Using(c) == {r \in Request : At(r, "use") /\ request[r].code = c}

CodesCounted ==
    \A c \in Codes :
        /\ code[c] # "used" => accepted[c] = 0
        /\ code[c] = "used" => accepted[c] + Cardinality(Using(c)) <= Cardinality(Request)

SignedOut ==
    account = "closed" /\ ~late => active = {} /\ \A r \in Request : ~At(r, "upsert")

AccountsInv ==
    /\ TypeOK
    /\ Ordered
    /\ LimitOrPending
    /\ CodesCounted
    /\ SignedOut

-----------------------------------------------------------------------------
\* Sets of sign-ins and of devices can be counted.
LEMMA RequestsAreCounted ==
    ASSUME NEW S \in SUBSET Request, NEW T \in SUBSET S
    PROVE  /\ IsFiniteSet(S)
           /\ Cardinality(S) \in Nat /\ Cardinality(T) \in Nat
           /\ Cardinality(Request) \in Nat
           /\ Cardinality(T) <= Cardinality(S)
           /\ Cardinality(S) <= Cardinality(Request)
  <1>1. IsFiniteSet(S) /\ Cardinality(S) <= Cardinality(Request)
    BY AccountsAssumption, FS_Subset
  <1>2. IsFiniteSet(T) /\ Cardinality(T) <= Cardinality(S)
    BY <1>1, FS_Subset
  <1> QED
    BY <1>1, <1>2, AccountsAssumption, FS_CardinalityType

\* A set of devices can be counted, and no part of it outnumbers it.
LEMMA DevicesAreCounted ==
    ASSUME NEW S \in SUBSET Devices, NEW T \in SUBSET S
    PROVE  /\ IsFiniteSet(S)
           /\ Cardinality(S) \in Nat /\ Cardinality(T) \in Nat
           /\ Cardinality(T) <= Cardinality(S)
  <1>1. IsFiniteSet(S)
    BY AccountsAssumption, FS_Subset
  <1>2. IsFiniteSet(T) /\ Cardinality(T) <= Cardinality(S)
    BY <1>1, FS_Subset
  <1> QED
    BY <1>1, <1>2, FS_CardinalityType

\* What is left when the excess is signed out fits the limit: the rows that stay have
\* different numbers, below n, of signed-in rows seen after them.
LEMMA ExcessIsEnough ==
    ASSUME TypeOK, Ordered, NEW n \in Nat
    PROVE  Cardinality(active \ Excess(n)) <= n
  <1> DEFINE After(d) == {e \in active : <<e, d>> \in newer}
             kept == active \ Excess(n)
             rank == [d \in kept |-> Cardinality(After(d))]
  <1>1. active \in SUBSET Devices /\ active \subseteq rows
    BY DEF TypeOK
  <1>2. \A d : After(d) \in SUBSET Devices /\ IsFiniteSet(After(d)) /\ Cardinality(After(d)) \in Nat
    BY <1>1, DevicesAreCounted
  <1>3. ASSUME NEW d \in kept PROVE Cardinality(After(d)) \in 0..(n - 1)
    <2>1. ~ (Cardinality(After(d)) >= n)
      BY DEF Excess
    <2>2. Cardinality(After(d)) \in Nat
      BY <1>2
    <2> HIDE DEF After
    <2> QED
      BY <2>1, <2>2
  <1>4. ASSUME NEW d \in kept, NEW e \in kept, <<e, d>> \in newer
        PROVE  Cardinality(After(e)) < Cardinality(After(d))
    <2>1. d \in rows /\ e \in rows /\ e \in active
      BY <1>1
    <2>2. After(e) \subseteq After(d) /\ e \in After(d) /\ e \notin After(e)
      BY <1>1, <1>4, <2>1 DEF Ordered
    <2> HIDE DEF After
    <2>3. IsFiniteSet(After(d)) /\ After(e) \in SUBSET After(d) /\ After(e) # After(d)
      BY <1>2, <2>2
    <2>4. Cardinality(After(e)) <= Cardinality(After(d))
          /\ Cardinality(After(e)) # Cardinality(After(d))
      BY <2>3, FS_Subset
    <2> QED
      BY <1>2, <2>4
  <1> HIDE DEF After
  <1>5. rank \in [kept -> 0..(n - 1)]
    BY <1>3
  <1>6. ASSUME NEW d \in kept, NEW e \in kept, rank[d] = rank[e] PROVE d = e
    <2>1. rank[d] = Cardinality(After(d)) /\ rank[e] = Cardinality(After(e))
      OBVIOUS
    <2>2. <<e, d>> \notin newer /\ <<d, e>> \notin newer
      BY <1>2, <1>4, <1>6, <2>1
    <2>3. d \in rows /\ e \in rows
      BY <1>1
    <2> QED
      BY <2>2, <2>3 DEF Ordered
  <1> HIDE DEF rank
  <1>7. rank \in Injection(kept, 0..(n - 1))
    BY <1>5, <1>6 DEF Injection, IsInjective
  <1> HIDE DEF kept
  <1>8. IsFiniteSet(0..(n - 1)) /\ Cardinality(0..(n - 1)) = n
    BY FS_Interval
  <1>9. Cardinality(kept) <= n
    BY <1>7, <1>8, FS_Injection
  <1> QED
    BY <1>9 DEF kept

-----------------------------------------------------------------------------
\* Nobody has signed in at first.
LEMMA AccountsInitInv == Init => AccountsInv
  <1> SUFFICES ASSUME Init PROVE AccountsInv
    OBVIOUS
  <1>1. TypeOK
    <2>1. request \in [Request -> Calls]
      BY DEF Init, Calls, Idle
    <2>2. fails \in 0..MaxFails /\ accepted \in [Codes -> Nat]
      BY AccountsAssumption DEF Init
    <2> QED
      BY <2>1, <2>2 DEF Init, TypeOK
  <1>2. Ordered /\ CodesCounted /\ SignedOut
    BY DEF Init, Ordered, CodesCounted, SignedOut
  <1>3. LimitOrPending
    <2>1. Cardinality(active) = 0
      BY FS_EmptySet DEF Init
    <2> QED
      BY <2>1, AccountsAssumption DEF LimitOrPending
  <1> QED
    BY <1>1, <1>2, <1>3 DEF AccountsInv

-----------------------------------------------------------------------------
\* What a request remembers depends on where it stands.
LEMMA CallFields ==
    ASSUME TypeOK, NEW r \in Request
    PROVE  /\ At(r, "use") => request[r].device \in Devices \cup {NoDevice} /\ request[r].code \in Codes
           /\ At(r, "user") \/ At(r, "upsert") => request[r].device \in Devices \cup {NoDevice}
           /\ At(r, "revoke") => request[r].excess \in SUBSET Devices
  <1>1. request[r] \in Calls
    BY DEF TypeOK
  <1> QED
    BY <1>1 DEF Calls, Idle, At

\* Only the request that takes a step changes.
LEMMA Became ==
    ASSUME TypeOK, NEW r \in Request, NEW v \in Calls, Become(r, v)
    PROVE  /\ request' \in [Request -> Calls]
           /\ request'[r] = v
           /\ \A g \in Request : g # r => request'[g] = request[g]
  BY DEF TypeOK, Become

\* The row seen now comes after all others; the rest keeps its order.
LEMMA SeenIsOrdered ==
    ASSUME TypeOK, Ordered, NEW d \in Devices, Seen(d),
           rows' = rows \cup {d}
    PROVE  Ordered' /\ newer' \subseteq rows' \X rows'
  <1>1. newer \subseteq rows \X rows
    BY DEF TypeOK
  <1>2. \A e, f : <<e, f>> \in newer' <=>
            \/ <<e, f>> \in newer /\ e # d /\ f # d
            \/ e = d /\ f \in rows /\ f # d
    BY <1>1 DEF Seen
  <1>3. newer' \subseteq rows' \X rows'
    BY <1>1 DEF Seen
  <1>4. Ordered'
    BY <1>2 DEF Ordered
  <1> QED
    BY <1>3, <1>4

-----------------------------------------------------------------------------
\* The next-state relation, one disjunct for each action.
LEMMA AccountsSteps ==
    ASSUME Next
    PROVE  \/ \E r \in Request, d \in Devices \cup {NoDevice} : SignIn(r, d)
           \/ \E r \in Request, d \in Devices \cup {NoDevice}, c \in Codes : FindCode(r, d, c)
           \/ \E r \in Request : UseCode(r)
           \/ \E r \in Request : FindUser(r)
           \/ \E r \in Request : Upsert(r)
           \/ \E r \in Request : List(r)
           \/ \E r \in Request : RevokeExcess(r)
           \/ \E r \in Request : Fail(r)
           \/ \E c \in Codes : RequestCode(c) \/ ExpireCode(c)
           \/ \E d \in Devices : Validate(d)
           \/ \E d \in Devices : Touch(d)
           \/ \E d \in Devices : RevokeDevice(d)
           \/ Delete
           \/ SignOutDeleted
  BY DEF Next

\* A request that will restore the limit still will when more rows are signed out.
LEMMA StillRestores ==
    ASSUME AccountsInv, NEW r \in Request, WillRestore(r), request'[r] = request[r],
           active' \in SUBSET active
    PROVE  WillRestore(r)'
  <1>1. CASE At(r, "list")
    BY <1>1 DEF WillRestore, At
  <1>2. CASE At(r, "revoke") /\ Cardinality(active \ request[r].excess) <= Limit
    <2> DEFINE excess == request[r].excess
    <2>1. (active' \ excess) \in SUBSET (active \ excess)
          /\ (active \ excess) \in SUBSET Devices
      BY DEF AccountsInv, TypeOK
    <2> HIDE DEF excess
    <2>2. Cardinality(active' \ excess) <= Cardinality(active \ excess)
          /\ Cardinality(active' \ excess) \in Nat /\ Cardinality(active \ excess) \in Nat
      BY <2>1, DevicesAreCounted
    <2>3. Cardinality(active' \ excess) <= Limit
      BY <1>2, <2>2, AccountsAssumption DEF excess
    <2> QED
      BY <1>2, <2>3 DEF WillRestore, At, excess
  <1> QED
    BY <1>1, <1>2 DEF WillRestore

\* The limit is no further away while rows are only signed out and no request that
\* will restore it is lost.
LEMMA LimitKept ==
    ASSUME AccountsInv, fails' = fails, active' \in SUBSET active,
           \A r \in Request : At(r, "list") \/ At(r, "revoke") => request'[r] = request[r]
    PROVE  LimitOrPending'
  <1> SUFFICES ASSUME fails = 0
               PROVE  Cardinality(active') <= Limit \/ \E r \in Request : WillRestore(r)'
    BY DEF LimitOrPending
  <1>1. active \in SUBSET Devices
    BY DEF AccountsInv, TypeOK
  <1>2. CASE Cardinality(active) <= Limit
    <2>1. Cardinality(active') <= Cardinality(active)
          /\ Cardinality(active') \in Nat /\ Cardinality(active) \in Nat
      BY <1>1, DevicesAreCounted
    <2> QED
      BY <1>2, <2>1, AccountsAssumption
  <1>3. ASSUME NEW r \in Request, WillRestore(r) PROVE WillRestore(r)'
    BY <1>3, StillRestores DEF WillRestore
  <1> QED
    BY <1>2, <1>3 DEF AccountsInv, LimitOrPending

\* Codes are counted alike while none changes and no request begins to use one.
LEMMA CodesKept ==
    ASSUME AccountsInv, code' = code, accepted' = accepted,
           \A c \in Codes : Using(c)' \subseteq Using(c)
    PROVE  CodesCounted'
  <1> SUFFICES ASSUME NEW c \in Codes, code[c] = "used"
               PROVE  accepted[c] + Cardinality(Using(c)') <= Cardinality(Request)
    BY DEF AccountsInv, CodesCounted
  <1>1. Using(c)' \in SUBSET Using(c) /\ Using(c) \in SUBSET Request
    BY DEF Using
  <1>2. Cardinality(Using(c)') <= Cardinality(Using(c))
        /\ Cardinality(Using(c)') \in Nat /\ Cardinality(Using(c)) \in Nat
        /\ Cardinality(Request) \in Nat
    BY <1>1, RequestsAreCounted
  <1>3. accepted[c] \in Nat /\ accepted[c] + Cardinality(Using(c)) <= Cardinality(Request)
    BY DEF AccountsInv, TypeOK, CodesCounted
  <1> QED
    BY <1>2, <1>3

\* A request moves to v, and nothing else changes but the given rows.
LEMMA QuietStep ==
    ASSUME AccountsInv, NEW r \in Request, NEW v \in Calls, Become(r, v),
           ~At(r, "list"), ~At(r, "revoke"), v.pc # "use",
           v.pc = "upsert" => account # "closed",
           UNCHANGED <<account, devices, codes, fails, late>>
    PROVE  AccountsInv'
  <1> USE DEF devices, codes
  <1>1. request' \in [Request -> Calls] /\ request'[r] = v
        /\ \A g \in Request : g # r => request'[g] = request[g]
    BY Became DEF AccountsInv
  <1>2. TypeOK'
    BY <1>1 DEF AccountsInv, TypeOK
  <1>3. Ordered'
    BY DEF AccountsInv, Ordered
  <1>4. LimitOrPending'
    <2>1. active' \in SUBSET active
      OBVIOUS
    <2> QED
      BY <1>1, <2>1, LimitKept DEF At
  <1>5. \A c \in Codes : Using(c)' \subseteq Using(c)
    BY <1>1 DEF Using, At
  <1>6. CodesCounted'
    BY <1>5, CodesKept
  <1>7. SignedOut'
    BY <1>1 DEF AccountsInv, SignedOut, At
  <1> QED
    BY <1>2, <1>3, <1>4, <1>6, <1>7 DEF AccountsInv

\* Nothing a request does; rows may be signed out.
LEMMA NoRequestStep ==
    ASSUME AccountsInv, request' = request, fails' = fails, active' \in SUBSET active,
           UNCHANGED codes
    PROVE  LimitOrPending' /\ CodesCounted'
  <1>1. LimitOrPending'
    BY LimitKept
  <1>2. \A c \in Codes : Using(c)' \subseteq Using(c)
    BY DEF Using, At
  <1> QED
    BY <1>1, <1>2, CodesKept DEF codes

-----------------------------------------------------------------------------
\* A code that is found is unused, so nobody has been let in with it yet.
LEMMA FindCodeStep ==
    ASSUME AccountsInv, NEW r \in Request, NEW d \in Devices \cup {NoDevice}, NEW c \in Codes,
           FindCode(r, d, c)
    PROVE  AccountsInv'
  <1> USE DEF devices, codes
  <1>1. At(r, "idle") /\ code[c] = "unused"
        /\ UNCHANGED <<account, devices, codes, fails, late>>
    BY DEF FindCode
  <1>2. [pc |-> "use", device |-> d, code |-> c] \in Calls
    BY DEF Calls
  <1>3. request' \in [Request -> Calls]
        /\ request'[r] = [pc |-> "use", device |-> d, code |-> c]
        /\ \A g \in Request : g # r => request'[g] = request[g]
    BY <1>2, Became DEF FindCode, AccountsInv
  <1>4. TypeOK' /\ Ordered'
    BY <1>1, <1>3 DEF AccountsInv, TypeOK, Ordered
  <1>5. LimitOrPending'
    <2>1. active' \in SUBSET active
      BY <1>1
    <2> QED
      BY <1>1, <1>3, <2>1, LimitKept DEF At
  <1>6. CodesCounted'
    <2>1. ASSUME NEW k \in Codes, code[k] = "used"
          PROVE  accepted[k] + Cardinality(Using(k)') <= Cardinality(Request)
      <3>1. Using(k)' \in SUBSET Using(k) /\ Using(k) \in SUBSET Request
        BY <1>1, <1>3, <2>1 DEF Using, At
      <3>2. Cardinality(Using(k)') <= Cardinality(Using(k))
            /\ Cardinality(Using(k)') \in Nat /\ Cardinality(Using(k)) \in Nat
            /\ Cardinality(Request) \in Nat
        BY <3>1, RequestsAreCounted
      <3>3. accepted[k] \in Nat /\ accepted[k] + Cardinality(Using(k)) <= Cardinality(Request)
        BY <2>1 DEF AccountsInv, TypeOK, CodesCounted
      <3> QED
        BY <3>2, <3>3
    <2> QED
      BY <1>1, <2>1 DEF AccountsInv, CodesCounted
  <1>7. SignedOut'
    BY <1>1, <1>3 DEF AccountsInv, SignedOut, At
  <1> QED
    BY <1>4, <1>5, <1>6, <1>7 DEF AccountsInv

\* Accepting a code trades a request that holds it for an acceptance.
LEMMA UseCodeStep ==
    ASSUME AccountsInv, NEW r \in Request, UseCode(r)
    PROVE  AccountsInv'
  <1> USE DEF devices, codes
  <1>1. PICK c \in Codes : c = request[r].code
    BY CallFields DEF UseCode, AccountsInv
  <1>2. At(r, "use") /\ request[r].device \in Devices \cup {NoDevice}
        /\ code' = [code EXCEPT ![c] = "used"]
        /\ accepted' = [accepted EXCEPT ![c] = @ + 1]
        /\ UNCHANGED <<account, devices, fails, late>>
    BY <1>1, CallFields DEF UseCode, AccountsInv
  <1>3. [pc |-> "user", device |-> request[r].device] \in Calls
    BY <1>2 DEF Calls
  <1>4. request' \in [Request -> Calls]
        /\ request'[r] = [pc |-> "user", device |-> request[r].device]
        /\ \A g \in Request : g # r => request'[g] = request[g]
    BY <1>3, Became DEF UseCode, AccountsInv
  <1>5. code' \in [Codes -> {"none", "unused", "expired", "used"}]
        /\ accepted' \in [Codes -> Nat]
    BY <1>2 DEF AccountsInv, TypeOK
  <1>6. TypeOK' /\ Ordered'
    BY <1>2, <1>4, <1>5 DEF AccountsInv, TypeOK, Ordered
  <1>7. LimitOrPending'
    <2>1. active' \in SUBSET active
      BY <1>2
    <2> QED
      BY <1>2, <1>4, <2>1, LimitKept DEF At
  <1>8. \A k \in Codes : Using(k)' \in SUBSET Using(k) /\ Using(k) \in SUBSET Request
    BY <1>4 DEF Using, At
  <1>9. \A k \in Codes : /\ Cardinality(Using(k)') <= Cardinality(Using(k))
                         /\ Cardinality(Using(k)') \in Nat /\ Cardinality(Using(k)) \in Nat
                         /\ Cardinality(Using(k)) <= Cardinality(Request)
                         /\ Cardinality(Request) \in Nat
    BY <1>8, RequestsAreCounted
  <1>10. Cardinality(Using(c)') <= Cardinality(Using(c)) - 1
    <2>1. r \in Using(c) /\ Using(c)' \in SUBSET (Using(c) \ {r})
      BY <1>1, <1>2, <1>4 DEF Using, At
    <2>2. IsFiniteSet(Using(c))
      BY <1>8, RequestsAreCounted
    <2>3. IsFiniteSet(Using(c) \ {r}) /\ Cardinality(Using(c) \ {r}) = Cardinality(Using(c)) - 1
      BY <2>1, <2>2, FS_RemoveElement
    <2> QED
      BY <2>1, <2>3, FS_Subset
  <1>11. CodesCounted'
    <2>1. ASSUME NEW k \in Codes
          PROVE  /\ code'[k] # "used" => accepted'[k] = 0
                 /\ code'[k] = "used" =>
                       accepted'[k] + Cardinality(Using(k)') <= Cardinality(Request)
      <3>1. /\ code[k] # "used" => accepted[k] = 0
            /\ code[k] = "used" => accepted[k] + Cardinality(Using(k)) <= Cardinality(Request)
            /\ accepted[k] \in Nat
        BY DEF AccountsInv, TypeOK, CodesCounted
      <3>2. CASE k = c
        <4>1. code'[k] = "used" /\ accepted'[k] = accepted[k] + 1
          BY <1>2, <3>2 DEF AccountsInv, TypeOK
        <4> QED
          BY <1>9, <1>10, <3>1, <3>2, <4>1
      <3>3. CASE k # c
        <4>1. code'[k] = code[k] /\ accepted'[k] = accepted[k]
          BY <1>2, <3>3 DEF AccountsInv, TypeOK
        <4> QED
          BY <1>9, <3>1, <4>1
      <3> QED
        BY <3>2, <3>3
    <2> QED
      BY <2>1 DEF CodesCounted
  <1>12. SignedOut'
    BY <1>2, <1>4 DEF AccountsInv, SignedOut, At
  <1> QED
    BY <1>6, <1>7, <1>11, <1>12 DEF AccountsInv

\* Whoever signs a device in lists the devices next.
LEMMA UpsertStep ==
    ASSUME AccountsInv, NEW r \in Request, Upsert(r), request[r].device # NoDevice
    PROVE  AccountsInv'
  <1> USE DEF devices, codes
  <1>1. PICK d \in Devices : d = request[r].device
    BY CallFields DEF Upsert, AccountsInv
  <1>2. At(r, "upsert") /\ rows' = rows \cup {d} /\ active' = active \cup {d} /\ Seen(d)
        /\ Become(r, [pc |-> "list", device |-> d])
        /\ UNCHANGED <<touching, account, codes, fails, late>>
    BY <1>1 DEF Upsert
  <1>3. [pc |-> "list", device |-> d] \in Calls
    BY DEF Calls
  <1>4. request' \in [Request -> Calls]
        /\ request'[r] = [pc |-> "list", device |-> d]
        /\ \A g \in Request : g # r => request'[g] = request[g]
    BY <1>2, <1>3, Became DEF AccountsInv
  <1>5. Ordered' /\ newer' \subseteq rows' \X rows'
    BY <1>2, SeenIsOrdered DEF AccountsInv
  <1>6. TypeOK'
    BY <1>2, <1>4, <1>5 DEF AccountsInv, TypeOK
  <1>7. LimitOrPending'
    BY <1>4 DEF LimitOrPending, WillRestore, At
  <1>8. \A c \in Codes : Using(c)' \subseteq Using(c)
    BY <1>4 DEF Using, At
  <1>9. CodesCounted'
    BY <1>2, <1>8, CodesKept
  <1>10. SignedOut'
    BY <1>2 DEF AccountsInv, SignedOut
  <1> QED
    BY <1>5, <1>6, <1>7, <1>9, <1>10 DEF AccountsInv

\* Whoever lists too many devices is about to sign out enough of them.
LEMMA ListStep ==
    ASSUME AccountsInv, NEW r \in Request, List(r)
    PROVE  AccountsInv'
  <1> USE DEF devices, codes
  <1> DEFINE many == Cardinality(active) > Limit
             v == IF many THEN [pc |-> "revoke", excess |-> Excess(Limit)] ELSE Idle
  <1>1. At(r, "list") /\ Become(r, v) /\ UNCHANGED <<account, devices, codes, fails, late>>
    BY DEF List
  <1>2. Excess(Limit) \in SUBSET Devices
    BY DEF Excess, AccountsInv, TypeOK
  <1>3. v \in Calls /\ v.pc \in {"idle", "revoke"}
    BY <1>2 DEF Calls, Idle
  <1>4. many => v = [pc |-> "revoke", excess |-> Excess(Limit)]
    OBVIOUS
  <1> HIDE DEF v
  <1>5. request' \in [Request -> Calls] /\ request'[r] = v
        /\ \A g \in Request : g # r => request'[g] = request[g]
    BY <1>1, <1>3, Became DEF AccountsInv
  <1>6. TypeOK' /\ Ordered'
    BY <1>1, <1>5 DEF AccountsInv, TypeOK, Ordered
  <1>7. LimitOrPending'
    <2>1. CASE many
      <3>1. Cardinality(active \ Excess(Limit)) <= Limit
        BY ExcessIsEnough, AccountsAssumption DEF AccountsInv
      <3>2. request'[r].pc = "revoke" /\ request'[r].excess = Excess(Limit)
        BY <1>4, <1>5, <2>1
      <3> HIDE DEF many
      <3>3. Cardinality(active' \ request'[r].excess) <= Limit
        BY <1>1, <3>1, <3>2
      <3>4. WillRestore(r)'
        BY <3>2, <3>3 DEF WillRestore, At
      <3> QED
        BY <3>4 DEF LimitOrPending
    <2>2. CASE ~ many
      <3>1. Cardinality(active) \in Nat
        BY DevicesAreCounted DEF AccountsInv, TypeOK
      <3>2. Cardinality(active') <= Limit
        BY <1>1, <2>2, <3>1, AccountsAssumption
      <3> QED
        BY <3>2 DEF LimitOrPending
    <2> QED
      BY <2>1, <2>2
  <1>8. \A c \in Codes : Using(c)' \subseteq Using(c)
    BY <1>3, <1>5 DEF Using, At
  <1>9. CodesCounted'
    BY <1>1, <1>8, CodesKept
  <1>10. SignedOut'
    BY <1>1, <1>3, <1>5 DEF AccountsInv, SignedOut, At
  <1> QED
    BY <1>6, <1>7, <1>9, <1>10 DEF AccountsInv

\* The request that restores the limit does so.
LEMMA RevokeExcessStep ==
    ASSUME AccountsInv, NEW r \in Request, RevokeExcess(r)
    PROVE  AccountsInv'
  <1> USE DEF devices, codes
  <1>1. At(r, "revoke") /\ active' = active \ request[r].excess
        /\ Become(r, Idle)
        /\ UNCHANGED <<account, rows, newer, touching, codes, fails, late>>
    BY DEF RevokeExcess
  <1>2. Idle \in Calls /\ Idle.pc = "idle"
    BY DEF Calls, Idle
  <1>3. request' \in [Request -> Calls] /\ request'[r] = Idle
        /\ \A g \in Request : g # r => request'[g] = request[g]
    BY <1>1, <1>2, Became DEF AccountsInv
  <1>4. TypeOK' /\ Ordered'
    BY <1>1, <1>3 DEF AccountsInv, TypeOK, Ordered
  <1>5. LimitOrPending'
    <2>1. CASE WillRestore(r)
      <3>1. Cardinality(active') <= Limit
        BY <1>1, <2>1 DEF WillRestore, At
      <3> QED
        BY <3>1 DEF LimitOrPending
    <2>2. CASE ~ WillRestore(r)
      <3> SUFFICES ASSUME fails = 0
                   PROVE  Cardinality(active') <= Limit \/ \E g \in Request : WillRestore(g)'
        BY <1>1 DEF LimitOrPending
      <3>1. active \in SUBSET Devices /\ active' \in SUBSET active
        BY <1>1 DEF AccountsInv, TypeOK
      <3>2. Cardinality(active') <= Cardinality(active)
            /\ Cardinality(active') \in Nat /\ Cardinality(active) \in Nat
        BY <3>1, DevicesAreCounted
      <3>3. ASSUME NEW g \in Request, WillRestore(g) PROVE WillRestore(g)'
        BY <1>3, <2>2, <3>1, <3>3, StillRestores
      <3>4. Cardinality(active) <= Limit => Cardinality(active') <= Limit
        BY <3>2, AccountsAssumption
      <3> QED
        BY <3>3, <3>4 DEF AccountsInv, LimitOrPending
    <2> QED
      BY <2>1, <2>2
  <1>6. \A c \in Codes : Using(c)' \subseteq Using(c)
    BY <1>2, <1>3 DEF Using, At
  <1>7. CodesCounted'
    BY <1>1, <1>6, CodesKept
  <1>8. SignedOut'
    BY <1>1, <1>2, <1>3 DEF AccountsInv, SignedOut, At
  <1> QED
    BY <1>4, <1>5, <1>7, <1>8 DEF AccountsInv

\* A sign-in that fails does not count against the limit any more.
LEMMA FailStep ==
    ASSUME AccountsInv, NEW r \in Request, Fail(r)
    PROVE  AccountsInv'
  <1> USE DEF devices, codes
  <1>1. fails < MaxFails /\ fails' = fails + 1 /\ Become(r, Idle)
        /\ UNCHANGED <<account, devices, codes, late>>
    BY DEF Fail
  <1>2. Idle \in Calls /\ Idle.pc = "idle"
    BY DEF Calls, Idle
  <1>3. request' \in [Request -> Calls] /\ request'[r] = Idle
        /\ \A g \in Request : g # r => request'[g] = request[g]
    BY <1>1, <1>2, Became DEF AccountsInv
  <1>4. fails' \in 0..MaxFails /\ fails' # 0
    BY <1>1, AccountsAssumption DEF AccountsInv, TypeOK
  <1>5. TypeOK' /\ Ordered'
    BY <1>1, <1>3, <1>4 DEF AccountsInv, TypeOK, Ordered
  <1>6. LimitOrPending'
    BY <1>4 DEF LimitOrPending
  <1>7. \A c \in Codes : Using(c)' \subseteq Using(c)
    BY <1>2, <1>3 DEF Using, At
  <1>8. CodesCounted'
    BY <1>1, <1>7, CodesKept
  <1>9. SignedOut'
    BY <1>1, <1>2, <1>3 DEF AccountsInv, SignedOut, At
  <1> QED
    BY <1>5, <1>6, <1>8, <1>9 DEF AccountsInv

\* Every step keeps the invariant.
LEMMA AccountsStep == AccountsInv /\ [Next]_vars => AccountsInv'
  <1> SUFFICES ASSUME AccountsInv, [Next]_vars PROVE AccountsInv'
    OBVIOUS
  <1> USE DEF devices, codes
  <1>1. ASSUME NEW r \in Request, NEW d \in Devices \cup {NoDevice}, SignIn(r, d)
        PROVE  AccountsInv'
    <2> DEFINE v == [pc |-> "upsert", device |-> d]
    <2>1. v \in Calls /\ v.pc = "upsert"
      BY DEF Calls
    <2> HIDE DEF v
    <2>2. Become(r, v) /\ At(r, "idle") /\ account = "open"
          /\ UNCHANGED <<account, devices, codes, fails, late>>
      BY <1>1 DEF SignIn, v
    <2> QED
      BY <2>1, <2>2, QuietStep DEF At
  <1>2. ASSUME NEW r \in Request, FindUser(r) PROVE AccountsInv'
    <2> DEFINE v == IF account # "open" THEN Idle
                    ELSE [pc |-> "upsert", device |-> request[r].device]
    <2>1. At(r, "user") /\ request[r].device \in Devices \cup {NoDevice}
      BY <1>2, CallFields DEF FindUser, AccountsInv
    <2>2. v \in Calls /\ v.pc \in {"idle", "upsert"} /\ (v.pc = "upsert" => account # "closed")
      BY <2>1 DEF Calls, Idle
    <2>3. Become(r, v) /\ UNCHANGED <<account, devices, codes, fails, late>>
      BY <1>2 DEF FindUser
    <2> HIDE DEF v
    <2> QED
      BY <2>1, <2>2, <2>3, QuietStep DEF At
  <1>3. ASSUME NEW r \in Request, Upsert(r) PROVE AccountsInv'
    <2>1. CASE request[r].device = NoDevice
      <3>1. Idle \in Calls /\ Idle.pc = "idle"
        BY DEF Calls, Idle
      <3>2. Become(r, Idle) /\ At(r, "upsert")
            /\ UNCHANGED <<account, devices, codes, fails, late>>
        BY <1>3, <2>1 DEF Upsert
      <3> QED
        BY <3>1, <3>2, QuietStep DEF At
    <2> QED
      BY <1>3, <2>1, UpsertStep
  <1>4. ASSUME NEW c \in Codes, RequestCode(c) \/ ExpireCode(c) PROVE AccountsInv'
    <2>1. PICK s \in {"unused", "expired"} : code' = [code EXCEPT ![c] = s]
      BY <1>4 DEF RequestCode, ExpireCode
    <2>2. code[c] # "used" /\ UNCHANGED <<account, devices, accepted, request, fails, late>>
      BY <1>4 DEF RequestCode, ExpireCode
    <2>3. TypeOK' /\ Ordered' /\ SignedOut'
      BY <2>1, <2>2 DEF AccountsInv, TypeOK, Ordered, SignedOut, At
    <2>4. LimitOrPending'
      <3>1. active' \in SUBSET active
        BY <2>2
      <3> QED
        BY <2>2, <3>1, LimitKept
    <2>5. CodesCounted'
      <3>1. \A k \in Codes : /\ Using(k)' = Using(k)
                             /\ code'[k] = IF k = c THEN s ELSE code[k]
        BY <2>1, <2>2 DEF Using, At, AccountsInv, TypeOK
      <3> HIDE DEF Using
      <3> QED
        BY <2>2, <3>1 DEF AccountsInv, CodesCounted
    <2> QED
      BY <2>3, <2>4, <2>5 DEF AccountsInv
  <1>5. ASSUME NEW d \in Devices, Validate(d) PROVE AccountsInv'
    BY <1>5, NoRequestStep
    DEF Validate, AccountsInv, TypeOK, Ordered, SignedOut, At
  <1>6. ASSUME NEW d \in Devices, Touch(d) PROVE AccountsInv'
    <2>1. rows' = rows \cup {d} /\ Seen(d)
          /\ UNCHANGED <<account, rows, active, codes, request, fails, late>>
      BY <1>6 DEF Touch, AccountsInv, TypeOK
    <2>2. Ordered' /\ newer' \subseteq rows' \X rows'
      BY <2>1, SeenIsOrdered DEF AccountsInv
    <2>3. TypeOK' /\ SignedOut'
      BY <1>6, <2>1, <2>2 DEF Touch, AccountsInv, TypeOK, SignedOut, At
    <2>4. LimitOrPending' /\ CodesCounted'
      BY <2>1, NoRequestStep
    <2> QED
      BY <2>2, <2>3, <2>4 DEF AccountsInv
  <1>7. ASSUME NEW d \in Devices, RevokeDevice(d) PROVE AccountsInv'
    BY <1>7, NoRequestStep
    DEF RevokeDevice, AccountsInv, TypeOK, Ordered, SignedOut, At
  <1>8. CASE Delete
    BY <1>8, NoRequestStep DEF Delete, AccountsInv, TypeOK, Ordered, SignedOut, At
  <1>9. CASE SignOutDeleted
    BY <1>9, NoRequestStep DEF SignOutDeleted, AccountsInv, TypeOK, Ordered, SignedOut, At
  <1>10. CASE UNCHANGED vars
    BY <1>10, NoRequestStep DEF vars, AccountsInv, TypeOK, Ordered, SignedOut, At
  <1> QED
    BY <1>1, <1>2, <1>3, <1>4, <1>5, <1>6, <1>7, <1>8, <1>9, <1>10, AccountsSteps,
       FindCodeStep, UseCodeStep, ListStep, RevokeExcessStep, FailStep

\* The invariant holds however sign-ins, sign-outs and ordinary requests interleave.
THEOREM AccountsInvariant == Spec => []AccountsInv
  <1> QED
    BY AccountsInitInv, AccountsStep, PTL DEF Spec

\* Devices, codes and sign-ins keep the shape the schema and the code give them.
THEOREM AccountsTypeCorrect == Spec => []TypeOK
  <1>1. AccountsInv => TypeOK
    BY DEF AccountsInv
  <1> QED
    BY <1>1, AccountsInvariant, PTL

\* Once every sign-in is through, the limit holds: for any limit, any number of
\* devices and any number of sign-ins at once.
THEOREM DeviceLimitIsKept == Spec => []DeviceLimitHolds
  <1>1. AccountsInv => DeviceLimitHolds
    BY DEF AccountsInv, LimitOrPending, WillRestore, DeviceLimitHolds, Quiet, At
  <1> QED
    BY <1>1, AccountsInvariant, PTL

\* A code lets in at most as many sign-ins as can overlap.
THEOREM CodesAreAcceptedByOverlapOnly == Spec => []CodeAcceptedByOverlapOnly
  <1>1. AccountsInv => CodeAcceptedByOverlapOnly
    <2> SUFFICES ASSUME AccountsInv, NEW c \in Codes
                 PROVE  accepted[c] <= Cardinality(Request)
      BY DEF CodeAcceptedByOverlapOnly
    <2>1. Using(c) \in SUBSET Request
      BY DEF Using
    <2>2. Cardinality(Using(c)) \in Nat /\ Cardinality(Request) \in Nat
      BY <2>1, RequestsAreCounted
    <2>3. accepted[c] \in Nat
      BY DEF AccountsInv, TypeOK
    <2> QED
      BY <2>2, <2>3 DEF AccountsInv, CodesCounted
  <1> QED
    BY <1>1, AccountsInvariant, PTL

\* A deleted account stays signed out everywhere, but for a sign-in under way then.
THEOREM DeletedStaysSignedOut == Spec => []DeletedIsSignedOut
  <1>1. AccountsInv => DeletedIsSignedOut
    BY DEF AccountsInv, SignedOut, DeletedIsSignedOut
  <1> QED
    BY <1>1, AccountsInvariant, PTL
=============================================================================
