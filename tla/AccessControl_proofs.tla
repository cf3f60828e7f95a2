------------------------ MODULE AccessControl_proofs ------------------------
(***************************************************************************)
(* Theorems about AccessControl, for every set of users, keys, limits and  *)
(* clients, every rate and every bound.                                    *)
(*                                                                         *)
(* The budget rests on an account kept in each bucket: what was taken and  *)
(* what is left never exceed the burst and what the rate has yielded up to *)
(* the last refill.  The attribution of requests rests on the keys: every  *)
(* key that is stored anywhere, in a row, in a file or in the hands of an  *)
(* UpdateUser between its two statements, is kept with the user it was     *)
(* issued to.  The wait a refusal is told rests on its quotient, which is  *)
(* rounded up, and on refills that lose nothing: the token is there at the *)
(* promised moment however often others refill the bucket meanwhile.       *)
(***************************************************************************)
EXTENDS AccessControl, TLAPS

-----------------------------------------------------------------------------
(* Arithmetic.                                                             *)

\* A product of naturals is a natural number.
LEMMA ProductNat == \A x, y \in Nat : x * y \in Nat
  OBVIOUS

\* A span of time that is cut in two yields what its parts yield.
LEMMA SpanSplit ==
  ASSUME NEW t \in Nat, NEW l \in Nat, NEW f \in Nat, NEW r \in Nat, f <= l, l <= t
  PROVE  (t - f) * r = (l - f) * r + (t - l) * r
<1>1. t - f \in Nat /\ l - f \in Nat /\ t - l \in Nat /\ t - f = (l - f) + (t - l)
  OBVIOUS
<1>2. \A x, y, z \in Nat : (x + y) * z = x * z + y * z
  OBVIOUS
<1> QED
  BY <1>1, <1>2

\* A quotient of naturals is a natural number.
LEMMA QuotientNat == \A x \in Nat, y \in Nat \ {0} : x \div y \in Nat
  OBVIOUS

-----------------------------------------------------------------------------
(* Buckets.                                                                *)

\* A new bucket is full.
LEMMA NewBucket ==
  ASSUME NEW limit \in Limit, NEW t \in Nat
  PROVE  /\ NewTokenBucket(limit, t) \in Bucket
         /\ NewTokenBucket(limit, t).tokens = NewTokenBucket(limit, t).capacity
         /\ NewTokenBucket(limit, t).last = t
<1>1. limit.burst \in Nat /\ limit.rate \in Nat /\ limit.burst * Unit \in Nat
  BY UnitAssumption, ProductNat DEF Limit
<1> QED
  BY <1>1 DEF NewTokenBucket, Bucket

\* A refill moves the clock, adds at most what the rate yields, and never goes
\* above the capacity.
LEMMA Refill ==
  ASSUME NEW b \in Bucket, NEW t \in Nat, b.last <= t
  PROVE  /\ Refilled(b, t) \in Bucket
         /\ Refilled(b, t).last = t
         /\ Refilled(b, t).capacity = b.capacity
         /\ Refilled(b, t).rate = b.rate
         /\ Refilled(b, t).tokens <= b.tokens + (t - b.last) * b.rate
         /\ b.tokens <= b.capacity => Refilled(b, t).tokens <= b.capacity
<1>1. /\ b.capacity \in Nat /\ b.tokens \in Nat /\ b.rate \in Nat /\ b.last \in Nat
      /\ b = [capacity |-> b.capacity, tokens |-> b.tokens, rate |-> b.rate, last |-> b.last]
  BY DEF Bucket
<1>2. (t - b.last) * b.rate \in Nat
  <2>1. t - b.last \in Nat
    BY <1>1
  <2> QED
    BY <1>1, <2>1, ProductNat
<1> DEFINE n == b.tokens + (t - b.last) * b.rate
<1>3. n \in Nat
  BY <1>1, <1>2
<1> DEFINE m == Least(b.capacity, n)
<1>4. Refilled(b, t) = [capacity |-> b.capacity, tokens |-> m, rate |-> b.rate, last |-> t]
  <2>1. Refilled(b, t) = [b EXCEPT !.tokens = m, !.last = t]
    BY DEF Refilled
  <2> HIDE DEF m
  <2> QED
    BY <2>1 DEF Bucket
<1>5. m \in Nat /\ m <= n /\ m <= b.capacity
  BY <1>1, <1>3 DEF Least
<1> HIDE DEF n, m
<1>6. Refilled(b, t) \in Bucket
  BY <1>1, <1>4, <1>5 DEF Bucket
<1>7. Refilled(b, t).tokens <= n
  BY <1>4, <1>5
<1>8. Refilled(b, t).tokens <= b.capacity
  BY <1>4, <1>5
<1> QED
  BY <1>4, <1>6, <1>7, <1>8 DEF n

\* Take leaves a bucket, refilled at t, and what it takes out was in it.
LEMMA Take ==
  ASSUME NEW b \in Bucket, NEW t \in Nat, b.last <= t
  PROVE  /\ AfterTake(b, t) \in Bucket
         /\ AfterTake(b, t).last = t
         /\ AfterTake(b, t).capacity = b.capacity
         /\ AfterTake(b, t).rate = b.rate
         /\ HasToken(b, t) => Refilled(b, t).tokens = AfterTake(b, t).tokens + Unit
         /\ ~HasToken(b, t) => Refilled(b, t).tokens = AfterTake(b, t).tokens
<1> DEFINE c == Refilled(b, t)
<1>1. c \in Bucket /\ c.last = t /\ c.capacity = b.capacity /\ c.rate = b.rate
  BY Refill
<1>2. CASE HasToken(b, t)
  <2>1. AfterTake(b, t) = [c EXCEPT !.tokens = c.tokens - Unit] /\ c.tokens >= Unit
    BY <1>2 DEF AfterTake, HasToken
  <2> HIDE DEF c
  <2>2. c.tokens \in Nat /\ c.tokens - Unit \in Nat
    BY <1>1, <2>1, UnitAssumption DEF Bucket
  <2>3. AfterTake(b, t).tokens = c.tokens - Unit
    BY <1>1, <2>1 DEF Bucket
  <2>4. c.tokens = AfterTake(b, t).tokens + Unit
    BY <2>2, <2>3, UnitAssumption
  <2>5. AfterTake(b, t) \in Bucket /\ AfterTake(b, t).last = t
        /\ AfterTake(b, t).capacity = b.capacity /\ AfterTake(b, t).rate = b.rate
    BY <1>1, <2>1, <2>2 DEF Bucket
  <2> QED
    BY <1>2, <2>4, <2>5 DEF c
<1>3. CASE ~HasToken(b, t)
  BY <1>1, <1>3 DEF AfterTake
<1> QED
  BY <1>2, <1>3

\* Retry-After is a natural number.
LEMMA WaitNat ==
  ASSUME NEW b \in Bucket
  PROVE  RetryAfterSeconds(b) \in Nat
<1>1. CASE b.rate = 0 \/ b.tokens >= Unit
  BY <1>1 DEF RetryAfterSeconds
<1>2. CASE ~(b.rate = 0 \/ b.tokens >= Unit)
  <2>1. b.rate \in Nat \ {0} /\ b.tokens \in Nat /\ ~(b.tokens >= Unit)
    BY <1>2 DEF Bucket
  <2>2. Unit - b.tokens + b.rate - 1 \in Nat
    BY <2>1, UnitAssumption
  <2> QED
    BY <1>2, <2>1, <2>2, QuotientNat DEF RetryAfterSeconds
<1> QED
  BY <1>1, <1>2

-----------------------------------------------------------------------------
(* The invariant of the limiter.                                           *)

\* A bucket's account: what was taken and what is left came from the burst and
\* from the time up to the last refill.
Account(u) ==
  IF bucket[u] = NoBucket THEN admitted[u] = 0 /\ first[u] = NoTime
  ELSE /\ first[u] \in Nat /\ first[u] <= bucket[u].last /\ bucket[u].last <= now
       /\ admitted[u] * Unit + bucket[u].tokens
            <= bucket[u].capacity + (bucket[u].last - first[u]) * bucket[u].rate

\* What a request holds at its place: a user and a key, a fresh bucket that is
\* full, a bucket in the map.
Placed(q) ==
  /\ q.pc # "idle" => q.key \in Keys /\ q.user \in UserIds
  /\ q.pc = "store" => q.fresh # NoBucket
  /\ q.pc \in {"take", "refuse", "refused"} => bucket[q.user] # NoBucket
  /\ q.fresh # NoBucket => q.fresh.last <= now /\ q.fresh.tokens = q.fresh.capacity

LimiterInv ==
  /\ TypeOK
  /\ \A u \in UserIds : Account(u)
  /\ \A r \in Clients : Placed(req[r])

\* The assumptions, as the steps below need them.
LEMMA ConstantsTyped ==
  /\ \A l \in Limits : l \in Limit
  /\ DefaultLimit \in Limit /\ NoBucket \notin Bucket /\ NoTime \notin Nat
  BY AccessAssumption

\* The settings of a row or of the file are a key and a limit, if there is one.
LEMMA SettingsTyped ==
  ASSUME UsersTypeOK, NEW u \in UserIds
  PROVE  /\ Known(u) => rows[u] \in Row
         /\ u \in DOMAIN config => config[u] \in UserConfig
         /\ GetUserConfig(u) \in UserConfig \cup {NoUser}
<1>1. Known(u) => rows[u] \in Row
  BY DEF UsersTypeOK, Known
<1>2. u \in DOMAIN config => config[u] \in UserConfig
  <2>1. config \in Section
    BY UsersAssumption DEF UsersTypeOK
  <2> QED
    BY <2>1 DEF Section
<1>3. Active(u) => [key |-> rows[u].key, limit |-> rows[u].limit] \in UserConfig
  BY <1>1 DEF Active, Row, UserConfig
<1> QED
  BY <1>1, <1>2, <1>3 DEF GetUserConfig

\* The limit a bucket is created with is one, whatever the user's settings are.
LEMMA LimitTyped ==
  ASSUME UsersTypeOK, NEW u \in UserIds, NEW uc \in UserConfig \cup {NoUser}
  PROVE  EffectiveLimit(u, uc) \in Limit
<1>1. \A l \in Limits : Override(l) \in Limit
  <2> TAKE l \in Limits
  <2>1. l.burst \in Nat /\ l.rate \in Nat /\ DefaultLimit.burst \in Nat /\ DefaultLimit.rate \in Nat
    BY ConstantsTyped DEF Limit
  <2> QED
    BY <2>1 DEF Override, Limit
<1>2. uc # NoUser /\ uc.limit # NoLimit => uc.limit \in Limits
  BY DEF UserConfig
<1>3. u \in DOMAIN config /\ config[u].limit # NoLimit => config[u].limit \in Limits
  BY SettingsTyped DEF UserConfig
<1> QED
  BY <1>1, <1>2, <1>3, ConstantsTyped DEF EffectiveLimit

-----------------------------------------------------------------------------
(* The users alone.                                                        *)

\* A request of the users page keeps the types.
LEMMA UserActionTyped ==
  ASSUME UsersTypeOK, UserAction
  PROVE  UsersTypeOK'
<1> USE UsersAssumption DEF UsersTypeOK
<1>1. ASSUME NEW u \in UserIds, NEW k \in Keys, NEW l \in Limits \cup {NoLimit}, CreateUser(u, k, l)
      PROVE  UsersTypeOK'
  <2>1. [key |-> k, limit |-> l, active |-> TRUE] \in Row
    BY DEF Row
  <2> QED
    BY <1>1, <2>1 DEF CreateUser, Issue, CountEdit
<1>2. ASSUME NEW u \in UserIds, NEW k \in Keys, RotateUserKey(u, k)
      PROVE  UsersTypeOK'
  <2>1. [rows[u] EXCEPT !.key = k] \in Row
    <3>1. rows[u] \in Row
      BY <1>2, SettingsTyped DEF RotateUserKey, Active
    <3> QED
      BY <3>1 DEF Row
  <2>2. rows' \in [UserIds -> Row \cup {NoRow}]
    BY <1>2, <2>1 DEF RotateUserKey
  <2>3. owner' \in [Keys -> UserIds \cup {Nobody}] /\ edits' \in 0..MaxEdits
    BY <1>2 DEF RotateUserKey, Issue, CountEdit
  <2> QED
    BY <1>2, <2>2, <2>3 DEF RotateUserKey
<1>3. ASSUME NEW u \in UserIds, DeactivateUser(u)
      PROVE  UsersTypeOK'
  <2>1. [rows[u] EXCEPT !.active = FALSE] \in Row
    <3>1. rows[u] \in Row
      BY <1>3, SettingsTyped DEF DeactivateUser, Active
    <3> QED
      BY <3>1 DEF Row
  <2>2. rows' \in [UserIds -> Row \cup {NoRow}]
    BY <1>3, <2>1 DEF DeactivateUser
  <2> QED
    BY <1>3, <2>2 DEF DeactivateUser, CountEdit
<1>4. ASSUME NEW a \in Admins, NEW u \in UserIds, NEW l \in Limits \cup {NoLimit}, BeginUpdate(a, u, l)
      PROVE  UsersTypeOK'
  <2>1. GetUserConfig(u).key \in Keys
    BY <1>4, SettingsTyped DEF BeginUpdate, UserConfig
  <2>2. [user |-> u, key |-> GetUserConfig(u).key, limit |-> l] \in Edit
    BY <2>1 DEF Edit
  <2>3. editing' \in [Admins -> Edit \cup {NoEdit}]
    BY <1>4, <2>2 DEF BeginUpdate
  <2> QED
    BY <1>4, <2>3 DEF BeginUpdate, CountEdit
<1>5. ASSUME NEW a \in Admins, FinishUpdate(a)
      PROVE  UsersTypeOK'
  <2> DEFINE e == editing[a]
  <2>1. e \in Edit
    BY <1>5 DEF FinishUpdate
  <2>2. \A u \in UserIds : Known(u) => [rows[u] EXCEPT !.key = e.key, !.limit = e.limit] \in Row
    <3>1. e.key \in Keys /\ e.limit \in Limits \cup {NoLimit}
      BY <2>1 DEF Edit
    <3> HIDE DEF e
    <3>2. \A x \in Row : [x EXCEPT !.key = e.key, !.limit = e.limit] \in Row
      BY <3>1 DEF Row
    <3> QED
      BY <3>2, SettingsTyped
  <2>3. rows' = [u \in UserIds |-> IF u \in Written(e)
                   THEN [rows[u] EXCEPT !.key = e.key, !.limit = e.limit] ELSE rows[u]]
    BY <1>5 DEF FinishUpdate
  <2> HIDE DEF e
  <2>4. rows' \in [UserIds -> Row \cup {NoRow}]
    BY <2>2, <2>3 DEF Written
  <2>5. editing' \in [Admins -> Edit \cup {NoEdit}]
    BY <1>5 DEF FinishUpdate
  <2> QED
    BY <1>5, <2>4, <2>5 DEF FinishUpdate
<1> QED
  BY <1>1, <1>2, <1>3, <1>4, <1>5 DEF UserAction

\* A start reads a users section and leaves the table as it is.
LEMMA RestartTyped ==
  ASSUME UsersTypeOK, RestartUsers
  PROVE  UsersTypeOK'
  BY UsersAssumption DEF UsersTypeOK, RestartUsers

\* The first start seeds rows from the file.
LEMMA UsersInitTyped ==
  ASSUME UsersInit
  PROVE  UsersTypeOK
<1>1. rows \in [UserIds -> Row \cup {NoRow}]
  <2>1. PICK y \in Yamls : \E S \in SUBSET DOMAIN y : rows = SeededRows(y, S)
    BY DEF UsersInit
  <2>2. PICK S \in SUBSET DOMAIN y : rows = SeededRows(y, S)
    BY <2>1
  <2>3. \A u \in UserIds : u \in DOMAIN y => y[u] \in UserConfig
    BY UsersAssumption DEF Section
  <2>4. \A u \in S : u \in UserIds => [key |-> y[u].key, limit |-> y[u].limit, active |-> TRUE] \in Row
    BY <2>3 DEF UserConfig, Row
  <2> QED
    BY <2>2, <2>4 DEF SeededRows
<1>2. owner \in [Keys -> UserIds \cup {Nobody}]
  <2> DEFINE known(k) == \E y \in Yamls : \E u \in DOMAIN y : y[u].key = k
             whose(k) == CHOOSE u \in UserIds : \E y \in Yamls : u \in DOMAIN y /\ y[u].key = k
  <2>1. ASSUME NEW k \in Keys, known(k) PROVE whose(k) \in UserIds
    <3>1. \E u \in UserIds : \E y \in Yamls : u \in DOMAIN y /\ y[u].key = k
      BY <2>1, UsersAssumption DEF Section
    <3> QED
      BY <3>1
  <2>2. owner = [k \in Keys |-> IF known(k) THEN whose(k) ELSE Nobody]
    BY DEF UsersInit
  <2> HIDE DEF known, whose
  <2> QED
    BY <2>1, <2>2
<1>3. config \in Yamls /\ editing \in [Admins -> Edit \cup {NoEdit}]
      /\ edits \in 0..MaxEdits /\ restarts \in 0..MaxRestarts
  <2>1. config \in Yamls /\ editing = [a \in Admins |-> NoEdit] /\ edits = 0 /\ restarts = 0
    BY DEF UsersInit
  <2> QED
    BY <2>1, UsersAssumption
<1> QED
  BY <1>1, <1>2, <1>3 DEF UsersTypeOK

-----------------------------------------------------------------------------
(* Requests and their buckets.                                             *)

\* A request that has not arrived.
LEMMA IdleTyped == Idle \in Request /\ Placed(Idle)
  BY ConstantsTyped DEF Idle, Request, Placed

\* A step that changes one request, and neither users nor buckets.
LEMMA RequestMoves ==
  ASSUME LimiterInv, UNCHANGED <<usersVars, limiterVars>>, arrivals' \in 0..MaxArrivals,
         NEW r \in Clients, NEW q \in Request, Placed(q), req' = [req EXCEPT ![r] = q]
  PROVE  LimiterInv'
<1>1. TypeOK'
  BY DEF LimiterInv, TypeOK, UsersTypeOK, usersVars, limiterVars
<1>2. \A u \in UserIds : Account(u)'
  BY DEF LimiterInv, Account, limiterVars
<1>3. \A c \in Clients : req'[c] = IF c = r THEN q ELSE req[c]
  BY DEF LimiterInv, TypeOK
<1>4. \A x : Placed(x) => Placed(x)'
  BY DEF Placed, limiterVars
<1>5. \A c \in Clients : Placed(req[c])'
  BY <1>3, <1>4 DEF LimiterInv
<1> QED
  BY <1>1, <1>2, <1>5 DEF LimiterInv

\* A request whose key is resolved has a user.
LEMMA AuthenticateKeeps ==
  ASSUME LimiterInv, NEW r \in Clients, NEW k \in Keys, Authenticate(r, k)
  PROVE  LimiterInv'
<1>1. PICK u \in LookupAPIKey(k) :
        req' = [req EXCEPT ![r] = [Idle EXCEPT !.pc = "resolve", !.key = k, !.user = u]]
  BY DEF Authenticate
<1>2. u \in UserIds
  <2>1. DOMAIN config \subseteq UserIds
    BY UsersAssumption DEF LimiterInv, TypeOK, UsersTypeOK, Section
  <2> QED
    BY <1>1, <2>1 DEF LookupAPIKey, StoredAs, ConfiguredAs
<1> DEFINE q == [Idle EXCEPT !.pc = "resolve", !.key = k, !.user = u]
<1>3. q \in Request /\ Placed(q)
  BY <1>2, ConstantsTyped DEF Idle, Request, Placed
<1>4. arrivals' \in 0..MaxArrivals
  BY AccessAssumption DEF Authenticate, LimiterInv, TypeOK
<1> HIDE DEF q
<1> QED
  BY <1>1, <1>3, <1>4, RequestMoves DEF Authenticate, q

\* The steps that only a request's own variables remember.
LEMMA ResolveKeeps ==
  ASSUME LimiterInv, NEW r \in Clients, ResolveSettings(r)
  PROVE  LimiterInv'
<1>1. /\ req \in [Clients -> Request] /\ req[r] \in Request /\ Placed(req[r])
      /\ UsersTypeOK /\ arrivals \in 0..MaxArrivals
  BY DEF LimiterInv, TypeOK
<1>2. req[r].user \in UserIds /\ req[r].pc = "resolve"
  BY <1>1 DEF ResolveSettings, Placed
<1>3. PICK uc \in {GetUserConfig(req[r].user), NoUser} :
        req' = [req EXCEPT ![r].pc = "load", ![r].limit = EffectiveLimit(req[r].user, uc)]
  BY DEF ResolveSettings
<1>4. EffectiveLimit(req[r].user, uc) \in Limit
  BY <1>1, <1>2, <1>3, LimitTyped, SettingsTyped
<1> DEFINE l == EffectiveLimit(req[r].user, uc)
           q == [req[r] EXCEPT !.pc = "load", !.limit = l]
<1>5. req' = [req EXCEPT ![r] = q]
  BY <1>1, <1>3
<1> HIDE DEF l
<1>6. q \in Request /\ Placed(q)
  BY <1>1, <1>2, <1>4 DEF Request, Placed, l
<1> HIDE DEF q
<1> QED
  BY <1>1, <1>5, <1>6, RequestMoves DEF ResolveSettings

\* A miss makes a full bucket.
LEMMA LoadKeeps ==
  ASSUME LimiterInv, NEW r \in Clients, LoadBucket(r)
  PROVE  LimiterInv'
<1>1. /\ req \in [Clients -> Request] /\ req[r] \in Request /\ Placed(req[r])
      /\ now \in Nat /\ arrivals \in 0..MaxArrivals
  BY DEF LimiterInv, TypeOK
<1>2. req[r].user \in UserIds /\ req[r].key \in Keys /\ req[r].pc = "load" /\ req[r].limit \in Limit
  BY <1>1 DEF LoadBucket, Placed, Request
<1>3. CASE bucket[req[r].user] # NoBucket
  <2> DEFINE q == [req[r] EXCEPT !.pc = "take", !.limit = DefaultLimit]
  <2>1. req' = [req EXCEPT ![r] = q]
    BY <1>1, <1>3 DEF LoadBucket
  <2>2. q \in Request /\ Placed(q)
    BY <1>1, <1>2, <1>3, ConstantsTyped DEF Request, Placed
  <2> HIDE DEF q
  <2> QED
    BY <1>1, <2>1, <2>2, RequestMoves DEF LoadBucket
<1>4. CASE bucket[req[r].user] = NoBucket
  <2> DEFINE b == NewTokenBucket(req[r].limit, now)
             q == [req[r] EXCEPT !.pc = "store", !.fresh = b, !.limit = DefaultLimit]
  <2>1. req' = [req EXCEPT ![r] = q]
    BY <1>1, <1>4 DEF LoadBucket
  <2>2. b \in Bucket /\ b.tokens = b.capacity /\ b.last = now /\ now <= now
    BY <1>1, <1>2, NewBucket
  <2> HIDE DEF b
  <2>3. q \in Request /\ Placed(q)
    BY <1>1, <1>2, <2>2, ConstantsTyped DEF Request, Placed
  <2> HIDE DEF q
  <2> QED
    BY <1>1, <2>1, <2>3, RequestMoves DEF LoadBucket
<1> QED
  BY <1>3, <1>4

\* A refusal is told a number of seconds.
LEMMA RefuseKeeps ==
  ASSUME LimiterInv, NEW r \in Clients, Refuse(r)
  PROVE  LimiterInv'
<1>1. /\ req \in [Clients -> Request] /\ req[r] \in Request /\ Placed(req[r])
      /\ now \in Nat /\ arrivals \in 0..MaxArrivals
      /\ bucket \in [UserIds -> Bucket \cup {NoBucket}] /\ admitted \in [UserIds -> Nat]
  BY DEF LimiterInv, TypeOK
<1>2. /\ req[r].user \in UserIds /\ req[r].key \in Keys /\ req[r].pc = "refuse"
      /\ bucket[req[r].user] \in Bucket
  BY <1>1 DEF Refuse, Placed
<1> DEFINE w == RetryAfterSeconds(bucket[req[r].user])
           q == [req[r] EXCEPT !.pc = "refused", !.at = now, !.wait = w,
                               !.seen = admitted[req[r].user]]
<1>3. req' = [req EXCEPT ![r] = q]
  BY <1>1 DEF Refuse
<1>4. w \in Nat /\ admitted[req[r].user] \in Nat
  BY <1>1, <1>2, WaitNat
<1> HIDE DEF w
<1>5. q \in Request /\ Placed(q)
  BY <1>1, <1>2, <1>4 DEF Request, Placed
<1> HIDE DEF q
<1> QED
  BY <1>1, <1>3, <1>5, RequestMoves DEF Refuse

\* An answered request leaves.
LEMMA FinishKeeps ==
  ASSUME LimiterInv, NEW r \in Clients, Finish(r)
  PROVE  LimiterInv'
  BY IdleTyped, RequestMoves DEF Finish, LimiterInv, TypeOK

\* A fresh bucket opens its account, or finds one open.
LEMMA StoreKeeps ==
  ASSUME LimiterInv, NEW r \in Clients, StoreBucket(r)
  PROVE  LimiterInv'
<1> DEFINE u == req[r].user
           b == req[r].fresh
           q == [req[r] EXCEPT !.pc = "take", !.fresh = NoBucket]
<1>1. /\ req \in [Clients -> Request] /\ req[r] \in Request /\ Placed(req[r])
      /\ now \in Nat /\ bucket \in [UserIds -> Bucket \cup {NoBucket}]
      /\ first \in [UserIds -> Nat \cup {NoTime}] /\ admitted \in [UserIds -> Nat]
  BY DEF LimiterInv, TypeOK
<1>2. /\ u \in UserIds /\ req[r].key \in Keys /\ req[r].pc = "store"
      /\ b \in Bucket /\ b # NoBucket /\ b.last <= now /\ b.tokens = b.capacity
  BY <1>1 DEF StoreBucket, Placed, Request
<1>3. /\ bucket' = [bucket EXCEPT ![u] = LoadedOrStored(bucket[u], b)]
      /\ first' = [first EXCEPT ![u] = IF first[u] = NoTime THEN b.last ELSE first[u]]
      /\ req' = [req EXCEPT ![r] = q]
      /\ UNCHANGED <<usersVars, now, admitted, arrivals>>
  BY <1>1, <1>2 DEF StoreBucket
<1>4. Account(u)
  BY <1>2 DEF LimiterInv
<1>5. q \in Request /\ q.fresh = NoBucket /\ q.pc = "take" /\ q.user = u /\ q.key = req[r].key
  BY <1>1, <1>2 DEF Request
<1>6. b.last \in Nat /\ b.capacity \in Nat /\ b.rate \in Nat
  BY <1>2 DEF Bucket
<1> HIDE DEF u, b, q
<1>7. LoadedOrStored(bucket[u], b) \in Bucket /\ LoadedOrStored(bucket[u], b) # NoBucket
  BY <1>1, <1>2 DEF LoadedOrStored
<1>8. TypeOK'
  <2>1. UsersTypeOK' /\ now' \in 0..MaxTime /\ arrivals' \in 0..MaxArrivals /\ admitted' \in [UserIds -> Nat]
    BY <1>3 DEF LimiterInv, TypeOK, UsersTypeOK, usersVars
  <2>2. bucket' \in [UserIds -> Bucket \cup {NoBucket}]
    BY <1>1, <1>3, <1>7
  <2>3. first' \in [UserIds -> Nat \cup {NoTime}]
    BY <1>1, <1>3, <1>6
  <2>4. req' \in [Clients -> Request]
    BY <1>1, <1>3, <1>5
  <2> QED
    BY <2>1, <2>2, <2>3, <2>4 DEF TypeOK
<1>9. ASSUME NEW v \in UserIds PROVE Account(v)'
  <2>1. CASE v # u
    <3>1. bucket'[v] = bucket[v] /\ first'[v] = first[v] /\ admitted'[v] = admitted[v] /\ now' = now
      BY <1>1, <1>3, <2>1
    <3> QED
      BY <3>1 DEF LimiterInv, Account
  <2>2. CASE v = u /\ bucket[u] # NoBucket
    <3>1. bucket'[v] = bucket[v] /\ first'[v] = first[v] /\ admitted'[v] = admitted[v] /\ now' = now
      BY <1>1, <1>2, <1>3, <1>4, <2>2, ConstantsTyped DEF LoadedOrStored, Account
    <3> QED
      BY <3>1 DEF LimiterInv, Account
  <2>3. CASE v = u /\ bucket[u] = NoBucket
    <3>1. admitted[u] = 0 /\ first[u] = NoTime
      BY <1>4, <2>3 DEF Account
    <3>2. bucket'[v] = b /\ first'[v] = b.last /\ admitted'[v] = 0 /\ now' = now
      BY <1>1, <1>2, <1>3, <2>3, <3>1 DEF LoadedOrStored
    <3>3. 0 * Unit = 0 /\ (b.last - b.last) * b.rate = 0
      BY <1>6, UnitAssumption
    <3> QED
      BY <1>2, <1>6, <3>2, <3>3 DEF Account
  <2> QED
    BY <2>1, <2>2, <2>3
<1>10. ASSUME NEW c \in Clients PROVE Placed(req[c])'
  <2>1. req'[c] = IF c = r THEN q ELSE req[c]
    BY <1>1, <1>3
  <2>2. \A v : v \in UserIds /\ bucket[v] # NoBucket => bucket'[v] # NoBucket
    BY <1>1, <1>3, <1>7
  <2>3. bucket'[u] # NoBucket
    BY <1>1, <1>2, <1>3, <1>7
  <2>4. CASE c = r
    BY <1>2, <1>5, <2>1, <2>3, <2>4 DEF Placed
  <2>5. CASE c # r
    <3>1. Placed(req[c])
      BY DEF LimiterInv
    <3> QED
      BY <1>3, <2>1, <2>2, <2>5, <3>1 DEF Placed
  <2> QED
    BY <2>4, <2>5
<1> QED
  BY <1>8, <1>9, <1>10 DEF LimiterInv

\* Taking a token books it in the account, and a refill books what the rate has
\* yielded since the last one.
LEMMA TakeAccount ==
  ASSUME NEW n \in Nat, NEW b \in Bucket, NEW t \in Nat, NEW f \in Nat,
         f <= b.last, b.last <= t,
         n * Unit + b.tokens <= b.capacity + (b.last - f) * b.rate
  PROVE  (IF HasToken(b, t) THEN n + 1 ELSE n) * Unit + AfterTake(b, t).tokens
           <= b.capacity + (t - f) * b.rate
<1> DEFINE c == Refilled(b, t)
           d == AfterTake(b, t)
           old == (b.last - f) * b.rate
           new == (t - b.last) * b.rate
           all == (t - f) * b.rate
           N == n * Unit
           T == (IF HasToken(b, t) THEN n + 1 ELSE n) * Unit
<1>1. b.last \in Nat /\ b.rate \in Nat /\ b.tokens \in Nat /\ b.capacity \in Nat
  BY DEF Bucket
<1>2. all = old + new
  BY <1>1, SpanSplit
<1>3. old \in Nat /\ new \in Nat /\ N \in Nat
  <2>1. b.last - f \in Nat /\ t - b.last \in Nat
    BY <1>1
  <2> QED
    BY <1>1, <2>1, ProductNat, UnitAssumption
<1>4. c.tokens \in Nat /\ c.tokens <= b.tokens + new
  BY Refill DEF Bucket
<1>5. d.tokens \in Nat
  BY Take DEF Bucket
<1>6. (n + 1) * Unit = N + Unit
  BY UnitAssumption
<1>7. T + d.tokens = N + c.tokens
  <2>1. CASE HasToken(b, t)
    <3>1. T = N + Unit /\ c.tokens = d.tokens + Unit
      BY <1>6, <2>1, Take
    <3> HIDE DEF c, d, T, N
    <3> QED
      BY <1>3, <1>5, <3>1, UnitAssumption
  <2>2. CASE ~HasToken(b, t)
    <3>1. T = N /\ c.tokens = d.tokens
      BY <2>2, Take
    <3> QED
      BY <3>1
  <2> QED
    BY <2>1, <2>2
<1>8. N + b.tokens <= b.capacity + old
  OBVIOUS
<1> HIDE DEF c, d, old, new, all, N, T
<1>9. T + d.tokens <= b.capacity + all
  BY <1>1, <1>2, <1>3, <1>4, <1>7, <1>8
<1> QED
  BY <1>9 DEF T, d, all

\* Take, under the bucket's lock.
LEMMA TakeKeeps ==
  ASSUME LimiterInv, NEW r \in Clients, TakeToken(r)
  PROVE  LimiterInv'
<1> DEFINE u == req[r].user
           b == bucket[u]
           got == HasToken(b, now)
           n == IF got THEN admitted[u] + 1 ELSE admitted[u]
           q == IF got THEN Idle ELSE [req[r] EXCEPT !.pc = "refuse"]
<1>1. /\ req \in [Clients -> Request] /\ req[r] \in Request /\ Placed(req[r])
      /\ now \in Nat /\ bucket \in [UserIds -> Bucket \cup {NoBucket}]
      /\ first \in [UserIds -> Nat \cup {NoTime}] /\ admitted \in [UserIds -> Nat]
  BY DEF LimiterInv, TypeOK
<1>2. u \in UserIds /\ req[r].key \in Keys /\ req[r].pc = "take" /\ b \in Bucket /\ b # NoBucket
  BY <1>1 DEF TakeToken, Placed
<1>3. /\ bucket' = [bucket EXCEPT ![u] = AfterTake(b, now)]
      /\ admitted' = [admitted EXCEPT ![u] = n]
      /\ req' = [req EXCEPT ![r] = q]
      /\ UNCHANGED <<usersVars, now, first, arrivals>>
  BY <1>1, <1>2 DEF TakeToken
<1>4. Account(u) /\ first[u] \in Nat /\ first[u] <= b.last /\ b.last <= now
      /\ admitted[u] * Unit + b.tokens <= b.capacity + (b.last - first[u]) * b.rate
  BY <1>2 DEF LimiterInv, Account
<1>5. /\ AfterTake(b, now) \in Bucket /\ AfterTake(b, now) # NoBucket
      /\ AfterTake(b, now).last = now /\ AfterTake(b, now).capacity = b.capacity
      /\ AfterTake(b, now).rate = b.rate
  BY <1>1, <1>2, <1>4, Take, ConstantsTyped
<1>6. admitted[u] \in Nat /\ n \in Nat
  BY <1>1, <1>2
<1>7. n * Unit + AfterTake(b, now).tokens
        <= b.capacity + (now - first[u]) * b.rate
  BY <1>1, <1>2, <1>4, <1>6, TakeAccount
<1>8. q \in Request /\ (q = Idle \/ (q.pc = "refuse" /\ q.user = u /\ q.key = req[r].key /\ q.fresh = req[r].fresh))
  BY <1>1, <1>2, IdleTyped DEF Request
<1> HIDE DEF u, b, got, n, q
<1>9. TypeOK'
  <2>1. UsersTypeOK' /\ now' \in 0..MaxTime /\ arrivals' \in 0..MaxArrivals
        /\ first' \in [UserIds -> Nat \cup {NoTime}]
    BY <1>3 DEF LimiterInv, TypeOK, UsersTypeOK, usersVars
  <2>2. bucket' \in [UserIds -> Bucket \cup {NoBucket}]
    BY <1>1, <1>3, <1>5
  <2>3. admitted' \in [UserIds -> Nat]
    BY <1>1, <1>3, <1>6
  <2>4. req' \in [Clients -> Request]
    BY <1>1, <1>3, <1>8
  <2> QED
    BY <2>1, <2>2, <2>3, <2>4 DEF TypeOK
<1>10. ASSUME NEW v \in UserIds PROVE Account(v)'
  <2>1. CASE v # u
    <3>1. bucket'[v] = bucket[v] /\ first'[v] = first[v] /\ admitted'[v] = admitted[v] /\ now' = now
      BY <1>1, <1>3, <2>1
    <3> QED
      BY <3>1 DEF LimiterInv, Account
  <2>2. CASE v = u
    <3>1. /\ bucket'[v] = AfterTake(b, now) /\ first'[v] = first[u] /\ now' = now /\ admitted'[v] = n
      BY <1>1, <1>2, <1>3, <2>2
    <3>2. first[u] <= now
      BY <1>1, <1>2, <1>4 DEF Bucket
    <3>3. now <= now
      BY <1>1
    <3> QED
      BY <1>4, <1>5, <1>7, <3>1, <3>2, <3>3 DEF Account
  <2> QED
    BY <2>1, <2>2
<1>11. ASSUME NEW c \in Clients PROVE Placed(req[c])'
  <2>1. req'[c] = IF c = r THEN q ELSE req[c]
    BY <1>1, <1>3
  <2>2. \A v : v \in UserIds /\ bucket[v] # NoBucket => bucket'[v] # NoBucket
    BY <1>1, <1>3, <1>5
  <2>3. bucket'[u] # NoBucket
    BY <1>1, <1>2, <1>3, <1>5
  <2>4. CASE c = r
    BY <1>1, <1>2, <1>3, <1>8, <2>1, <2>3, <2>4 DEF Placed, Idle
  <2>5. CASE c # r
    <3>1. Placed(req[c])
      BY DEF LimiterInv
    <3> QED
      BY <1>3, <2>1, <2>2, <2>5, <3>1 DEF Placed
  <2> QED
    BY <2>4, <2>5
<1> QED
  BY <1>9, <1>10, <1>11 DEF LimiterInv

\* Time passes.
LEMMA TickKeeps ==
  ASSUME LimiterInv, Tick
  PROVE  LimiterInv'
<1>1. now \in Nat /\ now' = now + 1 /\ now' \in 0..MaxTime
      /\ UNCHANGED <<usersVars, bucket, first, admitted, req, arrivals>>
  BY UnitAssumption DEF LimiterInv, TypeOK, Tick
<1>2. TypeOK'
  BY <1>1 DEF LimiterInv, TypeOK, UsersTypeOK, usersVars
<1>3. ASSUME NEW u \in UserIds PROVE Account(u)'
  <2>1. bucket[u] # NoBucket => bucket[u].last \in Nat
    BY DEF LimiterInv, TypeOK, Bucket
  <2>2. Account(u)
    BY DEF LimiterInv
  <2> QED
    BY <1>1, <2>1, <2>2 DEF Account
<1>4. ASSUME NEW c \in Clients PROVE Placed(req[c])'
  <2>1. req[c].fresh # NoBucket => req[c].fresh.last \in Nat
    BY DEF LimiterInv, TypeOK, Request, Bucket
  <2>2. Placed(req[c])
    BY DEF LimiterInv
  <2> QED
    BY <1>1, <2>1, <2>2 DEF Placed
<1> QED
  BY <1>2, <1>3, <1>4 DEF LimiterInv

\* A limiter without buckets and requests, which every process starts with.
LEMMA FreshKeeps ==
  ASSUME UsersTypeOK, FreshLimiter, now = 0, arrivals \in 0..MaxArrivals
  PROVE  LimiterInv
<1>1. TypeOK
  BY IdleTyped, UnitAssumption DEF FreshLimiter, TypeOK
<1>2. \A u \in UserIds : Account(u)
  BY DEF FreshLimiter, Account
<1>3. \A r \in Clients : Placed(req[r])
  BY IdleTyped DEF FreshLimiter
<1> QED
  BY <1>1, <1>2, <1>3 DEF LimiterInv

-----------------------------------------------------------------------------
(* The theorems about the limiter.                                         *)

\* Every step keeps the invariant of the limiter.
LEMMA LimiterStep == LimiterInv /\ [Next]_vars => LimiterInv'
<1> SUFFICES ASSUME LimiterInv, [Next]_vars PROVE LimiterInv'
  OBVIOUS
<1>1. ASSUME NEW r \in Clients, ClientStep(r) PROVE LimiterInv'
  BY <1>1, AuthenticateKeeps, ResolveKeeps, LoadKeeps, StoreKeeps, TakeKeeps, RefuseKeeps,
     FinishKeeps DEF ClientStep
<1>2. CASE Administer
  <2>1. UsersTypeOK'
    BY <1>2, UserActionTyped DEF Administer, LimiterInv, TypeOK
  <2>2. TypeOK'
    BY <1>2, <2>1 DEF Administer, limiterVars, LimiterInv, TypeOK
  <2>3. \A u \in UserIds : Account(u)'
    BY <1>2 DEF Administer, limiterVars, LimiterInv, Account
  <2>4. \A r \in Clients : Placed(req[r])'
    BY <1>2 DEF Administer, limiterVars, LimiterInv, Placed
  <2> QED
    BY <2>2, <2>3, <2>4 DEF LimiterInv
<1>3. CASE Restart
  <2>1. UsersTypeOK' /\ now' = 0 /\ (arrivals \in 0..MaxArrivals)' /\ FreshLimiter'
    BY <1>3, RestartTyped DEF Restart, FreshLimiter, LimiterInv, TypeOK
  <2>2. TypeOK'
    BY <2>1, IdleTyped, UnitAssumption DEF FreshLimiter, TypeOK
  <2>3. \A u \in UserIds : Account(u)'
    BY <2>1 DEF FreshLimiter, Account
  <2>4. \A r \in Clients : Placed(req[r])'
    BY <2>1 DEF FreshLimiter, Placed, Idle
  <2> QED
    BY <2>2, <2>3, <2>4 DEF LimiterInv
<1>4. CASE Tick
  BY <1>4, TickKeeps
<1>5. CASE UNCHANGED vars
  <2>1. TypeOK'
    BY <1>5 DEF vars, usersVars, limiterVars, LimiterInv, TypeOK, UsersTypeOK
  <2>2. \A u \in UserIds : Account(u)'
    BY <1>5 DEF vars, limiterVars, LimiterInv, Account
  <2>3. \A r \in Clients : Placed(req[r])'
    BY <1>5 DEF vars, limiterVars, LimiterInv, Placed
  <2> QED
    BY <2>1, <2>2, <2>3 DEF LimiterInv
<1> QED
  BY <1>1, <1>2, <1>3, <1>4, <1>5 DEF Next

\* The account of every bucket is right in every reachable state.
THEOREM AccountsHold == Spec => []LimiterInv
<1>1. Init => LimiterInv
  BY UsersInitTyped, FreshKeeps, AccessAssumption DEF Init
<1> QED
  BY <1>1, LimiterStep, PTL DEF Spec

\* The types hold, of the table, the file, the buckets and every request.
THEOREM TypesHold == Spec => []TypeOK
<1>1. LimiterInv => TypeOK
  BY DEF LimiterInv
<1> QED
  BY <1>1, AccountsHold, PTL

\* No user is given more tokens than his burst and his rate allow.
THEOREM BudgetHolds == Spec => []WithinBudget
<1>1. LimiterInv => WithinBudget
  <2> SUFFICES ASSUME LimiterInv, NEW u \in UserIds, bucket[u] # NoBucket
               PROVE  admitted[u] * Unit
                        <= bucket[u].capacity + (now - first[u]) * bucket[u].rate
    BY DEF WithinBudget
  <2> DEFINE b == bucket[u]
             taken == admitted[u] * Unit
             old == (b.last - first[u]) * b.rate
             new == (now - b.last) * b.rate
             all == (now - first[u]) * b.rate
  <2>1. /\ b \in Bucket /\ admitted[u] \in Nat /\ now \in Nat
        /\ first[u] \in Nat /\ first[u] <= b.last /\ b.last <= now
        /\ taken + b.tokens <= b.capacity + old
    BY DEF LimiterInv, TypeOK, Account
  <2>2. b.last \in Nat /\ b.rate \in Nat /\ b.tokens \in Nat /\ b.capacity \in Nat
    BY <2>1 DEF Bucket
  <2>3. all = old + new
    BY <2>1, <2>2, SpanSplit
  <2>4. taken \in Nat /\ old \in Nat /\ new \in Nat
    <3>1. b.last - first[u] \in Nat /\ now - b.last \in Nat
      BY <2>1, <2>2
    <3> QED
      BY <2>1, <2>2, <3>1, ProductNat, UnitAssumption
  <2> HIDE DEF b, taken, old, new, all
  <2>5. taken <= b.capacity + all
    BY <2>1, <2>2, <2>3, <2>4
  <2> QED
    BY <2>5 DEF taken, all, b
<1> QED
  BY <1>1, AccountsHold, PTL

-----------------------------------------------------------------------------
(* The wait a refusal is told.                                             *)

\* A bucket has a token at time t if it is large enough and what it held, with
\* what the rate has yielded since, makes one up.
LEMMA TokenAt ==
  ASSUME NEW b \in Bucket, NEW t \in Nat, b.last <= t, b.capacity >= Unit
  PROVE  HasToken(b, t) <=> b.tokens + (t - b.last) * b.rate >= Unit
<1>1. /\ b.capacity \in Nat /\ b.tokens \in Nat /\ b.rate \in Nat /\ b.last \in Nat
      /\ b = [capacity |-> b.capacity, tokens |-> b.tokens, rate |-> b.rate, last |-> b.last]
  BY DEF Bucket
<1> DEFINE n == b.tokens + (t - b.last) * b.rate
           m == Least(b.capacity, n)
<1>2. Refilled(b, t).tokens = m
  <2>1. Refilled(b, t) = [b EXCEPT !.tokens = m, !.last = t]
    BY DEF Refilled
  <2> HIDE DEF m
  <2> QED
    BY <1>1, <2>1
<1>3. n \in Nat
  <2>1. t - b.last \in Nat
    BY <1>1
  <2> QED
    BY <1>1, <2>1, ProductNat
<1>4. m >= Unit <=> n >= Unit
  <2> HIDE DEF n
  <2> QED
    BY <1>1, <1>3, UnitAssumption DEF m, Least
<1> QED
  BY <1>2, <1>4 DEF HasToken, n

\* A quotient that is rounded up is no less than the exact one.
LEMMA RoundedUp ==
  ASSUME NEW a \in Nat, NEW b \in Nat, b > 0
  PROVE  ((a + b - 1) \div b) * b >= a
  OBVIOUS

\* A longer span yields no less.
LEMMA YieldGrows ==
  ASSUME NEW x \in Nat, NEW y \in Nat, NEW r \in Nat, x <= y
  PROVE  x * r <= y * r
  OBVIOUS

\* Whoever waits for as long as RetryAfterSeconds says, from any moment after the
\* last refill, finds a token.
LEMMA WaitSuffices ==
  ASSUME NEW b \in Bucket, b.rate > 0, b.capacity >= Unit,
         NEW t \in Nat, b.last + RetryAfterSeconds(b) <= t
  PROVE  HasToken(b, t)
<1> DEFINE w == RetryAfterSeconds(b)
<1>1. b.tokens \in Nat /\ b.rate \in Nat /\ b.last \in Nat /\ w \in Nat
  BY WaitNat DEF Bucket
<1>2. b.last <= t /\ t - b.last \in Nat /\ w <= t - b.last
  <2> HIDE DEF w
  <2> QED
    BY <1>1 DEF w
<1>3. w * b.rate <= (t - b.last) * b.rate /\ w * b.rate \in Nat /\ (t - b.last) * b.rate \in Nat
  BY <1>1, <1>2, YieldGrows, ProductNat
<1>4. b.tokens + w * b.rate >= Unit
  <2>1. CASE b.tokens >= Unit
    BY <1>1, <1>3, <2>1, UnitAssumption
  <2>2. CASE ~(b.tokens >= Unit)
    <3>1. Unit - b.tokens \in Nat /\ w = ((Unit - b.tokens) + b.rate - 1) \div b.rate
      BY <1>1, <2>2, UnitAssumption DEF RetryAfterSeconds
    <3>2. w * b.rate >= Unit - b.tokens
      BY <1>1, <3>1, RoundedUp
    <3> HIDE DEF w
    <3> QED
      BY <1>1, <1>3, <3>2, UnitAssumption
  <2> QED
    BY <2>1, <2>2
<1>5. b.tokens + (t - b.last) * b.rate >= Unit
  <2> DEFINE y == (t - b.last) * b.rate
             z == w * b.rate
  <2> HIDE DEF w, y, z
  <2> QED
    BY <1>1, <1>3, <1>4, UnitAssumption DEF y, z
<1> QED
  BY <1>2, <1>5, TokenAt

\* A refill in between loses nothing: the token is there at the same moment.
LEMMA RefillKeepsToken ==
  ASSUME NEW b \in Bucket, b.capacity >= Unit,
         NEW s \in Nat, b.last <= s, NEW t \in Nat, s <= t, HasToken(b, t)
  PROVE  HasToken(Refilled(b, s), t)
<1> DEFINE c == Refilled(b, s)
           old == (s - b.last) * b.rate
           new == (t - s) * b.rate
           all == (t - b.last) * b.rate
<1>1. /\ b.tokens \in Nat /\ b.rate \in Nat /\ b.last \in Nat /\ b.capacity \in Nat
      /\ c \in Bucket /\ c.last = s /\ c.capacity = b.capacity /\ c.rate = b.rate
  BY Refill DEF Bucket
<1>2. all = old + new /\ old \in Nat /\ new \in Nat
  <2>1. s - b.last \in Nat /\ t - s \in Nat
    BY <1>1
  <2> QED
    BY <1>1, <2>1, SpanSplit, ProductNat
<1>3. b.tokens + all >= Unit
  BY <1>1, TokenAt
<1>4. c.tokens = Least(b.capacity, b.tokens + old)
  BY <1>1 DEF Refilled, Bucket
<1>5. c.tokens + new >= Unit
  <2> HIDE DEF c, old, new, all
  <2> QED
    BY <1>1, <1>2, <1>3, <1>4, UnitAssumption DEF Least
<1>6. HasToken(c, t) <=> c.tokens + (t - c.last) * c.rate >= Unit
  <2> HIDE DEF c
  <2> QED
    BY <1>1, TokenAt
<1> QED
  BY <1>1, <1>5, <1>6

\* What a refused request was told still holds: its user has been given another
\* token since, or its bucket will have one from the promised moment on.
Promised(q) ==
  q.pc = "refused" =>
    LET b == bucket[q.user]
    IN  /\ q.at <= now /\ q.seen <= admitted[q.user]
        /\ q.seen = admitted[q.user] /\ b.rate > 0 /\ b.capacity >= Unit =>
             \A t \in Nat : now <= t /\ q.at + q.wait <= t => HasToken(b, t)

PromiseInv == \A r \in Clients : Promised(req[r])

\* A promise outlives a step that refills the bucket at most, and one that takes
\* a token out of it no longer matters.
LEMMA PromiseSurvives ==
  ASSUME LimiterInv, NEW q \in Request, Placed(q), Promised(q), now' \in Nat, now <= now',
         \/ admitted'[q.user] = admitted[q.user] + 1
         \/ /\ admitted'[q.user] = admitted[q.user]
            /\ bucket'[q.user] = bucket[q.user] \/ bucket'[q.user] = Refilled(bucket[q.user], now)
  PROVE  Promised(q)'
<1> SUFFICES ASSUME q.pc = "refused" PROVE Promised(q)'
  BY DEF Promised
<1> DEFINE u == q.user
<1>1. /\ u \in UserIds /\ bucket[u] \in Bucket /\ bucket[u].last <= now /\ now \in Nat
      /\ q.at \in Nat /\ q.wait \in Nat /\ q.seen \in Nat /\ admitted[u] \in Nat
  BY DEF LimiterInv, TypeOK, Placed, Account, Request
<1>2. /\ q.at <= now /\ q.seen <= admitted[u]
      /\ q.seen = admitted[u] /\ bucket[u].rate > 0 /\ bucket[u].capacity >= Unit =>
           \A t \in Nat : now <= t /\ q.at + q.wait <= t => HasToken(bucket[u], t)
  BY DEF Promised
<1> HIDE DEF u
<1>3. CASE admitted'[u] = admitted[u] + 1
  <2>1. q.at <= now' /\ q.seen <= admitted'[u] /\ q.seen # admitted'[u]
    BY <1>1, <1>2, <1>3
  <2> QED
    BY <2>1 DEF Promised, u
<1>4. CASE admitted'[u] = admitted[u] /\ bucket'[u] = bucket[u]
  <2>1. q.at <= now' /\ q.seen <= admitted'[u]
    BY <1>1, <1>2, <1>4
  <2>2. ASSUME q.seen = admitted[u], bucket[u].rate > 0, bucket[u].capacity >= Unit,
               NEW t \in Nat, now' <= t, q.at + q.wait <= t
        PROVE  HasToken(bucket[u], t)
    <3>1. now <= t
      BY <1>1, <2>2
    <3> QED
      BY <1>2, <2>2, <3>1
  <2> QED
    BY <1>4, <2>1, <2>2 DEF Promised, u
<1>5. CASE admitted'[u] = admitted[u] /\ bucket'[u] = Refilled(bucket[u], now)
  <2> DEFINE b == bucket[u]
             c == bucket'[u]
  <2>1. q.at <= now' /\ q.seen <= admitted'[u]
    BY <1>1, <1>2, <1>5
  <2>2. c.rate = b.rate /\ c.capacity = b.capacity
    BY <1>1, <1>5, Refill
  <2>3. ASSUME q.seen = admitted[u], b.rate > 0, b.capacity >= Unit,
               NEW t \in Nat, now' <= t, q.at + q.wait <= t
        PROVE  HasToken(c, t)
    <3>1. now <= t
      BY <1>1, <2>3
    <3>2. HasToken(b, t)
      BY <1>2, <2>3, <3>1
    <3> QED
      BY <1>1, <1>5, <2>3, <3>1, <3>2, RefillKeepsToken
  <2>4. q.seen = admitted'[u] /\ c.rate > 0 /\ c.capacity >= Unit =>
          \A t \in Nat : now' <= t /\ q.at + q.wait <= t => HasToken(c, t)
    BY <1>5, <2>2, <2>3
  <2> HIDE DEF b
  <2> QED
    BY <2>1, <2>4 DEF Promised, u
<1> QED
  BY <1>3, <1>4, <1>5 DEF u

\* A request is promised what its bucket is sure to yield, if nobody else draws.
LEMMA RefusePromises ==
  ASSUME LimiterInv, NEW r \in Clients, Refuse(r)
  PROVE  Promised(req[r])'
<1> DEFINE u == req[r].user
           b == bucket[u]
<1>1. /\ req \in [Clients -> Request] /\ req[r] \in Request /\ Placed(req[r])
      /\ now \in Nat /\ bucket \in [UserIds -> Bucket \cup {NoBucket}] /\ admitted \in [UserIds -> Nat]
  BY DEF LimiterInv, TypeOK
<1>2. /\ u \in UserIds /\ b \in Bucket /\ b.last <= now /\ admitted[u] \in Nat /\ b.last \in Nat
  BY <1>1 DEF Refuse, Placed, LimiterInv, Account, Bucket
<1>3. /\ req'[r].pc = "refused" /\ req'[r].user = u /\ req'[r].at = now
      /\ req'[r].wait = RetryAfterSeconds(b) /\ req'[r].seen = admitted[u]
      /\ bucket' = bucket /\ admitted' = admitted /\ now' = now
  BY <1>1 DEF Refuse, limiterVars, Request
<1>4. RetryAfterSeconds(b) \in Nat
  BY <1>2, WaitNat
<1>5. ASSUME b.rate > 0, b.capacity >= Unit, NEW t \in Nat, now + RetryAfterSeconds(b) <= t
      PROVE  HasToken(b, t)
  <2>1. b.last + RetryAfterSeconds(b) <= t
    BY <1>1, <1>2, <1>4, <1>5
  <2> QED
    BY <1>2, <1>5, <2>1, WaitSuffices
<1> QED
  BY <1>1, <1>2, <1>3, <1>5 DEF Promised

\* Storing a bucket leaves one that is in the map as it is.
LEMMA StoreLeavesBuckets ==
  ASSUME LimiterInv, NEW r \in Clients, StoreBucket(r), NEW v \in UserIds, bucket[v] # NoBucket
  PROVE  bucket'[v] = bucket[v] /\ admitted'[v] = admitted[v] /\ now' = now
<1>1. bucket \in [UserIds -> Bucket \cup {NoBucket}]
  BY DEF LimiterInv, TypeOK
<1> QED
  BY <1>1 DEF StoreBucket, LoadedOrStored

\* Taking from a bucket gives a token or only refills.
LEMMA TakeDrawsOrRefills ==
  ASSUME LimiterInv, NEW r \in Clients, TakeToken(r), NEW v \in UserIds
  PROVE  /\ now' = now
         /\ \/ admitted'[v] = admitted[v] + 1
            \/ /\ admitted'[v] = admitted[v]
               /\ bucket'[v] = bucket[v] \/ bucket'[v] = Refilled(bucket[v], now)
<1>1. bucket \in [UserIds -> Bucket \cup {NoBucket}] /\ admitted \in [UserIds -> Nat]
  BY DEF LimiterInv, TypeOK
<1>2. CASE v # req[r].user
  BY <1>1, <1>2 DEF TakeToken
<1>3. CASE v = req[r].user /\ HasToken(bucket[v], now)
  BY <1>1, <1>3 DEF TakeToken
<1>4. CASE v = req[r].user /\ ~HasToken(bucket[v], now)
  BY <1>1, <1>4 DEF TakeToken, AfterTake
<1> QED
  BY <1>2, <1>3, <1>4 DEF TakeToken

\* What a client's step leaves: the other requests as they were, and a bucket
\* that is in the map as it was, refilled, or one token poorer.
LEMMA ClientStepDraws ==
  ASSUME LimiterInv, NEW r \in Clients, ClientStep(r)
  PROVE  /\ now' = now
         /\ \A c \in Clients : c # r => req'[c] = req[c]
         /\ \A v \in UserIds : bucket[v] # NoBucket =>
              \/ admitted'[v] = admitted[v] + 1
              \/ /\ admitted'[v] = admitted[v]
                 /\ bucket'[v] = bucket[v] \/ bucket'[v] = Refilled(bucket[v], now)
<1>1. req \in [Clients -> Request]
  BY DEF LimiterInv, TypeOK
<1>2. CASE StoreBucket(r)
  BY <1>1, <1>2, StoreLeavesBuckets DEF StoreBucket
<1>3. CASE TakeToken(r)
  BY <1>1, <1>3, TakeDrawsOrRefills DEF TakeToken
<1>4. CASE \/ \E k \in Keys : Authenticate(r, k)
           \/ ResolveSettings(r) \/ LoadBucket(r) \/ Refuse(r) \/ Finish(r)
  <2>1. bucket' = bucket /\ admitted' = admitted /\ now' = now
    BY <1>4 DEF Authenticate, ResolveSettings, LoadBucket, Refuse, Finish, limiterVars
  <2>2. \A c \in Clients : c # r => req'[c] = req[c]
    BY <1>1, <1>4 DEF Authenticate, ResolveSettings, LoadBucket, Refuse, Finish
  <2> QED
    BY <2>1, <2>2
<1> QED
  BY <1>2, <1>3, <1>4 DEF ClientStep

\* Only Refuse makes a refused request.
LEMMA RefusedByRefuse ==
  ASSUME LimiterInv, NEW r \in Clients, ClientStep(r), ~Refuse(r)
  PROVE  req'[r].pc # "refused"
<1>1. req \in [Clients -> Request] /\ req[r] \in Request
  BY DEF LimiterInv, TypeOK
<1>2. Idle.pc = "idle"
  BY DEF Idle
<1>4. CASE \E k \in Keys : Authenticate(r, k)
  BY <1>1, <1>4 DEF Authenticate, Idle
<1>5. CASE ResolveSettings(r) \/ LoadBucket(r) \/ StoreBucket(r)
  BY <1>1, <1>5 DEF ResolveSettings, LoadBucket, StoreBucket, Request
<1>6. CASE TakeToken(r)
  BY <1>1, <1>2, <1>6 DEF TakeToken, Request
<1>7. CASE Finish(r)
  BY <1>1, <1>2, <1>7 DEF Finish
<1> QED
  BY <1>4, <1>5, <1>6, <1>7 DEF ClientStep

\* Every step keeps the promises that were made.
LEMMA PromiseStep == LimiterInv /\ PromiseInv /\ [Next]_vars => PromiseInv'
<1> SUFFICES ASSUME LimiterInv, PromiseInv, [Next]_vars, NEW c \in Clients
             PROVE  Promised(req[c])'
  BY DEF PromiseInv
<1>1. /\ req[c] \in Request /\ Placed(req[c]) /\ Promised(req[c]) /\ now \in Nat
      /\ MaxTime \in Nat /\ now \in 0..MaxTime
  BY UnitAssumption DEF LimiterInv, TypeOK, PromiseInv
<1>2. ASSUME NEW r \in Clients, ClientStep(r), c # r \/ ~Refuse(r)
      PROVE  Promised(req[c])'
  <2>1. CASE c # r /\ req[c].pc = "refused"
    <3>1. req'[c] = req[c] /\ req[c].user \in UserIds /\ bucket[req[c].user] # NoBucket
      BY <1>1, <1>2, <2>1, ClientStepDraws DEF Placed
    <3> DEFINE q == req[c]
    <3>3. /\ now' \in Nat /\ now <= now'
          /\ \/ admitted'[q.user] = admitted[q.user] + 1
             \/ /\ admitted'[q.user] = admitted[q.user]
                /\ bucket'[q.user] = bucket[q.user] \/ bucket'[q.user] = Refilled(bucket[q.user], now)
      BY <1>1, <1>2, <3>1, ClientStepDraws
    <3>4. PICK x \in Request : x = req[c]
      BY <1>1
    <3>5. Promised(x)'
      BY <1>1, <3>3, <3>4, PromiseSurvives
    <3> QED
      BY <3>1, <3>4, <3>5 DEF Promised
  <2>2. CASE c # r /\ req[c].pc # "refused"
    <3>1. req'[c] = req[c]
      BY <1>2, <2>2, ClientStepDraws
    <3> QED
      BY <2>2, <3>1 DEF Promised
  <2>3. CASE c = r
    <3>1. req'[c].pc # "refused"
      BY <1>2, <2>3, RefusedByRefuse
    <3> QED
      BY <3>1 DEF Promised
  <2> QED
    BY <2>1, <2>2, <2>3
<1>3. ASSUME NEW r \in Clients, ClientStep(r), c = r, Refuse(r)
      PROVE  Promised(req[c])'
  BY <1>3, RefusePromises
<1>4. CASE Restart
  <2>1. req'[c].pc = "idle"
    BY <1>4 DEF Restart, Idle
  <2> QED
    BY <2>1 DEF Promised
<1>5. CASE Tick
  <2>1. PICK x \in Request : x = req[c]
    BY <1>1
  <2>2. now' \in Nat /\ now <= now' /\ bucket' = bucket /\ admitted' = admitted /\ req' = req
    BY <1>1, <1>5 DEF Tick
  <2>3. Promised(x)'
    BY <1>1, <2>1, <2>2, PromiseSurvives
  <2> QED
    BY <2>1, <2>2, <2>3 DEF Promised
<1>6. CASE Administer \/ UNCHANGED vars
  <2>1. UNCHANGED <<now, bucket, admitted, req>>
    BY <1>6 DEF Administer, limiterVars, vars
  <2> QED
    BY <1>1, <2>1 DEF Promised
<1> QED
  BY <1>2, <1>3, <1>4, <1>5, <1>6 DEF Next

\* A client that waits for as long as its refusal said finds a token, unless its
\* user has been given one meanwhile, whatever other requests of the same user,
\* the clock and the administrators did in between.
THEOREM WaitIsEnough == Spec => []RetryAfterSuffices
<1>1. Init => PromiseInv
  BY DEF Init, FreshLimiter, Idle, PromiseInv, Promised
<1>2. LimiterInv /\ PromiseInv => RetryAfterSuffices
  <2> SUFFICES ASSUME LimiterInv, PromiseInv, NEW r \in Clients, req[r].pc = "refused",
                      bucket[req[r].user].rate > 0, bucket[req[r].user].capacity >= Unit,
                      admitted[req[r].user] = req[r].seen, now >= req[r].at + req[r].wait
               PROVE  HasToken(bucket[req[r].user], now)
    BY DEF RetryAfterSuffices
  <2>1. now \in Nat /\ req[r].at \in Nat /\ req[r].wait \in Nat /\ Promised(req[r])
    BY DEF LimiterInv, TypeOK, PromiseInv, Request
  <2> QED
    BY <2>1 DEF Promised
<1> QED
  BY <1>1, <1>2, PromiseStep, AccountsHold, PTL DEF Spec

-----------------------------------------------------------------------------
(* Keys and their owners.                                                  *)

\* Wherever a key is kept, it is kept with the user it was issued to.
FilesOwned == \A y \in Yamls : \A u \in DOMAIN y : owner[y[u].key] = u
RowsOwned == \A u \in UserIds : Known(u) => owner[rows[u].key] = u
EditsOwned == \A a \in Admins : editing[a] # NoEdit => owner[editing[a].key] = editing[a].user
OwnerInv == FilesOwned /\ RowsOwned /\ EditsOwned /\ AttributedToOwner

\* Keys of a file are keys, its users are users.
LEMMA FilesTyped ==
  \A y \in Yamls : \A u \in DOMAIN y : u \in UserIds /\ y[u].key \in Keys
  BY UsersAssumption DEF Section, UserConfig

\* Whose settings are looked up owns the key in them.
LEMMA SettingsOwned ==
  ASSUME UsersTypeOK, FilesOwned, RowsOwned, NEW u \in UserIds, GetUserConfig(u) # NoUser
  PROVE  GetUserConfig(u).key \in Keys /\ owner[GetUserConfig(u).key] = u
<1>1. CASE Active(u)
  <2>1. rows[u].key \in Keys /\ owner[rows[u].key] = u
    BY <1>1, SettingsTyped DEF Active, Row, RowsOwned
  <2> QED
    BY <1>1, <2>1 DEF GetUserConfig
<1>2. CASE ~Active(u)
  <2>1. u \in DOMAIN config /\ GetUserConfig(u) = config[u]
    BY <1>2 DEF GetUserConfig
  <2> QED
    BY <2>1, FilesTyped DEF UsersTypeOK, FilesOwned
<1> QED
  BY <1>1, <1>2

\* Issuing a new key takes nobody's key away.
LEMMA IssueKeeps ==
  ASSUME UsersTypeOK, NEW k \in Keys, NEW u \in UserIds, Issue(k, u)
  PROVE  /\ owner'[k] = u
         /\ \A x \in Keys, v \in UserIds : owner[x] = v => owner'[x] = v
  BY UsersAssumption DEF UsersTypeOK, Issue

\* What is kept of files and requests stays right when no key changes owner.
LEMMA OwnersStay ==
  ASSUME TypeOK, LimiterInv, OwnerInv, UNCHANGED req,
         \A x \in Keys, v \in UserIds : owner[x] = v => owner'[x] = v
  PROVE  FilesOwned' /\ AttributedToOwner'
<1>1. FilesOwned'
  BY FilesTyped DEF OwnerInv, FilesOwned
<1>2. ASSUME NEW r \in Clients, req[r].pc # "idle" PROVE owner'[req[r].key] = req[r].user
  <2>1. req[r].key \in Keys /\ req[r].user \in UserIds
    BY <1>2 DEF LimiterInv, Placed
  <2> QED
    BY <1>2, <2>1 DEF OwnerInv, AttributedToOwner
<1> QED
  BY <1>1, <1>2 DEF AttributedToOwner

\* A request of the users page keeps every key with its owner.
LEMMA UserActionOwned ==
  ASSUME LimiterInv, OwnerInv, UserAction, UNCHANGED req
  PROVE  OwnerInv'
<1>0. /\ TypeOK /\ UsersTypeOK /\ FilesOwned /\ RowsOwned /\ EditsOwned
      /\ rows \in [UserIds -> Row \cup {NoRow}] /\ editing \in [Admins -> Edit \cup {NoEdit}]
  BY DEF LimiterInv, TypeOK, UsersTypeOK, OwnerInv
<1>a. \A u \in UserIds : Known(u) => rows[u].key \in Keys
  BY <1>0, SettingsTyped DEF Row
<1>b. \A a \in Admins : editing[a] # NoEdit => editing[a].key \in Keys /\ editing[a].user \in UserIds
  BY <1>0 DEF Edit
<1>1. ASSUME NEW u \in UserIds, NEW k \in Keys, NEW l \in Limits \cup {NoLimit}, CreateUser(u, k, l)
      PROVE  OwnerInv'
  <2>1. owner'[k] = u /\ \A x \in Keys, v \in UserIds : owner[x] = v => owner'[x] = v
    BY <1>0, <1>1, IssueKeeps DEF CreateUser
  <2>2. RowsOwned'
    BY <1>0, <1>1, <1>a, <2>1 DEF CreateUser, RowsOwned, Known
  <2>3. EditsOwned'
    BY <1>0, <1>1, <1>b, <2>1 DEF CreateUser, EditsOwned
  <2> QED
    BY <1>0, <2>1, <2>2, <2>3, OwnersStay DEF OwnerInv
<1>2. ASSUME NEW u \in UserIds, NEW k \in Keys, RotateUserKey(u, k)
      PROVE  OwnerInv'
  <2>1. owner'[k] = u /\ \A x \in Keys, v \in UserIds : owner[x] = v => owner'[x] = v
    BY <1>0, <1>2, IssueKeeps DEF RotateUserKey
  <2>2. ASSUME NEW v \in UserIds, Known(v)' PROVE owner'[rows'[v].key] = v
    <3>1. CASE v = u
      <4>1. rows[u] \in Row
        BY <1>0, <1>2, SettingsTyped DEF RotateUserKey, Active
      <4>2. rows'[u] = [rows[u] EXCEPT !.key = k]
        BY <1>0, <1>2 DEF RotateUserKey
      <4>3. rows'[u].key = k
        BY <4>1, <4>2 DEF Row
      <4> QED
        BY <2>1, <3>1, <4>3
    <3>2. CASE v # u
      BY <1>0, <1>2, <1>a, <2>1, <2>2, <3>2 DEF RotateUserKey, RowsOwned, Known
    <3> QED
      BY <3>1, <3>2
  <2>3. EditsOwned'
    BY <1>0, <1>2, <1>b, <2>1 DEF RotateUserKey, EditsOwned
  <2> QED
    BY <1>0, <1>2, <2>1, <2>2, <2>3, OwnersStay DEF OwnerInv, RowsOwned
<1>3. ASSUME NEW u \in UserIds, DeactivateUser(u)
      PROVE  OwnerInv'
  <2>1. ASSUME NEW v \in UserIds, Known(v)' PROVE owner'[rows'[v].key] = v
    <3>1. Known(v) /\ rows'[v].key = rows[v].key
      <4>1. rows[u] \in Row /\ rows'[u] = [rows[u] EXCEPT !.active = FALSE]
        BY <1>0, <1>3, SettingsTyped DEF DeactivateUser, Active
      <4>2. rows'[u].key = rows[u].key
        BY <4>1 DEF Row
      <4> QED
        BY <1>0, <1>3, <2>1, <4>2 DEF DeactivateUser, Known, Active
    <3> QED
      BY <1>0, <1>3, <3>1 DEF DeactivateUser, RowsOwned
  <2>2. EditsOwned' /\ owner' = owner
    BY <1>0, <1>3 DEF DeactivateUser, EditsOwned
  <2> QED
    BY <1>0, <2>1, <2>2, OwnersStay DEF OwnerInv, RowsOwned
<1>4. ASSUME NEW a \in Admins, NEW u \in UserIds, NEW l \in Limits \cup {NoLimit}, BeginUpdate(a, u, l)
      PROVE  OwnerInv'
  <2>1. owner[GetUserConfig(u).key] = u
    BY <1>0, <1>4, SettingsOwned DEF BeginUpdate
  <2>2. EditsOwned'
    BY <1>0, <1>4, <2>1 DEF BeginUpdate, EditsOwned
  <2>3. RowsOwned' /\ owner' = owner
    BY <1>0, <1>4 DEF BeginUpdate, RowsOwned, Known
  <2> QED
    BY <1>0, <2>2, <2>3, OwnersStay DEF OwnerInv
<1>5. ASSUME NEW a \in Admins, FinishUpdate(a)
      PROVE  OwnerInv'
  <2> DEFINE e == editing[a]
  <2>1. /\ e \in Edit /\ owner[e.key] = e.user /\ owner' = owner
        /\ rows' = [u \in UserIds |-> IF u \in Written(e)
                      THEN [rows[u] EXCEPT !.key = e.key, !.limit = e.limit] ELSE rows[u]]
    BY <1>0, <1>5 DEF FinishUpdate, EditsOwned
  <2> HIDE DEF e
  <2>2. ASSUME NEW v \in UserIds, Known(v)' PROVE owner'[rows'[v].key] = v
    <3>1. CASE v \in Written(e)
      <4>1. v = e.user /\ rows[v] \in Row
        BY <1>0, <3>1, SettingsTyped DEF Written
      <4>2. rows'[v] = [rows[v] EXCEPT !.key = e.key, !.limit = e.limit]
        BY <2>1, <3>1
      <4>3. rows'[v].key = e.key
        BY <4>1, <4>2 DEF Row
      <4> QED
        BY <2>1, <4>1, <4>3
    <3>2. CASE v \notin Written(e)
      BY <1>0, <2>1, <2>2, <3>2 DEF RowsOwned, Known
    <3> QED
      BY <3>1, <3>2
  <2>3. EditsOwned'
    BY <1>0, <1>5 DEF FinishUpdate, EditsOwned
  <2> QED
    BY <1>0, <2>1, <2>2, <2>3, OwnersStay DEF OwnerInv, RowsOwned
<1> QED
  BY <1>1, <1>2, <1>3, <1>4, <1>5 DEF UserAction

\* Resolving a key finds its owner; the later steps of a request keep both.
LEMMA RequestOwned ==
  ASSUME LimiterInv, OwnerInv, NEW r \in Clients, ClientStep(r)
  PROVE  OwnerInv'
<1>0. req \in [Clients -> Request] /\ req[r] \in Request /\ UNCHANGED usersVars
  BY DEF LimiterInv, TypeOK, ClientStep, Authenticate, ResolveSettings, LoadBucket, StoreBucket,
         TakeToken, Refuse, Finish
<1>1. FilesOwned' /\ RowsOwned' /\ EditsOwned' /\ owner' = owner
  BY <1>0 DEF OwnerInv, FilesOwned, RowsOwned, EditsOwned, usersVars, Known
<1>2. ASSUME NEW k \in Keys, Authenticate(r, k) PROVE AttributedToOwner'
  <2>1. PICK u \in LookupAPIKey(k) :
          req' = [req EXCEPT ![r] = [Idle EXCEPT !.pc = "resolve", !.key = k, !.user = u]]
    BY <1>2 DEF Authenticate
  <2>2. owner[k] = u
    BY FilesTyped DEF LookupAPIKey, StoredAs, ConfiguredAs, Active, OwnerInv, FilesOwned, RowsOwned,
                      LimiterInv, TypeOK, UsersTypeOK
  <2> DEFINE q == [Idle EXCEPT !.pc = "resolve", !.key = k, !.user = u]
  <2>3. q.key = k /\ q.user = u
    BY DEF Idle
  <2> HIDE DEF q
  <2> QED
    BY <1>0, <1>1, <2>1, <2>2, <2>3 DEF AttributedToOwner, OwnerInv, q
<1>3. ASSUME NEW q, req' = [req EXCEPT ![r] = q], req[r].pc # "idle",
             q.pc = "idle" \/ (q.key = req[r].key /\ q.user = req[r].user)
      PROVE  OwnerInv'
  <2>1. AttributedToOwner'
    BY <1>0, <1>1, <1>3 DEF AttributedToOwner, OwnerInv
  <2> QED
    BY <1>1, <2>1 DEF OwnerInv
<1>4. CASE ResolveSettings(r)
  <2>1. PICK uc : req' = [req EXCEPT ![r].pc = "load", ![r].limit = EffectiveLimit(req[r].user, uc)]
    BY <1>4 DEF ResolveSettings
  <2> DEFINE l == EffectiveLimit(req[r].user, uc)
             q == [req[r] EXCEPT !.pc = "load", !.limit = l]
  <2>2. req' = [req EXCEPT ![r] = q] /\ req[r].pc = "resolve"
    BY <1>0, <1>4, <2>1 DEF ResolveSettings
  <2> HIDE DEF l
  <2>3. q.key = req[r].key /\ q.user = req[r].user
    BY <1>0 DEF Request
  <2> HIDE DEF q
  <2> QED
    BY <1>3, <2>2, <2>3
<1>5. CASE LoadBucket(r)
  <2> DEFINE b == NewTokenBucket(req[r].limit, now)
             hit == [req[r] EXCEPT !.pc = "take", !.limit = DefaultLimit]
             miss == [req[r] EXCEPT !.pc = "store", !.fresh = b, !.limit = DefaultLimit]
  <2>1. (req' = [req EXCEPT ![r] = hit] \/ req' = [req EXCEPT ![r] = miss]) /\ req[r].pc = "load"
    BY <1>0, <1>5 DEF LoadBucket
  <2> HIDE DEF b
  <2>2. /\ hit.key = req[r].key /\ hit.user = req[r].user
        /\ miss.key = req[r].key /\ miss.user = req[r].user
    BY <1>0 DEF Request
  <2> HIDE DEF hit, miss
  <2> QED
    BY <1>3, <2>1, <2>2
<1>6. CASE StoreBucket(r)
  <2> DEFINE q == [req[r] EXCEPT !.pc = "take", !.fresh = NoBucket]
  <2>1. req' = [req EXCEPT ![r] = q] /\ req[r].pc = "store"
    BY <1>0, <1>6 DEF StoreBucket
  <2>2. q.key = req[r].key /\ q.user = req[r].user
    BY <1>0 DEF Request
  <2> HIDE DEF q
  <2> QED
    BY <1>3, <2>1, <2>2
<1>7. CASE TakeToken(r)
  <2> DEFINE q == [req[r] EXCEPT !.pc = "refuse"]
  <2>1. (req' = [req EXCEPT ![r] = Idle] \/ req' = [req EXCEPT ![r] = q]) /\ req[r].pc = "take"
    BY <1>0, <1>7 DEF TakeToken
  <2>2. q.key = req[r].key /\ q.user = req[r].user /\ Idle.pc = "idle"
    BY <1>0 DEF Request, Idle
  <2> HIDE DEF q
  <2>3. CASE req' = [req EXCEPT ![r] = Idle]
    BY <1>3, <2>1, <2>2, <2>3
  <2>4. CASE req' = [req EXCEPT ![r] = q]
    BY <1>3, <2>1, <2>2, <2>4
  <2> QED
    BY <2>1, <2>3, <2>4
<1>8. CASE Refuse(r)
  <2> DEFINE w == RetryAfterSeconds(bucket[req[r].user])
             n == admitted[req[r].user]
             q == [req[r] EXCEPT !.pc = "refused", !.at = now, !.wait = w, !.seen = n]
  <2>1. req' = [req EXCEPT ![r] = q] /\ req[r].pc = "refuse"
    BY <1>0, <1>8 DEF Refuse
  <2> HIDE DEF w, n
  <2>2. q.key = req[r].key /\ q.user = req[r].user
    BY <1>0 DEF Request
  <2> HIDE DEF q
  <2> QED
    BY <1>3, <2>1, <2>2
<1>9. CASE Finish(r)
  <2>1. req' = [req EXCEPT ![r] = Idle] /\ Idle.pc = "idle" /\ req[r].pc = "refused"
    BY <1>9 DEF Finish, Idle
  <2> QED
    BY <1>3, <2>1
<1> QED
  BY <1>1, <1>2, <1>4, <1>5, <1>6, <1>7, <1>8, <1>9 DEF ClientStep, OwnerInv

\* Every step keeps every key with its owner.
LEMMA OwnerStep == LimiterInv /\ OwnerInv /\ [Next]_vars => OwnerInv'
<1> SUFFICES ASSUME LimiterInv, OwnerInv, [Next]_vars PROVE OwnerInv'
  OBVIOUS
<1>1. CASE \E r \in Clients : ClientStep(r)
  BY <1>1, RequestOwned
<1>2. CASE Administer
  BY <1>2, UserActionOwned DEF Administer
<1>3. CASE Restart
  BY <1>3 DEF Restart, RestartUsers, OwnerInv, FilesOwned, RowsOwned, EditsOwned, Known,
              AttributedToOwner, Idle
<1>4. CASE Tick \/ UNCHANGED vars
  BY <1>4 DEF Tick, vars, usersVars, OwnerInv, FilesOwned, RowsOwned, EditsOwned, Known,
              AttributedToOwner
<1> QED
  BY <1>1, <1>2, <1>3, <1>4 DEF Next

\* The keys of the configuration files are their users' from the start.
LEMMA OwnerInit == Init => OwnerInv
<1> SUFFICES ASSUME Init PROVE OwnerInv
  OBVIOUS
<1>1. FilesOwned
  <2> SUFFICES ASSUME NEW y \in Yamls, NEW u \in DOMAIN y PROVE owner[y[u].key] = u
    BY DEF FilesOwned
  <2> DEFINE k == y[u].key
             holds(v) == \E z \in Yamls : v \in DOMAIN z /\ z[v].key = k
  <2>1. u \in UserIds /\ k \in Keys
    BY FilesTyped
  <2>2. owner[k] = CHOOSE v \in UserIds : holds(v)
    BY <2>1 DEF Init, UsersInit
  <2>3. holds(u)
    OBVIOUS
  <2>4. \A v \in UserIds : holds(v) => v = u
    BY UsersAssumption
  <2> HIDE DEF holds
  <2> QED
    BY <2>1, <2>2, <2>3, <2>4
<1>2. RowsOwned
  <2>1. PICK y \in Yamls : \E S \in SUBSET DOMAIN y : rows = SeededRows(y, S)
    BY DEF Init, UsersInit
  <2>2. PICK S \in SUBSET DOMAIN y : rows = SeededRows(y, S)
    BY <2>1
  <2>3. \A u \in UserIds : Known(u) => u \in S /\ rows[u].key = y[u].key
    BY <2>2 DEF Known, SeededRows
  <2> QED
    BY <1>1, <2>3 DEF RowsOwned, FilesOwned
<1>3. EditsOwned /\ AttributedToOwner
  BY DEF Init, UsersInit, FreshLimiter, EditsOwned, AttributedToOwner, Idle
<1> QED
  BY <1>1, <1>2, <1>3 DEF OwnerInv

\* Every request runs under the user its key was issued to.
THEOREM RequestsAttributed == Spec => []AttributedToOwner
<1>1. OwnerInv => AttributedToOwner
  BY DEF OwnerInv
<1> QED
  BY <1>1, OwnerInit, OwnerStep, AccountsHold, PTL DEF Spec

-----------------------------------------------------------------------------
(* Disabled users.                                                         *)

Disabled(u) == Known(u) /\ ~Active(u)

\* No request of the users page enables a row.
LEMMA UserActionDisables ==
  ASSUME UsersTypeOK, UserAction, NEW u \in UserIds, Disabled(u)
  PROVE  Disabled(u)'
<1>0. rows \in [UserIds -> Row \cup {NoRow}] /\ rows[u] \in Row /\ NoRow \notin Row /\ ~rows[u].active
  BY UsersAssumption DEF UsersTypeOK, Disabled, Known, Active
<1>1. CASE rows'[u] = rows[u]
  BY <1>1 DEF Disabled, Known, Active
<1>2. ASSUME NEW a \in Admins, FinishUpdate(a)
      PROVE  Disabled(u)'
  <2> DEFINE e == editing[a]
  <2>1. e.key \in Keys /\ e.limit \in Limits \cup {NoLimit}
    BY <1>2 DEF UsersTypeOK, FinishUpdate, Edit
  <2>2. rows'[u] = rows[u] \/ rows'[u] = [rows[u] EXCEPT !.key = e.key, !.limit = e.limit]
    BY <1>2 DEF FinishUpdate
  <2> HIDE DEF e
  <2>3. /\ [rows[u] EXCEPT !.key = e.key, !.limit = e.limit] \in Row
        /\ [rows[u] EXCEPT !.key = e.key, !.limit = e.limit].active = rows[u].active
    BY <1>0, <2>1 DEF Row
  <2> QED
    BY <1>0, <1>1, <2>2, <2>3 DEF Disabled, Known, Active
<1>3. ASSUME NEW v \in UserIds, NEW k \in Keys, NEW l \in Limits \cup {NoLimit},
             CreateUser(v, k, l) \/ RotateUserKey(v, k) \/ DeactivateUser(v)
      PROVE  rows'[u] = rows[u]
  <2>1. v # u
    BY <1>3 DEF Disabled, CreateUser, Vacant, RotateUserKey, DeactivateUser, Active
  <2> QED
    BY <1>0, <1>3, <2>1 DEF CreateUser, RotateUserKey, DeactivateUser
<1>4. ASSUME NEW a \in Admins, NEW v \in UserIds, NEW l \in Limits \cup {NoLimit}, BeginUpdate(a, v, l)
      PROVE  rows'[u] = rows[u]
  BY <1>4 DEF BeginUpdate
<1>5. NoLimit \in Limits \cup {NoLimit}
  OBVIOUS
<1>6. CASE \E v \in UserIds, k \in Keys, l \in Limits \cup {NoLimit} : CreateUser(v, k, l)
  BY <1>1, <1>3, <1>6
<1>7. CASE \E v \in UserIds, k \in Keys : RotateUserKey(v, k)
  BY <1>1, <1>3, <1>5, <1>7
<1>8. CASE \E v \in UserIds : DeactivateUser(v)
  <2>1. PICK v \in UserIds : DeactivateUser(v)
    BY <1>8
  <2>2. v # u
    BY <2>1 DEF Disabled, DeactivateUser
  <2> QED
    BY <1>0, <1>1, <2>1, <2>2 DEF DeactivateUser
<1> QED
  BY <1>1, <1>2, <1>4, <1>6, <1>7, <1>8 DEF UserAction

\* A request that is admitted under a disabled user has the key of the file.
LEMMA FileAdmits ==
  ASSUME TypeOK, NEW r \in Clients, Next, req[r].pc = "idle", req'[r].pc = "resolve",
         ~Active(req'[r].user)
  PROVE  LET u == req'[r].user IN u \in DOMAIN config /\ req'[r].key = config[u].key
<1>0. req \in [Clients -> Request] /\ \A c \in Clients : req[c] \in Request
  BY DEF TypeOK
<1>1. req'[r] # req[r]
  BY <1>0
<1>2. PICK c \in Clients : ClientStep(c)
  BY <1>1 DEF Next, Administer, Restart, Tick, Idle
<1>3. ASSUME NEW k \in Keys, Authenticate(c, k)
      PROVE  LET u == req'[r].user IN u \in DOMAIN config /\ req'[r].key = config[u].key
  <2>1. PICK u \in LookupAPIKey(k) :
          req' = [req EXCEPT ![c] = [Idle EXCEPT !.pc = "resolve", !.key = k, !.user = u]]
    BY <1>3 DEF Authenticate
  <2> DEFINE q == [Idle EXCEPT !.pc = "resolve", !.key = k, !.user = u]
  <2>2. q.key = k /\ q.user = u
    BY DEF Idle
  <2> HIDE DEF q
  <2>3. c = r /\ req'[r] = q
    BY <1>0, <1>1, <2>1 DEF q
  <2>4. req'[r].key = k /\ req'[r].user = u /\ ~Active(u)
    BY <2>2, <2>3
  <2> QED
    BY <2>1, <2>4 DEF LookupAPIKey, StoredAs, ConfiguredAs
<1>4. CASE \E k \in Keys : Authenticate(c, k)
  BY <1>3, <1>4
<1>5. ~(\E k \in Keys : Authenticate(c, k)) => FALSE
  <2> SUFFICES ASSUME ~(\E k \in Keys : Authenticate(c, k)) PROVE FALSE
    OBVIOUS
  <2>1. req[c].pc # "idle"
    BY <1>2 DEF ClientStep, ResolveSettings, LoadBucket, StoreBucket, TakeToken, Refuse, Finish
  <2>2. c # r
    BY <2>1
  <2>3. req'[r] = req[r]
    BY <1>0, <1>2, <2>2
    DEF ClientStep, ResolveSettings, LoadBucket, StoreBucket, TakeToken, Refuse, Finish
  <2> QED
    BY <1>1, <2>3
<1> QED
  BY <1>4, <1>5

\* A disabled row stays disabled in every step, and only the key that the file has
\* for a disabled user admits a request under it.
THEOREM DisabledForGood == Spec => DeactivationSticks
<1>1. ASSUME TypeOK, [Next]_vars, NEW u \in UserIds, Disabled(u) PROVE Disabled(u)'
  <2>1. CASE Administer
    BY <1>1, <2>1, UserActionDisables DEF Administer, TypeOK
  <2>2. CASE rows' = rows
    BY <1>1, <2>2 DEF Disabled, Known, Active
  <2>3. Administer \/ rows' = rows
    BY <1>1 DEF Next, ClientStep, Authenticate, ResolveSettings, LoadBucket, StoreBucket, TakeToken,
           Refuse, Finish, Restart, RestartUsers, Tick, vars, usersVars
  <2> QED
    BY <2>1, <2>2, <2>3
<1>2. ASSUME TypeOK, Next, NEW u \in UserIds, Disabled(u)
      PROVE  \A r \in Clients :
               req[r].pc = "idle" /\ req'[r].pc = "resolve" /\ req'[r].user = u =>
                 u \in DOMAIN config /\ req'[r].key = config[u].key
  BY <1>2, FileAdmits DEF Disabled
<1>3. TypeOK /\ [Next]_vars =>
        [\A u \in UserIds : Known(u) /\ ~Active(u) =>
           /\ Known(u)' /\ ~Active(u)'
           /\ \A r \in Clients :
                req[r].pc = "idle" /\ req'[r].pc = "resolve" /\ req'[r].user = u =>
                  u \in DOMAIN config /\ req'[r].key = config[u].key]_vars
  <2> SUFFICES ASSUME TypeOK, Next, NEW u \in UserIds, Disabled(u)
               PROVE  /\ Disabled(u)'
                      /\ \A r \in Clients :
                           req[r].pc = "idle" /\ req'[r].pc = "resolve" /\ req'[r].user = u =>
                             u \in DOMAIN config /\ req'[r].key = config[u].key
    BY DEF Disabled
  <2>1. [Next]_vars
    OBVIOUS
  <2> QED
    BY <1>1, <1>2, <2>1
<1> QED
  BY <1>3, TypesHold, PTL DEF Spec, DeactivationSticks

=============================================================================
