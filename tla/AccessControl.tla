--------------------------- MODULE AccessControl ---------------------------
(***************************************************************************)
(* The way of a request through the two middlewares in front of the proxy: *)
(* its key is resolved to a user (auth/middleware.go, Users) and a token   *)
(* is taken from that user's bucket (ratelimit/middleware.go,              *)
(* RateLimiter).  Requests run at the same time as each other and as the   *)
(* administration of users; each access to the table, to the map of        *)
(* buckets and to a bucket is one step.                                    *)
(***************************************************************************)
EXTENDS Users, RateLimiter, FiniteSets

CONSTANTS
  Clients,       \* requests under way at the same time
  MaxArrivals,   \* bound on requests whose key is resolved
  DefaultLimit,  \* rate_limit.default_rate and default_burst
  NoBucket, NoTime

VARIABLES
  now,       \* seconds since the start of the process
  bucket,    \* the map of buckets, by user
  req,       \* the requests' local variables
  arrivals,  \* requests so far, for the bound
  first,     \* history: when the bucket of a user was created
  admitted   \* history: tokens taken for a user since then

limiterVars == <<now, bucket, first, admitted>>
vars == <<usersVars, limiterVars, req, arrivals>>

ASSUME AccessAssumption ==
  /\ Limits \subseteq Limit /\ DefaultLimit \in Limit
  /\ MaxArrivals \in Nat
  /\ NoBucket \notin Bucket /\ NoTime \notin Nat

Idle == [pc |-> "idle", key |-> Nobody, user |-> Nobody, limit |-> DefaultLimit,
         fresh |-> NoBucket, at |-> 0, wait |-> 0, seen |-> 0]

FreshLimiter ==
  /\ bucket = [u \in UserIds |-> NoBucket]
  /\ first = [u \in UserIds |-> NoTime]
  /\ admitted = [u \in UserIds |-> 0]
  /\ req = [r \in Clients |-> Idle]

Init == UsersInit /\ FreshLimiter /\ now = 0 /\ arrivals = 0

\* Middleware: a request whose key is resolved goes on under that user.  One
\* without a key, with a key that is refused, or whose look-up the database fails,
\* which refuses it without asking the file, is answered and leaves no trace.
Authenticate(r, k) ==
  /\ req[r].pc = "idle"
  /\ arrivals < MaxArrivals /\ arrivals' = arrivals + 1
  /\ \E u \in LookupAPIKey(k) :
       req' = [req EXCEPT ![r] = [Idle EXCEPT !.pc = "resolve", !.key = k, !.user = u]]
  /\ UNCHANGED <<usersVars, limiterVars>>

\* A setting that is not positive leaves the default in place.
Override(l) ==
  [burst |-> IF l.burst > 0 THEN l.burst ELSE DefaultLimit.burst,
   rate  |-> IF l.rate > 0 THEN l.rate ELSE DefaultLimit.rate]

\* resolveSettings, after GetUserConfig answered uc: without a limit there, also
\* after an error of the database, the file's entry is asked, then the default.
EffectiveLimit(u, uc) ==
  IF uc # NoUser /\ uc.limit # NoLimit THEN Override(uc.limit)
  ELSE IF u \in DOMAIN config /\ config[u].limit # NoLimit THEN Override(config[u].limit)
  ELSE DefaultLimit

ResolveSettings(r) ==
  /\ req[r].pc = "resolve"
  /\ \E uc \in {GetUserConfig(req[r].user), NoUser} :
       req' = [req EXCEPT ![r].pc = "load", ![r].limit = EffectiveLimit(req[r].user, uc)]
  /\ UNCHANGED <<usersVars, limiterVars, arrivals>>

\* getOrCreateBucket: the map is read first; a bucket made on a miss enters the
\* map only if there is still none.  (A local that is not read again is reset.)
LoadBucket(r) ==
  /\ req[r].pc = "load"
  /\ req' = IF bucket[req[r].user] # NoBucket
            THEN [req EXCEPT ![r].pc = "take", ![r].limit = DefaultLimit]
            ELSE [req EXCEPT ![r].pc = "store",
                             ![r].fresh = NewTokenBucket(req[r].limit, now),
                             ![r].limit = DefaultLimit]
  /\ UNCHANGED <<usersVars, limiterVars, arrivals>>

\* Fault: the bucket of the request that came second replaces the first one's.
StoredOver(old, fresh) == fresh
LoadedOrStored(old, fresh) == IF old = NoBucket THEN fresh ELSE old
StoreBucket(r) ==
  LET u == req[r].user
  IN  /\ req[r].pc = "store"
      /\ bucket' = [bucket EXCEPT ![u] = LoadedOrStored(bucket[u], req[r].fresh)]
      /\ first' = [first EXCEPT ![u] = IF first[u] = NoTime THEN req[r].fresh.last ELSE @]
      /\ req' = [req EXCEPT ![r].pc = "take", ![r].fresh = NoBucket]
      /\ UNCHANGED <<usersVars, now, admitted, arrivals>>

\* Take, under the bucket's lock.  A request that gets a token goes on to the
\* proxy and is done here.
TakeToken(r) ==
  LET u == req[r].user
      got == HasToken(bucket[u], now)
  IN  /\ req[r].pc = "take"
      /\ bucket' = [bucket EXCEPT ![u] = AfterTake(bucket[u], now)]
      /\ admitted' = [admitted EXCEPT ![u] = IF got THEN @ + 1 ELSE @]
      /\ req' = [req EXCEPT ![r] = IF got THEN Idle ELSE [@ EXCEPT !.pc = "refuse"]]
      /\ UNCHANGED <<usersVars, now, first, arrivals>>

\* RetryAfterSeconds, under the lock again: other requests may have been between.
Refuse(r) ==
  /\ req[r].pc = "refuse"
  /\ req' = [req EXCEPT ![r].pc = "refused", ![r].at = now,
                        ![r].wait = RetryAfterSeconds(bucket[req[r].user]),
                        ![r].seen = admitted[req[r].user]]
  /\ UNCHANGED <<usersVars, limiterVars, arrivals>>

\* The client has its answer 429.
Finish(r) ==
  /\ req[r].pc = "refused"
  /\ req' = [req EXCEPT ![r] = Idle]
  /\ UNCHANGED <<usersVars, limiterVars, arrivals>>

Tick ==
  /\ now < MaxTime /\ now' = now + 1
  /\ UNCHANGED <<usersVars, bucket, first, admitted, req, arrivals>>

Administer == UserAction /\ UNCHANGED <<limiterVars, req, arrivals>>

\* The buckets are lost with the process, the table is not.
Restart ==
  /\ RestartUsers
  /\ bucket' = [u \in UserIds |-> NoBucket]
  /\ first' = [u \in UserIds |-> NoTime]
  /\ admitted' = [u \in UserIds |-> 0]
  /\ req' = [r \in Clients |-> Idle]
  /\ now' = 0 /\ UNCHANGED arrivals

ClientStep(r) ==
  \/ \E k \in Keys : Authenticate(r, k)
  \/ ResolveSettings(r)
  \/ LoadBucket(r)
  \/ StoreBucket(r)
  \/ TakeToken(r)
  \/ Refuse(r)
  \/ Finish(r)

Next ==
  \/ \E r \in Clients : ClientStep(r)
  \/ Administer
  \/ Restart
  \/ Tick

Spec == Init /\ [][Next]_vars

-----------------------------------------------------------------------------
Request ==
  [pc    : {"idle", "resolve", "load", "store", "take", "refuse", "refused"},
   key   : Keys \cup {Nobody}, user : UserIds \cup {Nobody}, limit : Limit,
   fresh : Bucket \cup {NoBucket}, at : Nat, wait : Nat, seen : Nat]

TypeOK ==
  /\ UsersTypeOK
  /\ now \in 0..MaxTime /\ arrivals \in 0..MaxArrivals
  /\ bucket \in [UserIds -> Bucket \cup {NoBucket}]
  /\ first \in [UserIds -> Nat \cup {NoTime}]
  /\ admitted \in [UserIds -> Nat]
  /\ req \in [Clients -> Request]

\* A request runs, is limited and is later charged under the user its key was
\* issued to, although rotations, updates that write back an older key, and
\* changes of the file go on (auth/store.go:34, :287).
AttributedToOwner ==
  \A r \in Clients : req[r].pc # "idle" => owner[req[r].key] = req[r].user

\* Deactivation is "so their key no longer authenticates" (auth/store.go:386).  What
\* the code ensures of it: the row of a disabled user is never enabled again, be it
\* by an update that was under way, a creation under the same name or a restart
\* (auth/store.go:209, :312, :541), and no key that the table holds or held for the
\* user admits a request, unless it is the one that the configuration file read at
\* start has for the same user.  That one goes on to admit: where no active row has
\* a key, LookupAPIKey asks the file (auth/store.go:47), which knows nothing of
\* disabled_at, whereas auth_test.go:449-463 expects a refusal.
DeactivationSticks ==
  [][\A u \in UserIds : Known(u) /\ ~Active(u) =>
       /\ Known(u)' /\ ~Active(u)'
       /\ \A r \in Clients :
            req[r].pc = "idle" /\ req'[r].pc = "resolve" /\ req'[r].user = u =>
              u \in DOMAIN config /\ req'[r].key = config[u].key]_vars

\* The tokens taken for a user never exceed the burst plus what the rate has
\* yielded since the bucket was created, however many requests raced for the
\* bucket's creation or for its last token (ratelimit/limiter.go:40, :213).
WithinBudget ==
  \A u \in UserIds :
    bucket[u] # NoBucket =>
      admitted[u] * Unit <= bucket[u].capacity + (now - first[u]) * bucket[u].rate

\* The Retry-After of a refusal is long enough: unless the user has been given
\* another token meanwhile, there is one after that many seconds
\* (ratelimit/limiter.go:63).  It excludes a bucket that holds less than a token
\* or is never refilled.
RetryAfterSuffices ==
  \A r \in Clients :
    LET b == bucket[req[r].user]
    IN  /\ req[r].pc = "refused" /\ b.rate > 0 /\ b.capacity >= Unit
        /\ admitted[req[r].user] = req[r].seen
        /\ now >= req[r].at + req[r].wait
        => HasToken(b, now)

=============================================================================
