----------------------------- MODULE ScanLimit -----------------------------
(***************************************************************************)
(* The limit on receipt scans, a token bucket per user in the memory of    *)
(* one instance (internal/handler/middleware/rate_limit.go).  Time goes in *)
(* ticks, Hour of them to the hour; a token is worth Hour units, so that a *)
(* tick refills a whole number of units.  allow holds the mutex: it is one *)
(* step.  A restart, which forgets the buckets, is outside the model.      *)
(***************************************************************************)
EXTENDS Integers

CONSTANTS
  Scanners,
  Hour,                 \* ticks to the hour
  EnvValues,            \* values of the two settings; 0 stands for unset
  MaxTime,              \* the clock of a behaviour stops here (a bound)
  NoBucket, NoPromise

ASSUME TimeAssumption ==
  /\ Hour \in Nat \ {0} /\ MaxTime \in Nat
  /\ EnvValues \subseteq Int
  /\ NoBucket \notin [tokens : Nat, last : Nat]
  /\ NoPromise \notin Nat

VARIABLES
  limit,                \* the settings in force
  now,
  bucket,               \* the bucket of each user; last is also lastSeen
  start,                \* the first tick of the window that is watched
  granted,              \* scans allowed to each user since then
  promise               \* when a user who was refused was told to come back

limitVars == <<limit, now, bucket, start, granted, promise>>

Smaller(a, b) == IF a < b THEN a ELSE b

-----------------------------------------------------------------------------
(* The settings *)

envInt(value, fallback) == IF value > 0 THEN value ELSE fallback

NewScanRateLimiter(perHour, burst) ==
  [refill |-> IF perHour < 1 THEN 1 ELSE perHour,
   capacity |-> Hour * (IF burst < 1 THEN 1 ELSE burst)]

NewScanRateLimiterFromEnv(ratePerHour, rateBurst) ==
  NewScanRateLimiter(envInt(ratePerHour, 10), envInt(rateBurst, 5))

-----------------------------------------------------------------------------
LimitInit ==
  /\ \E p, b \in EnvValues : limit = NewScanRateLimiterFromEnv(p, b)
  /\ now = 0
  /\ bucket = [u \in Scanners |-> NoBucket]
  /\ start \in 0 .. MaxTime
  /\ granted = [u \in Scanners |-> 0]
  /\ promise = [u \in Scanners |-> NoPromise]

Tick ==
  /\ now < MaxTime
  /\ now' = now + 1
  /\ UNCHANGED <<limit, bucket, start, granted, promise>>

\* The units in a bucket now, were it asked: a user without one starts full.
Level(u) ==
  IF bucket[u] = NoBucket
  THEN limit.capacity
  ELSE Smaller(limit.capacity, bucket[u].tokens + (now - bucket[u].last) * limit.refill)

RetryAfter(u) == (Hour - Level(u)) \div limit.refill + 1

\* Slips, neither of them the code's: the bucket is refilled above its size,
\* and a refused user is told a whole tick too little.
allowUncapped(u) ==
  LET tokens == IF bucket[u] = NoBucket THEN limit.capacity
                ELSE bucket[u].tokens + (now - bucket[u].last) * limit.refill
  IN  IF tokens >= Hour
      THEN /\ bucket' = [bucket EXCEPT ![u] = [tokens |-> tokens - Hour, last |-> now]]
           /\ granted' = [granted EXCEPT ![u] = IF now >= start THEN @ + 1 ELSE @]
           /\ promise' = [promise EXCEPT ![u] = NoPromise]
           /\ UNCHANGED <<limit, now, start>>
      ELSE /\ bucket' = [bucket EXCEPT ![u] = [tokens |-> tokens, last |-> now]]
           /\ promise' = [promise EXCEPT ![u] = now + RetryAfter(u)]
           /\ UNCHANGED <<limit, now, start, granted>>

RefuseShort(u) ==
  /\ bucket' = [bucket EXCEPT ![u] = [tokens |-> Level(u), last |-> now]]
  /\ promise' = [promise EXCEPT ![u] = now + RetryAfter(u) - 1]
  /\ UNCHANGED <<limit, now, start, granted>>

Allow(u) ==
  /\ bucket' = [bucket EXCEPT ![u] = [tokens |-> Level(u) - Hour, last |-> now]]
  /\ granted' = [granted EXCEPT ![u] = IF now >= start THEN @ + 1 ELSE @]
  /\ promise' = [promise EXCEPT ![u] = NoPromise]
  /\ UNCHANGED <<limit, now, start>>

Refuse(u) ==
  /\ bucket' = [bucket EXCEPT ![u] = [tokens |-> Level(u), last |-> now]]
  /\ promise' = [promise EXCEPT ![u] = now + RetryAfter(u)]
  /\ UNCHANGED <<limit, now, start, granted>>

\* A scan request of a user: allow, and what Limit answers.
allow(u) == IF Level(u) >= Hour THEN Allow(u) ELSE Refuse(u)

\* cleanupLoop: the buckets nobody has used for more than an hour go.
Cleanup ==
  /\ bucket' = [u \in Scanners |->
       IF bucket[u] # NoBucket /\ bucket[u].last < now - Hour THEN NoBucket ELSE bucket[u]]
  /\ UNCHANGED <<limit, now, start, granted, promise>>

LimitNext == Tick \/ Cleanup \/ \E u \in Scanners : allow(u)

LimitSpec == LimitInit /\ [][LimitNext]_limitVars

-----------------------------------------------------------------------------
(* Properties *)

Larger(a, b) == IF a > b THEN a ELSE b

\* The most that flows in during a tick: the refill, or a bucket every hour.
Inflow == Larger(limit.refill, limit.capacity \div Hour)

\* Whatever the settings, the requests and the window that is watched, no user
\* is allowed more scans in it than a full bucket and what flows in meanwhile
\* at the hourly rate, or at a full bucket an hour where that is more: for a
\* bucket is thrown away after an idle hour, full or not, and made anew full
\* (allow, cleanupLoop).
BurstAndRefill ==
  now >= start =>
    \A u \in Scanners : granted[u] * Hour <= limit.capacity + (now - start) * Inflow

\* A user who comes back when told to is let in (Retry-After in Limit).
RetryIsEnough ==
  \A u \in Scanners : promise[u] # NoPromise /\ now >= promise[u] => Level(u) >= Hour

-----------------------------------------------------------------------------
(* The inductive invariant *)

LimitTypeOK ==
  /\ limit \in [refill : Nat \ {0}, capacity : Nat \ {0}] /\ limit.capacity >= Hour
  /\ Hour * (limit.capacity \div Hour) = limit.capacity
  /\ now \in Nat /\ start \in Nat
  /\ bucket \in [Scanners -> [tokens : Nat, last : 0 .. now] \cup {NoBucket}]
  /\ granted \in [Scanners -> Nat]
  /\ promise \in [Scanners -> Nat \cup {NoPromise}]

\* At the last request of a user, scans granted and what was left in the bucket
\* did not outgrow a full bucket and what had flowed in since the window began;
\* without a bucket, there is a full one now.
AskedAt(u) == IF bucket[u] = NoBucket THEN now ELSE bucket[u].last
LeftThen(u) == IF bucket[u] = NoBucket THEN limit.capacity ELSE bucket[u].tokens

BucketOK ==
  \A u \in Scanners :
    IF AskedAt(u) < start THEN granted[u] = 0
    ELSE granted[u] * Hour + LeftThen(u) <= limit.capacity + (AskedAt(u) - start) * Inflow

\* By the time a user may come back, enough has flowed in.
PromiseOK ==
  \A u \in Scanners : promise[u] # NoPromise =>
    \/ Level(u) >= Hour
    \/ Level(u) + (promise[u] - now) * limit.refill >= Hour

LimitInv == LimitTypeOK /\ BucketOK /\ PromiseOK

=============================================================================
