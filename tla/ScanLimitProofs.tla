-------------------------- MODULE ScanLimitProofs --------------------------
(***************************************************************************)
(* Proofs about ScanLimit: for every rate, burst and unit of time, that    *)
(* the token bucket keeps both of its promises.                            *)
(***************************************************************************)
EXTENDS ScanLimit, TLAPS

-----------------------------------------------------------------------------
(* Arithmetic: the products that the clock and the rate make. *)

\* What flows in during one more tick.
LEMMA OneMoreTick ==
  ASSUME NEW a \in Int, NEW r \in Int
  PROVE  (a + 1) * r = a * r + r
  OBVIOUS

\* Products of integers are integers.
LEMMA ProductInt ==
  ASSUME NEW a \in Int, NEW r \in Int
  PROVE  a * r \in Int
  OBVIOUS

\* Products of naturals are naturals.
LEMMA ProductNat ==
  ASSUME NEW a \in Nat, NEW r \in Nat
  PROVE  a * r \in Nat
  OBVIOUS

\* A longer time lets no less flow in.
LEMMA ProductGrows ==
  ASSUME NEW a \in Int, NEW b \in Int, a <= b, NEW r \in Nat
  PROVE  a * r <= b * r
  OBVIOUS

\* A quotient rounded up by one covers what was divided.
LEMMA QuotientCovers ==
  ASSUME NEW a \in Nat, NEW r \in Nat \ {0}
  PROVE  /\ a \div r \in Nat
         /\ (a \div r + 1) * r >= a
  OBVIOUS

\* Dividing a multiple gives the factor back.
LEMMA QuotientOfMultiple ==
  ASSUME NEW h \in Nat \ {0}, NEW b \in Nat
  PROVE  h * ((h * b) \div h) = h * b
  OBVIOUS

\* What flows in one time after another flows in.
LEMMA TimesAdd ==
  ASSUME NEW a \in Int, NEW b \in Int, NEW r \in Int
  PROVE  (a + b) * r = a * r + b * r
  OBVIOUS

\* A higher rate lets no less flow in.
LEMMA FasterIsMore ==
  ASSUME NEW a \in Nat, NEW r \in Int, NEW s \in Int, r <= s
  PROVE  a * r <= a * s
  OBVIOUS

-----------------------------------------------------------------------------
(* What is in a bucket *)

\* The inflow of a tick covers the refill, and in an hour a whole bucket.
LEMMA InflowCovers ==
  ASSUME LimitTypeOK
  PROVE  Inflow \in Nat /\ limit.refill <= Inflow /\ limit.capacity <= Hour * Inflow
<1> DEFINE q == limit.capacity \div Hour
<1>1. /\ limit.refill \in Nat /\ limit.capacity \in Nat /\ Hour \in Nat \ {0}
      /\ Hour * q = limit.capacity
  BY TimeAssumption DEF LimitTypeOK
<1>2. q \in Nat
  BY <1>1, QuotientCovers
<1> HIDE DEF q
<1>3. Inflow = Larger(limit.refill, q)
  BY DEF Inflow, q
<1>4. Inflow \in Nat /\ limit.refill <= Inflow /\ q <= Inflow
  BY <1>1, <1>2, <1>3 DEF Larger
<1>5. Hour * q <= Hour * Inflow
  BY <1>1, <1>2, <1>4, FasterIsMore
<1> QED
  BY <1>1, <1>4, <1>5

\* The level of a bucket is between empty and full.
LEMMA LevelFits ==
  ASSUME LimitTypeOK, NEW u \in Scanners
  PROVE  Level(u) \in Nat /\ Level(u) <= limit.capacity
<1>1. limit.refill \in Nat /\ limit.capacity \in Nat /\ now \in Nat
  BY DEF LimitTypeOK
<1>2. CASE bucket[u] = NoBucket
  BY <1>1, <1>2 DEF Level
<1>3. CASE bucket[u] # NoBucket
  <2>1. bucket[u].tokens \in Nat /\ now - bucket[u].last \in Nat
    BY <1>3, TimeAssumption DEF LimitTypeOK
  <2>2. (now - bucket[u].last) * limit.refill \in Nat
    BY <1>1, <2>1, ProductNat
  <2> QED
    BY <1>1, <1>3, <2>1, <2>2 DEF Level, Smaller
<1> QED
  BY <1>2, <1>3

\* A bucket never looks like the absence of one.
LEMMA BucketIsThere ==
  ASSUME NEW t \in Nat, NEW l \in Nat
  PROVE  [tokens |-> t, last |-> l] # NoBucket
  BY TimeAssumption

\* A request leaves in the bucket what it says, at the time it was made.
LEMMA LevelAfterRequest ==
  ASSUME LimitTypeOK, NEW u \in Scanners, NEW t \in Nat, t <= limit.capacity,
         bucket' = [bucket EXCEPT ![u] = [tokens |-> t, last |-> now]],
         UNCHANGED <<limit, now>>
  PROVE  /\ Level(u)' = t
         /\ \A v \in Scanners \ {u} : Level(v)' = Level(v)
<1>1. bucket'[u] = [tokens |-> t, last |-> now] /\ bucket'[u] # NoBucket
  BY BucketIsThere DEF LimitTypeOK
<1>2. (now - now) * limit.refill = 0
  BY DEF LimitTypeOK
<1>3. Level(u)' = t
  BY <1>1, <1>2 DEF Level, Smaller, LimitTypeOK
<1>4. ASSUME NEW v \in Scanners \ {u}
      PROVE  Level(v)' = Level(v)
  BY bucket'[v] = bucket[v] DEF Level, Smaller, LimitTypeOK
<1> QED
  BY <1>3, <1>4

\* A tick lets the refill of a tick flow in, up to the size of the bucket.
LEMMA LevelAfterTick ==
  ASSUME LimitTypeOK, Tick, NEW u \in Scanners
  PROVE  Level(u)' = Smaller(limit.capacity, Level(u) + limit.refill)
<1>1. limit.refill \in Nat /\ limit.capacity \in Nat /\ now \in Nat /\ now' = now + 1
      /\ limit' = limit /\ bucket' = bucket
  BY DEF LimitTypeOK, Tick
<1>2. CASE bucket[u] = NoBucket
  BY <1>1, <1>2 DEF Level, Smaller
<1>3. CASE bucket[u] # NoBucket
  <2>1. bucket[u].tokens \in Nat /\ bucket[u].last \in Nat
    BY <1>3, TimeAssumption DEF LimitTypeOK
  <2> DEFINE before == (now - bucket[u].last) * limit.refill
             after == (now' - bucket[u].last) * limit.refill
  <2>2. after = before + limit.refill
    <3>1. now' - bucket[u].last = (now - bucket[u].last) + 1
      BY <1>1, <2>1
    <3> QED
      BY <1>1, <2>1, <3>1, OneMoreTick
  <2>3. before \in Int
    BY <1>1, <2>1, ProductInt
  <2>4. Level(u) = Smaller(limit.capacity, bucket[u].tokens + before)
    BY <1>3 DEF Level
  <2>5. Level(u)' = Smaller(limit.capacity, bucket[u].tokens + after)
    BY <1>1, <1>3 DEF Level
  <2> HIDE DEF before, after
  <2> QED
    BY <1>1, <2>1, <2>2, <2>3, <2>4, <2>5 DEF Smaller
<1> QED
  BY <1>2, <1>3

\* Throwing a bucket away takes nothing out of it.
LEMMA LevelAfterCleanup ==
  ASSUME LimitTypeOK, Cleanup, NEW u \in Scanners
  PROVE  Level(u)' \in Nat /\ Level(u)' >= Level(u)
<1>1. limit.capacity \in Nat /\ now' = now /\ limit' = limit
  BY DEF LimitTypeOK, Cleanup
<1>2. Level(u) \in Nat /\ Level(u) <= limit.capacity
  BY LevelFits
<1>3. CASE bucket'[u] = bucket[u]
  BY <1>1, <1>2, <1>3 DEF Level, Smaller
<1>4. CASE bucket'[u] # bucket[u]
  <2>1. bucket'[u] = NoBucket
    BY <1>4 DEF Cleanup
  <2>2. Level(u)' = limit.capacity
    BY <1>1, <2>1 DEF Level
  <2> QED
    BY <1>1, <1>2, <2>2
<1> QED
  BY <1>3, <1>4

\* What has been granted and what is in the bucket now are paid for.
LEMMA LevelPaidFor ==
  ASSUME LimitTypeOK, BucketOK, NEW u \in Scanners
  PROVE  IF now < start THEN granted[u] = 0
         ELSE granted[u] * Hour + Level(u) <= limit.capacity + (now - start) * Inflow
<1>1. /\ limit.refill \in Nat /\ limit.capacity \in Nat /\ now \in Nat /\ start \in Nat
      /\ Hour \in Nat /\ granted[u] \in Nat
  BY TimeAssumption DEF LimitTypeOK
<1>2. Inflow \in Nat /\ limit.refill <= Inflow
  BY InflowCovers
<1>3. Level(u) \in Nat /\ Level(u) <= limit.capacity
  BY LevelFits
<1> HIDE DEF Inflow
<1>4. CASE bucket[u] = NoBucket
  <2>1. Level(u) = limit.capacity
    BY <1>4 DEF Level
  <2> QED
    BY <1>1, <1>4, <2>1 DEF BucketOK, AskedAt, LeftThen
<1>5. CASE bucket[u] # NoBucket
  <2> DEFINE last == bucket[u].last
             tokens == bucket[u].tokens
  <2>1. tokens \in Nat /\ last \in Nat /\ now - last \in Nat
    BY <1>5, TimeAssumption DEF LimitTypeOK
  <2>2. Level(u) <= tokens + (now - last) * limit.refill
    <3>1. (now - last) * limit.refill \in Nat
      BY <1>1, <2>1, ProductNat
    <3> QED
      BY <1>1, <1>5, <2>1, <3>1 DEF Level, Smaller
  <2>3. (now - last) * limit.refill <= (now - last) * Inflow
    BY <1>1, <1>2, <2>1, FasterIsMore
  <2>4. IF last < start THEN granted[u] = 0
        ELSE granted[u] * Hour + tokens <= limit.capacity + (last - start) * Inflow
    BY <1>5 DEF BucketOK, AskedAt, LeftThen
  <2> HIDE DEF last, tokens
  <2>5. CASE last < start /\ now < start
    BY <2>4, <2>5
  <2>6. CASE last < start /\ ~(now < start)
    <3>1. granted[u] * Hour = 0
      BY <1>1, <2>4, <2>6
    <3>2. (now - start) * Inflow \in Nat
      BY <1>1, <1>2, <2>6, ProductNat
    <3> QED
      BY <1>1, <1>3, <2>6, <3>1, <3>2
  <2>7. CASE ~(last < start)
    <3>1. (now - start) * Inflow = (last - start) * Inflow + (now - last) * Inflow
      <4>1. now - start = (last - start) + (now - last)
        BY <1>1, <2>1
      <4> QED
        BY <1>1, <1>2, <2>1, <4>1, TimesAdd
    <3>2. /\ (last - start) * Inflow \in Int /\ (now - last) * Inflow \in Int
          /\ granted[u] * Hour \in Int /\ (now - last) * limit.refill \in Int
      BY <1>1, <1>2, <2>1, ProductInt
    <3>3. ~(now < start)
      BY <1>1, <2>1, <2>7
    <3> QED
      BY <1>1, <1>3, <2>1, <2>2, <2>3, <2>4, <2>7, <3>1, <3>2, <3>3
  <2> QED
    BY <2>5, <2>6, <2>7
<1> QED
  BY <1>4, <1>5

-----------------------------------------------------------------------------
(* The invariant *)

\* Whatever the environment says, a bucket refills and holds a scan.
LEMMA SettingsOK ==
  ASSUME NEW p \in EnvValues, NEW b \in EnvValues
  PROVE  /\ NewScanRateLimiterFromEnv(p, b) \in [refill : Nat \ {0}, capacity : Nat \ {0}]
         /\ NewScanRateLimiterFromEnv(p, b).capacity >= Hour
         /\ Hour * (NewScanRateLimiterFromEnv(p, b).capacity \div Hour)
              = NewScanRateLimiterFromEnv(p, b).capacity
<1> DEFINE tokens == IF envInt(b, 5) < 1 THEN 1 ELSE envInt(b, 5)
<1>1. tokens \in Nat /\ 1 <= tokens
  BY TimeAssumption DEF envInt
<1>2. 1 * Hour <= tokens * Hour
  BY <1>1, ProductGrows, TimeAssumption
<1>3. Hour * tokens \in Nat /\ Hour * tokens >= Hour
  BY <1>1, <1>2, TimeAssumption, ProductNat
<1>4. NewScanRateLimiterFromEnv(p, b).capacity = Hour * tokens
  BY DEF NewScanRateLimiterFromEnv, NewScanRateLimiter
<1> HIDE DEF tokens
<1>5. Hour * ((Hour * tokens) \div Hour) = Hour * tokens
  BY <1>1, QuotientOfMultiple, TimeAssumption
<1>6. NewScanRateLimiterFromEnv(p, b) \in [refill : Nat \ {0}, capacity : Nat \ {0}]
  BY <1>3, <1>4, TimeAssumption DEF NewScanRateLimiterFromEnv, NewScanRateLimiter, envInt
<1> QED
  BY <1>3, <1>4, <1>5, <1>6

\* Nothing is granted or promised at first.
LEMMA InvHoldsAtFirst ==
  LimitInit => LimitInv
<1> SUFFICES ASSUME LimitInit PROVE LimitInv
  OBVIOUS
<1>1. LimitTypeOK
  <2>1. /\ limit \in [refill : Nat \ {0}, capacity : Nat \ {0}] /\ limit.capacity >= Hour
        /\ Hour * (limit.capacity \div Hour) = limit.capacity
    BY SettingsOK DEF LimitInit
  <2>2. now \in Nat /\ start \in Nat
    BY TimeAssumption DEF LimitInit
  <2> QED
    BY <2>1, <2>2 DEF LimitInit, LimitTypeOK
<1>2. BucketOK
  <2> SUFFICES ASSUME NEW u \in Scanners
               PROVE  IF AskedAt(u) < start THEN granted[u] = 0
                      ELSE granted[u] * Hour + LeftThen(u)
                             <= limit.capacity + (AskedAt(u) - start) * Inflow
    BY DEF BucketOK
  <2>1. granted[u] = 0 /\ now = 0 /\ start \in Nat /\ bucket[u] = NoBucket
        /\ limit.capacity \in Nat
    BY <1>1 DEF LimitInit, LimitTypeOK
  <2>2. 0 * Hour = 0 /\ 0 * Inflow = 0
    BY <1>1, TimeAssumption, InflowCovers
  <2> HIDE DEF Inflow
  <2> QED
    BY <2>1, <2>2 DEF AskedAt, LeftThen
<1>3. PromiseOK
  BY DEF LimitInit, PromiseOK
<1> QED
  BY <1>1, <1>2, <1>3 DEF LimitInv

\* A tick adds to the level at most what it adds to the allowance.
LEMMA TickKeepsInv ==
  LimitInv /\ Tick => LimitInv'
<1> SUFFICES ASSUME LimitInv, Tick PROVE LimitInv'
  OBVIOUS
<1> USE DEF LimitInv
<1>1. limit.refill \in Nat /\ limit.capacity \in Nat /\ limit.capacity >= Hour /\ now \in Nat
      /\ start \in Nat /\ now' = now + 1 /\ UNCHANGED <<limit, bucket, start, granted, promise>>
      /\ Hour \in Nat
  BY TimeAssumption DEF LimitTypeOK, Tick
<1>2. LimitTypeOK'
  <2>1. 0 .. now \subseteq 0 .. now'
    BY <1>1
  <2> QED
    BY <1>1, <2>1 DEF LimitTypeOK
<1>3. BucketOK'
  <2> SUFFICES ASSUME NEW u \in Scanners
               PROVE  (IF AskedAt(u) < start THEN granted[u] = 0
                       ELSE granted[u] * Hour + LeftThen(u)
                              <= limit.capacity + (AskedAt(u) - start) * Inflow)'
    BY DEF BucketOK
  <2>1. IF AskedAt(u) < start THEN granted[u] = 0
        ELSE granted[u] * Hour + LeftThen(u) <= limit.capacity + (AskedAt(u) - start) * Inflow
    BY DEF BucketOK
  <2>2. Inflow \in Nat /\ Inflow' = Inflow
    BY <1>1, InflowCovers DEF Inflow
  <2>3. granted[u] \in Nat /\ granted[u] * Hour \in Nat
    BY <1>1, ProductNat DEF LimitTypeOK
  <2> HIDE DEF Inflow
  <2>4. CASE bucket[u] # NoBucket
    <3>1. AskedAt(u)' = AskedAt(u) /\ LeftThen(u)' = LeftThen(u)
      BY <1>1, <2>4 DEF AskedAt, LeftThen
    <3> QED
      BY <1>1, <2>1, <2>2, <3>1
  <2>5. CASE bucket[u] = NoBucket
    <3>1. /\ AskedAt(u) = now /\ AskedAt(u)' = now + 1
          /\ LeftThen(u) = limit.capacity /\ LeftThen(u)' = limit.capacity
      BY <1>1, <2>5 DEF AskedAt, LeftThen
    <3>2. CASE now + 1 < start
      BY <1>1, <2>1, <3>1, <3>2
    <3>3. CASE now < start /\ ~(now + 1 < start)
      <4>1. now + 1 - start = 0 /\ granted[u] = 0
        BY <1>1, <2>1, <3>1, <3>3
      <4>2. 0 * Hour = 0 /\ 0 * Inflow = 0
        BY <1>1, <2>2
      <4> QED
        BY <1>1, <2>2, <3>1, <3>3, <4>1, <4>2
    <3>4. CASE ~(now < start)
      <4>1. (now + 1 - start) * Inflow = (now - start) * Inflow + Inflow
        <5>1. now + 1 - start = (now - start) + 1
          BY <1>1
        <5> QED
          BY <1>1, <2>2, <5>1, OneMoreTick
      <4>2. (now - start) * Inflow \in Int
        BY <1>1, <2>2, ProductInt
      <4> QED
        BY <1>1, <2>1, <2>2, <2>3, <3>1, <3>4, <4>1, <4>2
    <3> QED
      BY <3>2, <3>3, <3>4
  <2> QED
    BY <2>4, <2>5
<1>4. PromiseOK'
  <2> SUFFICES ASSUME NEW u \in Scanners, promise[u] # NoPromise
               PROVE  \/ Level(u)' >= Hour
                      \/ Level(u)' + (promise[u] - now') * limit.refill >= Hour
    BY <1>1 DEF PromiseOK
  <2>1. Level(u) \in Nat
    BY LevelFits
  <2>2. Level(u)' = Smaller(limit.capacity, Level(u) + limit.refill)
    BY LevelAfterTick
  <2>3. promise[u] \in Nat
    BY DEF LimitTypeOK
  <2>4. (promise[u] - now) * limit.refill
          = (promise[u] - now') * limit.refill + limit.refill
    <3>1. promise[u] - now = (promise[u] - now') + 1
      BY <1>1, <2>3
    <3> QED
      BY <1>1, <2>3, <3>1, OneMoreTick
  <2>5. (promise[u] - now') * limit.refill \in Int
    BY <1>1, <2>3, ProductInt
  <2>6. Level(u) >= Hour \/ Level(u) + (promise[u] - now) * limit.refill >= Hour
    BY DEF PromiseOK
  <2> QED
    BY <1>1, <2>1, <2>2, <2>4, <2>5, <2>6 DEF Smaller
<1> QED
  BY <1>2, <1>3, <1>4

\* A scan takes a token, if there is one.
LEMMA AllowKeepsInv ==
  ASSUME LimitInv, NEW u \in Scanners, Level(u) >= Hour, Allow(u)
  PROVE  LimitInv'
<1> USE DEF LimitInv
<1>1. limit.refill \in Nat /\ limit.capacity \in Nat /\ now \in Nat /\ start \in Nat /\ Hour \in Nat
      /\ UNCHANGED <<limit, now, start>>
  BY TimeAssumption DEF LimitTypeOK, Allow
<1>2. \A v \in Scanners : Level(v) \in Nat /\ Level(v) <= limit.capacity
  BY LevelFits
<1>3. Level(u) - Hour \in Nat /\ Level(u) - Hour <= limit.capacity
  BY <1>1, <1>2
<1>4. Level(u)' = Level(u) - Hour /\ \A v \in Scanners \ {u} : Level(v)' = Level(v)
  BY <1>1, <1>3, LevelAfterRequest DEF Allow
<1>5. LimitTypeOK'
  <2>1. [tokens |-> Level(u) - Hour, last |-> now] \in [tokens : Nat, last : 0 .. now]
    BY <1>1, <1>3
  <2>2. \A v \in Scanners : granted[v] + 1 \in Nat
    BY DEF LimitTypeOK
  <2> QED
    BY <1>1, <2>1, <2>2 DEF LimitTypeOK, Allow
<1>6. BucketOK'
  <2> SUFFICES ASSUME NEW v \in Scanners
               PROVE  (IF AskedAt(v) < start THEN granted[v] = 0
                       ELSE granted[v] * Hour + LeftThen(v)
                              <= limit.capacity + (AskedAt(v) - start) * Inflow)'
    BY DEF BucketOK
  <2>1. Inflow \in Nat /\ Inflow' = Inflow
    BY <1>1, InflowCovers DEF Inflow
  <2>2. granted[v] \in Nat
    BY DEF LimitTypeOK
  <2> HIDE DEF Inflow
  <2>3. CASE v # u
    <3>1. bucket'[v] = bucket[v] /\ granted'[v] = granted[v]
      BY <2>3 DEF Allow, LimitTypeOK
    <3>2. AskedAt(v)' = AskedAt(v) /\ LeftThen(v)' = LeftThen(v)
      BY <1>1, <3>1 DEF AskedAt, LeftThen
    <3> QED
      BY <1>1, <2>1, <3>1, <3>2 DEF BucketOK
  <2>4. CASE v = u
    <3>1. AskedAt(u)' = now /\ LeftThen(u)' = Level(u) - Hour
      <4>1. bucket'[u] = [tokens |-> Level(u) - Hour, last |-> now] /\ bucket'[u] # NoBucket
        BY <1>1, <1>3, BucketIsThere DEF Allow, LimitTypeOK
      <4> QED
        BY <4>1 DEF AskedAt, LeftThen
    <3>2. IF now < start THEN granted[u] = 0
          ELSE granted[u] * Hour + Level(u) <= limit.capacity + (now - start) * Inflow
      BY LevelPaidFor
    <3>3. (granted[u] + 1) * Hour = granted[u] * Hour + Hour /\ granted[u] * Hour \in Int
      BY <1>1, <2>2, <2>4, OneMoreTick, ProductInt
    <3>4. (now - start) * Inflow \in Int
      BY <1>1, <2>1, ProductInt
    <3>5. granted'[u] = IF now >= start THEN granted[u] + 1 ELSE granted[u]
      BY DEF Allow, LimitTypeOK
    <3> QED
      BY <1>1, <1>2, <2>1, <2>2, <2>4, <3>1, <3>2, <3>3, <3>4, <3>5
  <2> QED
    BY <2>3, <2>4
<1>7. PromiseOK'
  BY <1>1, <1>4 DEF PromiseOK, Allow, LimitTypeOK
<1> QED
  BY <1>5, <1>6, <1>7

\* A refusal leaves the bucket as it is, and promises what will have flowed in.
LEMMA RefuseKeepsInv ==
  ASSUME LimitInv, NEW u \in Scanners, Level(u) < Hour, Refuse(u)
  PROVE  LimitInv'
<1> USE DEF LimitInv
<1>1. limit.refill \in Nat \ {0} /\ limit.capacity \in Nat /\ now \in Nat /\ start \in Nat
      /\ Hour \in Nat /\ UNCHANGED <<limit, now, start, granted>>
  BY TimeAssumption DEF LimitTypeOK, Refuse
<1>2. \A v \in Scanners : Level(v) \in Nat /\ Level(v) <= limit.capacity
  BY LevelFits
<1>3. \A v \in Scanners : Level(v)' = Level(v)
  BY <1>1, <1>2, LevelAfterRequest DEF Refuse
<1>4. RetryAfter(u) \in Nat /\ RetryAfter(u) * limit.refill >= Hour - Level(u)
  <2>1. Hour - Level(u) \in Nat
    BY <1>1, <1>2
  <2> QED
    BY <1>1, <2>1, QuotientCovers DEF RetryAfter
<1>5. LimitTypeOK'
  <2>1. [tokens |-> Level(u), last |-> now] \in [tokens : Nat, last : 0 .. now]
    BY <1>1, <1>2
  <2> QED
    BY <1>1, <1>4, <2>1 DEF LimitTypeOK, Refuse
<1>6. BucketOK'
  <2> SUFFICES ASSUME NEW v \in Scanners
               PROVE  (IF AskedAt(v) < start THEN granted[v] = 0
                       ELSE granted[v] * Hour + LeftThen(v)
                              <= limit.capacity + (AskedAt(v) - start) * Inflow)'
    BY DEF BucketOK
  <2>1. Inflow' = Inflow
    BY <1>1 DEF Inflow
  <2> HIDE DEF Inflow
  <2>2. CASE v # u
    <3>1. bucket'[v] = bucket[v]
      BY <2>2 DEF Refuse, LimitTypeOK
    <3>2. AskedAt(v)' = AskedAt(v) /\ LeftThen(v)' = LeftThen(v)
      BY <1>1, <3>1 DEF AskedAt, LeftThen
    <3> QED
      BY <1>1, <2>1, <3>2 DEF BucketOK
  <2>3. CASE v = u
    <3>1. AskedAt(u)' = now /\ LeftThen(u)' = Level(u)
      <4>1. bucket'[u] = [tokens |-> Level(u), last |-> now] /\ bucket'[u] # NoBucket
        BY <1>1, <1>2, BucketIsThere DEF Refuse, LimitTypeOK
      <4> QED
        BY <4>1 DEF AskedAt, LeftThen
    <3>2. IF now < start THEN granted[u] = 0
          ELSE granted[u] * Hour + Level(u) <= limit.capacity + (now - start) * Inflow
      BY LevelPaidFor
    <3> QED
      BY <1>1, <2>1, <2>3, <3>1, <3>2
  <2> QED
    BY <2>2, <2>3
<1>7. PromiseOK'
  <2> SUFFICES ASSUME NEW v \in Scanners, promise'[v] # NoPromise
               PROVE  \/ Level(v) >= Hour
                      \/ Level(v) + (promise'[v] - now) * limit.refill >= Hour
    BY <1>1, <1>3 DEF PromiseOK
  <2>1. CASE v # u
    BY <2>1 DEF PromiseOK, Refuse, LimitTypeOK
  <2>2. CASE v = u
    <3>1. promise'[u] = now + RetryAfter(u)
      BY DEF Refuse, LimitTypeOK
    <3>2. promise'[u] - now = RetryAfter(u)
      BY <1>1, <1>4, <3>1
    <3>3. RetryAfter(u) * limit.refill \in Int
      BY <1>1, <1>4, ProductInt
    <3> HIDE DEF RetryAfter
    <3> QED
      BY <1>1, <1>2, <1>4, <2>2, <3>2, <3>3
  <2> QED
    BY <2>1, <2>2
<1> QED
  BY <1>5, <1>6, <1>7

\* A bucket is forgotten only after an hour, in which as much may flow in.
LEMMA CleanupKeepsInv ==
  LimitInv /\ Cleanup => LimitInv'
<1> SUFFICES ASSUME LimitInv, Cleanup PROVE LimitInv'
  OBVIOUS
<1> USE DEF LimitInv
<1>1. UNCHANGED <<limit, now, start, granted, promise>> /\ Hour \in Nat
  BY TimeAssumption DEF Cleanup
<1>2. \A u \in Scanners : Level(u) \in Nat
  BY LevelFits
<1>3. \A u \in Scanners :
        Level(u)' \in Nat /\ Level(u)' >= Level(u)
  BY LevelAfterCleanup
<1>4. LimitTypeOK'
  BY <1>1 DEF LimitTypeOK, Cleanup
<1>5. BucketOK'
  <2> SUFFICES ASSUME NEW u \in Scanners
               PROVE  (IF AskedAt(u) < start THEN granted[u] = 0
                       ELSE granted[u] * Hour + LeftThen(u)
                              <= limit.capacity + (AskedAt(u) - start) * Inflow)'
    BY DEF BucketOK
  <2>1. Inflow \in Nat /\ Inflow' = Inflow /\ limit.capacity <= Hour * Inflow
    BY <1>1, InflowCovers DEF Inflow
  <2>2. IF AskedAt(u) < start THEN granted[u] = 0
        ELSE granted[u] * Hour + LeftThen(u) <= limit.capacity + (AskedAt(u) - start) * Inflow
    BY DEF BucketOK
  <2>3. /\ limit.capacity \in Nat /\ now \in Nat /\ start \in Nat
        /\ granted[u] \in Nat /\ granted[u] * Hour \in Int
    BY <1>1, ProductInt DEF LimitTypeOK
  <2> HIDE DEF Inflow
  <2>4. CASE bucket'[u] = bucket[u]
    <3>1. AskedAt(u)' = AskedAt(u) /\ LeftThen(u)' = LeftThen(u)
      BY <1>1, <2>4 DEF AskedAt, LeftThen
    <3> QED
      BY <1>1, <2>1, <2>2, <3>1
  <2>5. CASE bucket'[u] # bucket[u]
    <3> DEFINE last == bucket[u].last
               tokens == bucket[u].tokens
    <3>1. bucket'[u] = NoBucket /\ bucket[u] # NoBucket /\ last < now - Hour
      BY <2>5 DEF Cleanup
    <3>2. tokens \in Nat /\ last \in Nat
      BY <3>1, TimeAssumption DEF LimitTypeOK
    <3>3. AskedAt(u)' = now /\ LeftThen(u)' = limit.capacity
      BY <1>1, <3>1 DEF AskedAt, LeftThen
    <3>4. IF last < start THEN granted[u] = 0
          ELSE granted[u] * Hour + tokens <= limit.capacity + (last - start) * Inflow
      BY <2>2, <3>1 DEF AskedAt, LeftThen
    <3> HIDE DEF last, tokens
    <3>5. CASE now < start
      <4>1. last < start
        BY <1>1, <2>3, <3>1, <3>2, <3>5
      <4> QED
        BY <1>1, <3>3, <3>4, <3>5, <4>1
    <3>6. CASE last < start /\ ~(now < start)
      <4>1. granted[u] * Hour = 0
        BY <1>1, <3>4, <3>6
      <4>2. (now - start) * Inflow \in Nat
        BY <2>1, <2>3, <3>6, ProductNat
      <4> QED
        BY <1>1, <2>1, <2>3, <3>3, <3>6, <4>1, <4>2
    <3>7. CASE ~(last < start) /\ ~(now < start)
      <4>1. (now - start) * Inflow = (last - start) * Inflow + (now - last) * Inflow
        <5>1. now - start = (last - start) + (now - last)
          BY <2>3, <3>2
        <5> QED
          BY <2>1, <2>3, <3>2, <5>1, TimesAdd
      <4>2. Hour * Inflow <= (now - last) * Inflow
        BY <1>1, <2>1, <2>3, <3>1, <3>2, ProductGrows
      <4>3. /\ (last - start) * Inflow \in Int /\ (now - last) * Inflow \in Int
            /\ Hour * Inflow \in Int
        BY <1>1, <2>1, <2>3, <3>2, ProductInt
      <4> QED
        BY <1>1, <2>1, <2>3, <3>2, <3>3, <3>4, <3>7, <4>1, <4>2, <4>3
    <3> QED
      BY <3>5, <3>6, <3>7
  <2> QED
    BY <2>4, <2>5
<1>6. PromiseOK'
  <2> SUFFICES ASSUME NEW u \in Scanners, promise[u] # NoPromise
               PROVE  \/ Level(u)' >= Hour
                      \/ Level(u)' + (promise[u] - now) * limit.refill >= Hour
    BY <1>1 DEF PromiseOK
  <2>1. (promise[u] - now) * limit.refill \in Int
    BY ProductInt DEF LimitTypeOK
  <2>2. Level(u) >= Hour \/ Level(u) + (promise[u] - now) * limit.refill >= Hour
    BY DEF PromiseOK
  <2> QED
    BY <1>1, <1>2, <1>3, <2>1, <2>2
<1> QED
  BY <1>4, <1>5, <1>6

\* Every step keeps the invariant of the bucket.
LEMMA StepKeepsInv ==
  LimitInv /\ [LimitNext]_limitVars => LimitInv'
<1> SUFFICES ASSUME LimitInv, [LimitNext]_limitVars PROVE LimitInv'
  OBVIOUS
<1>1. CASE Tick
  BY <1>1, TickKeepsInv
<1>2. CASE Cleanup
  BY <1>2, CleanupKeepsInv
<1>3. ASSUME NEW u \in Scanners, allow(u)
      PROVE  LimitInv'
  <2>1. Level(u) \in Nat /\ Hour \in Nat
    BY LevelFits, TimeAssumption DEF LimitInv
  <2> QED
    BY <1>3, <2>1, AllowKeepsInv, RefuseKeepsInv DEF allow
<1>4. CASE UNCHANGED limitVars
  BY <1>4 DEF limitVars, LimitInv, LimitTypeOK, BucketOK, AskedAt, LeftThen, Inflow, PromiseOK, Level
<1> QED
  BY <1>1, <1>2, <1>3, <1>4 DEF LimitNext

-----------------------------------------------------------------------------
(* The theorems *)

\* Scans granted and the bucket are always paid for by a full bucket and what
\* has flowed in, and a promise by what will (allow and cleanupLoop).
THEOREM LimitInvariant == LimitSpec => []LimitInv
  BY InvHoldsAtFirst, StepKeepsInv, PTL DEF LimitSpec

\* In any window and under any settings no user is allowed more scans than the
\* burst and what flows in meanwhile, at the hourly rate or at a burst an hour,
\* whichever is more (allow, cleanupLoop).
THEOREM NeverAboveTheRate == LimitSpec => []BurstAndRefill
<1>1. LimitInv => BurstAndRefill
  <2> SUFFICES ASSUME LimitInv, now >= start, NEW u \in Scanners
               PROVE  granted[u] * Hour <= limit.capacity + (now - start) * Inflow
    BY DEF BurstAndRefill
  <2>1. Level(u) \in Nat
    BY LevelFits DEF LimitInv
  <2>2. /\ now \in Nat /\ start \in Nat /\ granted[u] \in Nat /\ limit.capacity \in Int
        /\ Inflow \in Nat
    BY InflowCovers DEF LimitInv, LimitTypeOK
  <2>3. ~(now < start)
    BY <2>2
  <2>4. granted[u] * Hour + Level(u) <= limit.capacity + (now - start) * Inflow
    BY <2>3, LevelPaidFor DEF LimitInv
  <2>5. granted[u] * Hour \in Int /\ (now - start) * Inflow \in Int
    BY <2>2, TimeAssumption, ProductInt
  <2> HIDE DEF Inflow
  <2> QED
    BY <2>1, <2>2, <2>4, <2>5
<1> QED
  BY <1>1, LimitInvariant, PTL

\* Whoever waits as long as the refusal said is let in (Retry-After in Limit).
THEOREM WaitingIsEnough == LimitSpec => []RetryIsEnough
<1>1. LimitInv => RetryIsEnough
  <2> SUFFICES ASSUME LimitInv, NEW u \in Scanners, promise[u] # NoPromise, now >= promise[u]
               PROVE  Level(u) >= Hour
    BY DEF RetryIsEnough
  <2>1. Level(u) \in Nat /\ Hour \in Nat
    BY LevelFits, TimeAssumption DEF LimitInv
  <2>2. promise[u] - now \in Int /\ promise[u] - now <= 0 /\ limit.refill \in Nat
    BY DEF LimitInv, LimitTypeOK
  <2>3. (promise[u] - now) * limit.refill <= 0 * limit.refill /\ 0 * limit.refill = 0
    BY <2>2, ProductGrows
  <2>4. (promise[u] - now) * limit.refill \in Int
    BY <2>2, ProductInt
  <2>5. Level(u) >= Hour \/ Level(u) + (promise[u] - now) * limit.refill >= Hour
    BY DEF LimitInv, PromiseOK
  <2> QED
    BY <2>1, <2>3, <2>4, <2>5
<1> QED
  BY <1>1, LimitInvariant, PTL

============================================================================
