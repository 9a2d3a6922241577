-------------------------- MODULE RateLimitProofs ---------------------------
(***************************************************************************)
(* Proofs about RateLimit, for any limits, clients and length of a minute. *)
(***************************************************************************)
EXTENDS RateLimit, TLAPS

\* No bucket is over its capacity, and none was used in the future.
BucketsOK ==
    \A k \in Keys : bucket[k] # None =>
        bucket[k].tokens <= Capacity(k) /\ bucket[k].last <= now

\* A bucket is known about a minute before and after a sweep of its limiter.
SweepsOK ==
    /\ \A l \in Limiters : lastSweep[l] <= now
    /\ \A k \in Keys : bucket[k] # None =>
          /\ lastSweep[LimiterOf(k)] < bucket[k].last + Minute
          /\ bucket[k].last < lastSweep[LimiterOf(k)] + Minute

\* What has passed is paid for by what the bucket had and got.
WindowOK ==
    /\ watch.since <= now
    /\ watch.seen * Minute + Level(watch.key)
          <= Capacity(watch.key) + (now - watch.since) * Limit(watch.key)

\* Two ticks after the promise falls due there is more than a token, even if
\* nothing is used until then.
PromiseOK ==
    watch.promise # None =>
        /\ Limit(watch.key) # 0
        /\ bucket[watch.key] # None =>
              Sum(watch.key, bucket[watch.key])
                  + (watch.promise + 2 - now) * Limit(watch.key) > Minute

IInv == TypeOK /\ BucketsOK /\ SweepsOK /\ WindowOK /\ PromiseOK

-----------------------------------------------------------------------------
(* Arithmetic and the level of a bucket. *)

LEMMA Monotone ==
    ASSUME NEW a \in Int, NEW b \in Int, NEW n \in Nat, a <= b
    PROVE  a * n <= b * n /\ a * n \in Int /\ b * n \in Int
  OBVIOUS

LEMMA Distributes ==
    ASSUME NEW a \in Int, NEW b \in Int, NEW n \in Nat
    PROVE  (a + b) * n = a * n + b * n /\ a * n \in Int /\ b * n \in Int
  OBVIOUS

LEMMA LimitNat ==
    ASSUME NEW k \in Keys
    PROVE  Limit(k) \in Nat /\ Capacity(k) \in Nat /\ Minute \in Nat /\ Minute > 0
           /\ (Limit(k) # 0 => Capacity(k) >= Minute)
           /\ LimiterOf(k) \in Limiters
  <1>1. Limit(k) \in Nat /\ Minute \in Nat /\ Minute > 0
    BY RateLimitAssumption DEF Limit
  <1>2. Limit(k) * Minute \in Nat
    BY <1>1
  <1>3. Limit(k) # 0 => Limit(k) * Minute >= Minute
    <2>1. SUFFICES ASSUME Limit(k) # 0 PROVE Limit(k) * Minute >= Minute
      OBVIOUS
    <2>2. 1 * Minute <= Limit(k) * Minute
      BY <1>1, <2>1, Monotone
    <2> QED
      BY <1>1, <2>2
  <1> QED
    BY <1>1, <1>2, <1>3 DEF Capacity, LimiterOf, Limiters

LEMMA KeyInKeys ==
    ASSUME NEW op \in Ops, NEW c \in Clients PROVE KeyOf(op, c) \in Keys
  BY DEF KeyOf, Keys

\* The units that time brings.
LEMMA RefillNat ==
    ASSUME TypeOK, BucketsOK, NEW k \in Keys, bucket[k] # None
    PROVE  /\ bucket[k] \in Bucket /\ bucket[k].tokens \in Nat /\ bucket[k].last \in Nat
           /\ now - bucket[k].last \in Nat
           /\ (now - bucket[k].last) * Limit(k) \in Nat
  <1>1. bucket[k] \in Bucket /\ bucket[k].last <= now /\ now \in Nat
    BY DEF TypeOK, BucketsOK
  <1>2. now - bucket[k].last \in Nat /\ Limit(k) \in Nat
    BY <1>1, LimitNat DEF Bucket
  <1>3. (now - bucket[k].last) * Limit(k) \in Nat
    BY <1>2
  <1> QED
    BY <1>1, <1>2, <1>3 DEF Bucket

LEMMA LevelNat ==
    ASSUME TypeOK, BucketsOK, NEW k \in Keys
    PROVE  Level(k) \in Nat /\ Level(k) <= Capacity(k)
  BY LimitNat, RefillNat DEF Level, Held, Refilled, Sum, Least

\* A bucket that the sweep may forget is full: whether it is forgotten makes no
\* difference to its key.
LEMMA StaleIsFull ==
    ASSUME TypeOK, BucketsOK, NEW k \in Keys, Stale(k)
    PROVE  Level(k) = Capacity(k)
  <1>1. bucket[k] # None /\ now - bucket[k].last >= Minute
    BY DEF Stale
  <1>2. /\ bucket[k].tokens \in Nat /\ now - bucket[k].last \in Nat
        /\ (now - bucket[k].last) * Limit(k) \in Nat
    BY <1>1, RefillNat
  <1>3. Minute * Limit(k) <= (now - bucket[k].last) * Limit(k)
    BY <1>1, <1>2, LimitNat, Monotone
  <1>4. Minute * Limit(k) = Capacity(k)
    BY LimitNat DEF Capacity
  <1> QED
    BY <1>1, <1>2, <1>3, <1>4, LimitNat DEF Level, Held, Refilled, Sum, Least

LEMMA FoundIsLevel ==
    ASSUME TypeOK, BucketsOK, NEW k \in Keys PROVE Found(k) = Level(k)
  BY StaleIsFull DEF Found

LEMMA ShortsBoolean ==
    ASSUME TypeOK, NEW k \in Keys, NEW short \in FoundShorts(k) PROVE short \in BOOLEAN
  BY DEF FoundShorts, Shorts, TypeOK, Bucket

\* What passes has at least a token.
LEMMA PassedHasToken ==
    ASSUME IInv, NEW op \in Ops, NEW c \in Clients, Pass(op, c), NEW k, k = KeyOf(op, c)
    PROVE  \E short \in BOOLEAN :
              /\ Found(k) = Level(k) /\ Level(k) \in Nat /\ Level(k) <= Capacity(k)
              /\ Found(k) >= Minute
              /\ Found(k) - Minute \in Nat /\ Found(k) - Minute <= Capacity(k)
              /\ Use(k, Found(k) - Minute, short)
  <1>1. k \in Keys
    BY KeyInKeys
  <1>2. PICK short \in FoundShorts(k) : Enough(Found(k), short) /\ Use(k, Found(k) - Minute, short)
    BY DEF Pass
  <1>3. short \in BOOLEAN
    BY <1>1, ShortsBoolean DEF IInv
  <1>4. /\ Found(k) = Level(k) /\ Level(k) \in Nat /\ Level(k) <= Capacity(k)
        /\ Minute \in Nat /\ Capacity(k) \in Nat
    BY <1>1, FoundIsLevel, LevelNat, LimitNat DEF IInv
  <1>5. Found(k) >= Minute
    BY <1>2, <1>4 DEF Enough
  <1>6. Found(k) - Minute \in Nat /\ Found(k) - Minute <= Capacity(k)
    BY <1>4, <1>5
  <1>. QED BY <1>2, <1>3, <1>4, <1>5, <1>6

-----------------------------------------------------------------------------
(* What a request does to the buckets. *)

LEMMA UseKeeps ==
    ASSUME IInv, NEW k \in Keys, NEW u \in Nat, u <= Capacity(k),
           NEW short \in BOOLEAN, Use(k, u, short), now' = now
    PROVE  /\ bucket' \in [Keys -> Bucket \union {None}]
           /\ lastSweep' \in [Limiters -> Nat]
           /\ BucketsOK' /\ SweepsOK'
           /\ Level(k)' = u
           /\ \A j \in Keys \ {k} : Level(j)' = Level(j)
           /\ bucket'[k] = [tokens |-> u, last |-> now, short |-> short]
           /\ \A j \in Keys \ {k} :
                 \/ bucket'[j] = bucket[j]
                 \/ bucket'[j] = None /\ Stale(j)
  <1>0. /\ now \in Nat /\ None \notin Bucket /\ bucket \in [Keys -> Bucket \union {None}]
        /\ lastSweep \in [Limiters -> Nat]
    BY RateLimitAssumption DEF IInv, TypeOK, Bucket
  <1> DEFINE new == [tokens |-> u, last |-> now, short |-> short]
  <1>1. new \in Bucket /\ new.tokens = u /\ new.last = now /\ new # None
    BY <1>0 DEF Bucket
  <1>2. /\ bucket'[k] = new
        /\ \A j \in Keys \ {k} :
              bucket'[j] = IF LimiterOf(j) = LimiterOf(k) /\ Stale(j) THEN None ELSE bucket[j]
    BY DEF Use
  <1>3. bucket' \in [Keys -> Bucket \union {None}]
    BY <1>0, <1>1 DEF Use
  <1>4. lastSweep' \in [Limiters -> Nat]
    BY <1>0 DEF Use
  <1>5. BucketsOK'
    BY <1>1, <1>2, <1>0 DEF IInv, BucketsOK, Capacity, Limit
  <1>6. SweepsOK'
    <2>1. \A l \in Limiters : lastSweep'[l] <= now
      BY <1>0 DEF Use, IInv, SweepsOK
    <2>2. ASSUME NEW j \in Keys, bucket'[j] # None
          PROVE  /\ lastSweep'[LimiterOf(j)] < bucket'[j].last + Minute
                 /\ bucket'[j].last < lastSweep'[LimiterOf(j)] + Minute
      <3>0. LimiterOf(j) \in Limiters /\ LimiterOf(k) \in Limiters /\ Minute \in Nat /\ Minute > 0
        BY LimitNat
      <3>1. CASE j = k
        <4>1. lastSweep'[LimiterOf(k)] = now
              \/ (lastSweep'[LimiterOf(k)] = lastSweep[LimiterOf(k)]
                  /\ now - lastSweep[LimiterOf(k)] < Minute)
          BY <1>0, <3>0 DEF Use, SweepDue
        <4>2. lastSweep[LimiterOf(k)] <= now /\ lastSweep[LimiterOf(k)] \in Nat
          BY <1>0, <3>0 DEF IInv, SweepsOK
        <4> QED
          BY <1>0, <1>1, <1>2, <3>0, <3>1, <4>1, <4>2
      <3>2. CASE j # k
        <4>1. bucket'[j] = bucket[j] /\ bucket[j] # None
              /\ ~(LimiterOf(j) = LimiterOf(k) /\ Stale(j))
          BY <1>2, <2>2, <3>2
        <4>2. bucket[j] \in Bucket /\ bucket[j].last \in Nat /\ bucket[j].last <= now
          BY <1>0, <4>1 DEF IInv, BucketsOK, Bucket
        <4>3. /\ lastSweep[LimiterOf(j)] < bucket[j].last + Minute
              /\ bucket[j].last < lastSweep[LimiterOf(j)] + Minute
              /\ lastSweep[LimiterOf(j)] \in Nat
          BY <1>0, <3>0, <4>1 DEF IInv, SweepsOK
        <4>4. CASE LimiterOf(j) = LimiterOf(k) /\ SweepDue(LimiterOf(k))
          <5>1. now - bucket[j].last < Minute
            BY <1>0, <3>0, <4>1, <4>2, <4>4 DEF Stale
          <5>2. lastSweep'[LimiterOf(j)] = now
            BY <1>0, <3>0, <4>4 DEF Use
          <5> QED
            BY <1>0, <3>0, <4>1, <4>2, <5>1, <5>2
        <4>5. CASE ~(LimiterOf(j) = LimiterOf(k) /\ SweepDue(LimiterOf(k)))
          <5>1. lastSweep'[LimiterOf(j)] = lastSweep[LimiterOf(j)]
            BY <1>0, <3>0, <4>5 DEF Use
          <5> QED
            BY <4>1, <4>3, <5>1
        <4> QED
          BY <4>4, <4>5
      <3> QED
        BY <3>1, <3>2
    <2> QED
      BY <2>1, <2>2, <1>0 DEF SweepsOK
  <1>7. Level(k)' = u
    <2>1. (now - now) * Limit(k) = 0
      BY <1>0, LimitNat
    <2>2. Level(k)' = Least(Capacity(k), u + (now - now) * Limit(k))
      BY <1>1, <1>2 DEF Level, Held, Refilled, Sum, Capacity, Limit
    <2> QED
      BY <2>1, <2>2, LimitNat DEF Least
  <1>8. ASSUME NEW j \in Keys \ {k} PROVE Level(j)' = Level(j)
    <2>1. CASE LimiterOf(j) = LimiterOf(k) /\ Stale(j)
      <3>1. Level(j)' = Capacity(j)
        BY <1>2, <2>1 DEF Level, Held, Capacity, Limit
      <3> QED
        BY <3>1, <2>1, StaleIsFull DEF IInv
    <2>2. CASE ~(LimiterOf(j) = LimiterOf(k) /\ Stale(j))
      <3>1. bucket'[j] = bucket[j]
        BY <1>2, <2>2
      <3> QED
        BY <3>1 DEF Level, Held, Refilled, Sum, Capacity, Limit
    <2> QED
      BY <2>1, <2>2
  <1> QED
    BY <1>2, <1>3, <1>4, <1>5, <1>6, <1>7, <1>8

\* A tick brings Limit(k) units, up to the capacity.
LEMMA TickFills ==
    ASSUME IInv, Tick, NEW k \in Keys
    PROVE  Level(k)' = Least(Capacity(k), Level(k) + Limit(k))
  <1>0. now \in Nat /\ now' = now + 1 /\ bucket' = bucket
    BY DEF IInv, TypeOK, Tick
  <1>1. CASE bucket[k] = None
    BY <1>0, <1>1, LimitNat DEF Level, Held, Capacity, Limit, Least
  <1>2. CASE bucket[k] # None
    <2> DEFINE t == bucket[k].tokens
               d == now - bucket[k].last
    <2>1. t \in Nat /\ d \in Nat /\ d * Limit(k) \in Nat /\ bucket[k].last \in Nat
      BY <1>2, RefillNat DEF IInv
    <2>2. (d + 1) * Limit(k) = d * Limit(k) + Limit(k)
      <3>1. (d + 1) * Limit(k) = d * Limit(k) + 1 * Limit(k)
        BY <2>1, LimitNat, Distributes
      <3> QED
        BY <3>1, LimitNat
    <2>3. now + 1 - bucket[k].last = d + 1
      BY <1>0, <2>1
    <2>4. Level(k)' = Least(Capacity(k), t + (d + 1) * Limit(k))
      <3>1. Level(k)' = Least(Capacity(k), t + (now' - bucket[k].last) * Limit(k))
        BY <1>0, <1>2 DEF Level, Held, Refilled, Sum, Capacity, Limit
      <3>2. now' - bucket[k].last = d + 1
        BY <1>0, <2>1, <2>3
      <3> QED
        BY <3>1, <3>2
    <2>5. Level(k) = Least(Capacity(k), t + d * Limit(k))
      BY <1>2 DEF Level, Held, Refilled, Sum
    <2> HIDE DEF t, d
    <2> QED
      BY <2>1, <2>2, <2>4, <2>5, LimitNat DEF Least
  <1> QED
    BY <1>1, <1>2
-----------------------------------------------------------------------------
(* The invariant. *)

LEMMA IInit == Init => IInv
  <1> SUFFICES ASSUME Init PROVE IInv
    OBVIOUS
  <1>0. /\ now = 0 /\ bucket = [k \in Keys |-> None]
        /\ lastSweep = [l \in Limiters |-> 0]
    BY DEF Init
  <1>1. PICK k \in Keys : watch = [key |-> k, since |-> 0, seen |-> 0, promise |-> None]
    BY DEF Init
  <1>2. TypeOK
    BY <1>0, <1>1 DEF TypeOK, Watch
  <1>3. BucketsOK /\ SweepsOK
    BY <1>0 DEF BucketsOK, SweepsOK
  <1>4. WindowOK
    <2>1. /\ Level(k) = Capacity(k) /\ Capacity(k) \in Nat
          /\ 0 * Minute = 0 /\ (0 - 0) * Limit(k) = 0
      BY <1>0, LimitNat DEF Level, Held
    <2> QED
      BY <1>0, <1>1, <2>1 DEF WindowOK
  <1> QED
    BY <1>1, <1>2, <1>3, <1>4 DEF IInv, PromiseOK

LEMMA WatchFields ==
    ASSUME NEW x \in Watch, NEW y \in Nat \union {None}
    PROVE  /\ x.key \in Keys /\ x.since \in Nat /\ x.seen \in Nat
           /\ x.promise \in Nat \union {None}
           /\ [x EXCEPT !.promise = y]
                 = [key |-> x.key, since |-> x.since, seen |-> x.seen, promise |-> y]
  <1>1. x = [key |-> x.key, since |-> x.since, seen |-> x.seen, promise |-> x.promise]
    BY DEF Watch
  <1>2. /\ x.key \in Keys /\ x.since \in Nat /\ x.seen \in Nat
        /\ x.promise \in Nat \union {None}
    BY DEF Watch
  <1>3. [x EXCEPT !.promise = y]
            = [key |-> x.key, since |-> x.since, seen |-> x.seen, promise |-> y]
    BY <1>1
  <1> QED
    BY <1>2, <1>3

LEMMA WatchType ==
    ASSUME IInv
    PROVE  /\ watch \in Watch /\ watch.key \in Keys
           /\ watch.since \in Nat /\ watch.seen \in Nat
           /\ watch.promise \in Nat \union {None}
           /\ now \in Nat
           /\ watch.seen * Minute \in Nat
           /\ (now - watch.since) * Limit(watch.key) \in Nat
           /\ Level(watch.key) \in Nat
  <1>1. /\ watch \in Watch /\ watch.key \in Keys
        /\ watch.since \in Nat /\ watch.seen \in Nat
        /\ watch.promise \in Nat \union {None}
        /\ now \in Nat /\ watch.since <= now
    BY DEF IInv, TypeOK, Watch, WindowOK
  <1>2. Minute \in Nat /\ Limit(watch.key) \in Nat /\ now - watch.since \in Nat
    BY <1>1, LimitNat
  <1>3. watch.seen * Minute \in Nat
    BY <1>1, <1>2
  <1>4. (now - watch.since) * Limit(watch.key) \in Nat
    BY <1>2
  <1>5. Level(watch.key) \in Nat
    BY <1>1, LevelNat DEF IInv
  <1> QED
    BY <1>1, <1>3, <1>4, <1>5

\* A request passes: its token is one more in the window and one less in the
\* bucket.
LEMMA PassKeeps ==
    ASSUME IInv, NEW op \in Ops, NEW c \in Clients, Pass(op, c) PROVE IInv'
  <1>w. PICK w \in Keys : w = watch.key
    BY WatchType
  <1> DEFINE k == KeyOf(op, c)
             u == Found(k) - Minute
  <1>0. k \in Keys /\ Minute \in Nat /\ now' = now /\ Minute > 0
    BY KeyInKeys, LimitNat DEF Pass
  <1>1. /\ Found(k) = Level(k) /\ Found(k) >= Minute
        /\ u \in Nat /\ u <= Capacity(k) /\ \E short \in BOOLEAN : Use(k, u, short)
    BY PassedHasToken
  <1> HIDE DEF u
  <1>s. PICK short \in BOOLEAN : Use(k, u, short)
    BY <1>1
  <1>2. /\ bucket' \in [Keys -> Bucket \union {None}]
        /\ lastSweep' \in [Limiters -> Nat]
        /\ BucketsOK' /\ SweepsOK'
        /\ Level(k)' = u
        /\ \A j \in Keys \ {k} : Level(j)' = Level(j)
        /\ \A j \in Keys \ {k} : bucket'[j] = bucket[j] \/ bucket'[j] = None
    <2>. HIDE DEF k
    <2>1. k \in Keys /\ now' = now /\ u \in Nat /\ u <= Capacity(k)
      BY <1>0, <1>1
    <2>. QED BY <1>s, <2>1, UseKeeps
  <1>3. w \in Keys /\ Limit(w) \in Nat /\ Capacity(w) \in Nat
    BY <1>w, WatchType, LimitNat
  <1>4. CASE w = k
    <2>1. watch' = [key |-> w, since |-> watch.since, seen |-> watch.seen + 1,
                    promise |-> None]
      BY <1>w, <1>4 DEF Pass
    <2>2. /\ watch' \in Watch /\ watch'.key = w /\ watch'.since = watch.since
          /\ watch'.seen = watch.seen + 1 /\ watch'.promise = None
      <3>1. watch \in Watch
        BY WatchType
      <3>2. watch.since \in Nat /\ watch.seen \in Nat
        BY <3>1, WatchFields
      <3>3. watch.seen + 1 \in Nat
        BY <3>2
      <3> QED
        BY <2>1, <3>2, <3>3 DEF Watch
    <2>3. (watch.seen + 1) * Minute = watch.seen * Minute + Minute
      <3>1. (watch.seen + 1) * Minute = watch.seen * Minute + 1 * Minute
        BY <1>w, <1>0, WatchType, Distributes
      <3> QED
        BY <1>w, <3>1, <1>0
    <2>4. watch.seen * Minute + Minute + (Level(k) - Minute)
             <= Capacity(w) + (now - watch.since) * Limit(w)
      <3>1. watch.seen * Minute + Level(w) <= Capacity(w) + (now - watch.since) * Limit(w)
        BY <1>w DEF IInv, WindowOK
      <3>2. watch.seen * Minute \in Nat /\ Level(k) \in Nat
        BY <1>w, <1>4, WatchType
      <3> QED
        BY <1>w, <1>0, <1>4, <3>1, <3>2
    <2>5. WindowOK'
      <3>1. Capacity(w)' = Capacity(w) /\ Limit(w)' = Limit(w)
        BY DEF Capacity, Limit
      <3>2. Level(w)' = Level(k) - Minute
        BY <1>w, <1>1, <1>2, <1>4 DEF u
      <3>3. watch'.seen * Minute + Level(w)' <= Capacity(w) + (now' - watch'.since) * Limit(w)
        BY <1>w, <1>0, <2>2, <2>3, <2>4, <3>2
      <3>4. watch'.since <= now'
        BY <1>w, <1>0, <2>2 DEF IInv, WindowOK
      <3> QED
        BY <1>w, <2>2, <3>1, <3>3, <3>4 DEF WindowOK
    <2>6. PromiseOK'
      BY <1>w, <2>2 DEF PromiseOK
    <2> QED
      BY <1>w, <1>0, <1>2, <2>2, <2>5, <2>6 DEF IInv, TypeOK
  <1>5. CASE w # k
    <2>1. watch' = watch /\ Level(w)' = Level(w)
      BY <1>w, <1>2, <1>3, <1>5 DEF Pass
    <2>2. WindowOK'
      BY <1>w, <1>0, <2>1 DEF IInv, WindowOK, Capacity, Limit
    <2>3. PromiseOK'
      BY <1>w, <1>0, <1>2, <1>3, <1>5, <2>1 DEF IInv, PromiseOK, Sum, Limit
    <2> QED
      BY <1>w, <1>0, <1>2, <2>1, <2>2, <2>3 DEF IInv, TypeOK
  <1> QED
    BY <1>w, <1>4, <1>5

\* A request is refused with a bucket that has refilled to a token at most.
LEMMA RefusedIsShort ==
    ASSUME IInv, NEW k \in Keys, Limit(k) # 0, NEW short \in FoundShorts(k),
           ~Enough(Found(k), short)
    PROVE  /\ bucket[k] # None /\ short \in BOOLEAN
           /\ Found(k) = Sum(k, bucket[k]) /\ Found(k) = Level(k)
           /\ Found(k) \in Nat /\ Found(k) <= Capacity(k)
           /\ Found(k) <= Minute
           /\ Found(k) = Minute => short = TRUE
  <1>1. /\ Found(k) = Level(k) /\ Level(k) \in Nat /\ Level(k) <= Capacity(k)
        /\ Capacity(k) \in Nat /\ Minute \in Nat /\ Capacity(k) >= Minute
    BY FoundIsLevel, LevelNat, LimitNat DEF IInv
  <1>2. Found(k) <= Minute /\ (short = FALSE => Found(k) # Minute)
    BY <1>1 DEF Enough
  <1>3. bucket[k] # None /\ ~Stale(k)
    <2>1. ASSUME bucket[k] = None \/ Stale(k) PROVE FALSE
      <3>1. short = FALSE /\ Found(k) = Capacity(k)
        BY <2>1 DEF FoundShorts, Found, Level, Held
      <3>. QED BY <1>1, <3>1 DEF Enough
    <2>. QED BY <2>1
  <1>4. /\ bucket[k] \in Bucket /\ bucket[k].tokens \in Nat /\ bucket[k].tokens <= Capacity(k)
        /\ (now - bucket[k].last) * Limit(k) \in Nat
    BY <1>3, RefillNat DEF IInv, BucketsOK
  <1>5. Sum(k, bucket[k]) \in Nat /\ Level(k) = Least(Capacity(k), Sum(k, bucket[k]))
    BY <1>3, <1>4 DEF Sum, Level, Held, Refilled, Sum
  <1>6. short \in Shorts(k, bucket[k])
    BY <1>3 DEF FoundShorts
  <1>7. short \in BOOLEAN
    BY <1>4, <1>6 DEF Shorts, Bucket
  <1>8. Sum(k, bucket[k]) <= Capacity(k)
    <2>1. ASSUME Sum(k, bucket[k]) > Capacity(k) PROVE FALSE
      <3>1. now # bucket[k].last
        <4>1. ASSUME now = bucket[k].last PROVE FALSE
          <5>1. (now - bucket[k].last) * Limit(k) = 0
            BY <4>1, <1>4, LimitNat DEF Bucket
          <5>. QED BY <1>1, <1>4, <2>1, <5>1 DEF Sum
        <4>. QED BY <4>1
      <3>2. short = FALSE
        <4>1. ~(Sum(k, bucket[k]) <= Capacity(k))
          BY <1>1, <1>5, <2>1
        <4>2. Shorts(k, bucket[k]) = {FALSE}
          BY <3>1, <4>1, Zenon DEF Shorts
        <4>. QED BY <1>6, <4>2
      <3>. QED BY <1>1, <1>5, <2>1, <3>2 DEF Enough, Least
    <2>. QED BY <1>1, <1>5, <2>1
  <1>. QED BY <1>1, <1>2, <1>3, <1>5, <1>7, <1>8 DEF Least

\* The seconds that a refusal tells cover the wait, and a second less does not.
LEMMA RetryRoundsUp ==
    ASSUME NEW wait \in Nat
    PROVE  /\ RetryAfter(wait) \in Nat \ {0} /\ Second * RetryAfter(wait) \in Nat
           /\ Second * RetryAfter(wait) >= wait /\ Second * RetryAfter(wait) >= Second
           /\ \/ Second * RetryAfter(wait) - Second < wait
              \/ Second * RetryAfter(wait) = Second
  <1>0. Second \in Nat /\ Second > 0
    BY RateLimitAssumption
  <1>1. CASE wait = 0
    <2>1. RetryAfter(wait) = 1 /\ Second * 1 = Second
      BY <1>0, <1>1 DEF RetryAfter
    <2>. QED BY <1>0, <1>1, <2>1
  <1>2. CASE wait # 0
    <2>. DEFINE a == wait + Second - 1
                q == a \div Second
    <2>1. RetryAfter(wait) = q /\ a \in Nat /\ a >= Second
      BY <1>0, <1>2 DEF RetryAfter
    <2>2. a = Second * q + (a % Second) /\ a % Second \in 0 .. (Second - 1) /\ q \in Nat
      <3>. HIDE DEF a
      <3>. QED BY <1>0, <2>1
    <2>3. a = wait + Second - 1
      OBVIOUS
    <2>. HIDE DEF a, q
    <2>4. Second * q \in Nat
      BY <1>0, <2>2
    <2>5. Second * q >= wait /\ Second * q <= a
      BY <1>0, <2>1, <2>2, <2>3, <2>4
    <2>6. q # 0
      <3>1. q = 0 => Second * q = 0
        BY <1>0
      <3>. QED BY <1>2, <2>5, <3>1
    <2>7. 1 * Second <= q * Second /\ q * Second = Second * q /\ 1 * Second = Second
      <3>1. 1 * Second <= q * Second
        BY <1>0, <2>2, <2>6, Monotone
      <3>. QED BY <1>0, <2>2, <3>1
    <2>. QED BY <1>0, <2>1, <2>2, <2>3, <2>4, <2>5, <2>6, <2>7
  <1>. QED BY <1>1, <1>2

\* In the wait a token refills but for two ticks; in a second less it does not,
\* if that is any time at all.
LEMMA WaitIsRight ==
    ASSUME NEW k \in Keys, Limit(k) # 0, NEW u \in Nat, u <= Minute, NEW wait \in Waits(k, u)
    PROVE  /\ wait \in Nat
           /\ u + (Second * RetryAfter(wait) + 2) * Limit(k) > Minute
           /\ \/ u + (Second * RetryAfter(wait) - Second) * Limit(k) < Minute
              \/ Second * RetryAfter(wait) = Second
  <1>. DEFINE n == Limit(k)
              s == Second * RetryAfter(wait)
  <1>0. /\ n \in Nat /\ n > 0 /\ Minute \in Nat /\ Second \in Nat
        /\ wait \in Nat /\ wait * n <= Minute - u /\ Minute - u <= (wait + 1) * n
    BY LimitNat, RateLimitAssumption DEF Waits
  <1>1. s \in Nat /\ s >= wait /\ (s - Second < wait \/ s = Second)
    BY <1>0, RetryRoundsUp
  <1>. HIDE DEF n, s
  <1>2. (wait + 1) * n \in Nat /\ (s + 2) * n = (s + 1) * n + n /\ (s + 1) * n \in Int
    <2>1. ((s + 1) + 1) * n = (s + 1) * n + 1 * n /\ (s + 1) * n \in Int
      BY <1>0, <1>1, Distributes
    <2>2. (s + 1) + 1 = s + 2 /\ 1 * n = n
      BY <1>0, <1>1
    <2>3. (wait + 1) * n \in Nat
      BY <1>0
    <2>. QED BY <2>1, <2>2, <2>3
  <1>3. (wait + 1) * n <= (s + 1) * n
    <2>1. wait + 1 \in Int /\ s + 1 \in Int /\ wait + 1 <= s + 1
      BY <1>0, <1>1
    <2>. QED BY <1>0, <2>1, Monotone
  <1>4. u + (s + 2) * n > Minute
    BY <1>0, <1>2, <1>3
  <1>5. ASSUME s - Second < wait PROVE u + (s - Second) * n < Minute
    <2>. DEFINE e == s - Second
    <2>1. e \in Int /\ e + 1 <= wait
      BY <1>0, <1>1, <1>5
    <2>. HIDE DEF e
    <2>2. (e + 1) * n = e * n + 1 * n /\ e * n \in Int
      BY <1>0, <2>1, Distributes
    <2>3. (e + 1) * n <= wait * n
      BY <1>0, <2>1, Monotone
    <2>4. u + e * n < Minute
      BY <1>0, <2>2, <2>3
    <2>. QED BY <2>4 DEF e
  <1>. QED BY <1>0, <1>1, <1>4, <1>5 DEF n, s

\* What a refusal does: it leaves what there was, and the promise stays, or is
\* made.
LEMMA RefuseSteps ==
    ASSUME IInv, NEW op \in Ops, NEW c \in Clients, Refuse(op, c), NEW k, k = KeyOf(op, c)
    PROVE  /\ k \in Keys /\ Limit(k) # 0 /\ now' = now
           /\ \E short \in FoundShorts(k) : ~Enough(Found(k), short) /\ Use(k, Found(k), short)
           /\ \/ watch' = watch
              \/ \E wait \in Waits(k, Found(k)) :
                    /\ watch.key = k
                    /\ watch' = [watch EXCEPT !.promise = now + Second * RetryAfter(wait)]
  <1>1. k \in Keys /\ Limit(k) # 0 /\ now' = now
    BY KeyInKeys DEF Refuse, Limited
  <1>. QED BY <1>1 DEF Refuse

LEMMA RefuseKeeps ==
    ASSUME IInv, NEW op \in Ops, NEW c \in Clients, Refuse(op, c) PROVE IInv'
  <1>w. PICK w \in Keys : w = watch.key
    BY WatchType
  <1>k. PICK k \in Keys : k = KeyOf(op, c)
    BY KeyInKeys
  <1>0. Minute \in Nat /\ now' = now /\ now \in Nat /\ Limit(k) # 0 /\ Limit(k) \in Nat
    BY <1>k, LimitNat, WatchType, RefuseSteps
  <1>s. PICK short \in FoundShorts(k) : ~Enough(Found(k), short) /\ Use(k, Found(k), short)
    BY <1>k, RefuseSteps
  <1>1. /\ bucket[k] # None /\ short \in BOOLEAN
        /\ Found(k) = Sum(k, bucket[k]) /\ Found(k) = Level(k)
        /\ Found(k) \in Nat /\ Found(k) <= Capacity(k) /\ Found(k) <= Minute
    BY <1>0, <1>s, RefusedIsShort
  <1>2. /\ bucket' \in [Keys -> Bucket \union {None}]
        /\ lastSweep' \in [Limiters -> Nat]
        /\ BucketsOK' /\ SweepsOK'
        /\ \A j \in Keys : Level(j)' = Level(j)
        /\ bucket'[k] = [tokens |-> Found(k), last |-> now, short |-> short]
        /\ \A j \in Keys \ {k} : bucket'[j] = bucket[j] \/ bucket'[j] = None
    BY <1>0, <1>1, <1>s, UseKeeps
  <1>3. w \in Keys /\ Level(w)' = Level(w)
    BY <1>w, <1>2, WatchType
  <1>r. Sum(k, bucket[k])' = Sum(k, bucket[k])
    <2>1. Sum(k, bucket[k])' = Found(k) + (now - now) * Limit(k)
      BY <1>0, <1>2 DEF Sum, Limit
    <2>2. (now - now) * Limit(k) = 0
      BY <1>0
    <2>. QED BY <1>1, <2>1, <2>2
  <1>4. CASE watch' = watch
    <2>1. WindowOK'
      BY <1>w, <1>0, <1>3, <1>4 DEF IInv, WindowOK, Capacity, Limit
    <2>2. PromiseOK'
      <3>1. CASE w = k
        <4>1. Limit(k)' = Limit(k)
          BY DEF Limit
        <4>. QED BY <1>w, <1>0, <1>1, <1>4, <1>r, <3>1, <4>1 DEF IInv, PromiseOK
      <3>2. CASE w # k
        BY <1>w, <1>0, <1>2, <1>4, <3>2 DEF IInv, PromiseOK, Sum, Limit
      <3>. QED BY <3>1, <3>2
    <2> QED
      BY <1>w, <1>0, <1>2, <1>4, <2>1, <2>2 DEF IInv, TypeOK
  <1>5. ASSUME NEW wait \in Waits(k, Found(k)), w = k,
               watch' = [watch EXCEPT !.promise = now + Second * RetryAfter(wait)]
        PROVE  IInv'
    <2>. DEFINE s == Second * RetryAfter(wait)
    <2>1. wait \in Nat /\ Found(k) + (s + 2) * Limit(k) > Minute
      BY <1>0, <1>1, WaitIsRight
    <2>2. s \in Nat
      BY <2>1, RetryRoundsUp
    <2> HIDE DEF s
    <2>3. /\ watch' \in Watch /\ watch'.key = w /\ watch'.since = watch.since
          /\ watch'.seen = watch.seen /\ watch'.promise = now + s
      <3>1. watch \in Watch /\ now + s \in Nat \union {None}
        BY <1>0, <2>2, WatchType
      <3>2. watch' = [key |-> w, since |-> watch.since, seen |-> watch.seen,
                      promise |-> now + s]
        BY <1>w, <1>5, <3>1, WatchFields DEF s
      <3>3. watch.since \in Nat /\ watch.seen \in Nat
        BY <3>1, WatchFields
      <3> QED
        BY <3>1, <3>2, <3>3 DEF Watch
    <2>4. WindowOK'
      BY <1>w, <1>0, <1>3, <2>3 DEF IInv, WindowOK, Capacity, Limit
    <2>5. PromiseOK'
      <3>1. watch'.promise + 2 - now' = s + 2
        BY <1>0, <2>2, <2>3
      <3>2. Limit(k)' = Limit(k)
        BY DEF Limit
      <3> QED
        BY <1>w, <1>0, <1>1, <1>5, <1>r, <2>1, <2>3, <3>1, <3>2 DEF PromiseOK
    <2> QED
      BY <1>w, <1>0, <1>2, <2>3, <2>4, <2>5 DEF IInv, TypeOK
  <1> QED
    BY <1>w, <1>k, <1>4, <1>5, RefuseSteps

\* What a tick brings to the bucket it also adds to the bound.
LEMMA TickKeeps == ASSUME IInv, Tick PROVE IInv'
  <1>w. PICK w \in Keys : w = watch.key
    BY WatchType
  <1> DEFINE n == Limit(w)
  <1>0. /\ now \in Nat /\ now' = now + 1
        /\ bucket' = bucket /\ lastSweep' = lastSweep /\ watch' = watch
    BY DEF IInv, TypeOK, Tick
  <1>1. TypeOK'
    BY <1>w, <1>0 DEF IInv, TypeOK
  <1>2. BucketsOK' /\ SweepsOK'
    BY <1>w, <1>0 DEF IInv, TypeOK, Bucket, BucketsOK, SweepsOK, Capacity, Limit
  <1>3. /\ w \in Keys /\ n \in Nat /\ Capacity(w) \in Nat /\ Minute \in Nat /\ Level(w) \in Nat
        /\ Level(w) <= Capacity(w)
        /\ (n # 0 => Capacity(w) >= Minute)
        /\ Level(w)' = Least(Capacity(w), Level(w) + n)
        /\ Limit(w)' = n /\ Capacity(w)' = Capacity(w)
    <2>1. Limit(w)' = n /\ Capacity(w)' = Capacity(w)
      BY DEF Limit, Capacity
    <2> QED
      BY <1>w, <2>1, WatchType, LimitNat, LevelNat, TickFills DEF IInv
  <1>4. WindowOK'
    <2> DEFINE d == now - watch.since
               s == watch.seen * Minute
    <2>1. d \in Nat /\ d * n \in Nat /\ s \in Nat /\ watch.since <= now
      BY <1>w, WatchType DEF IInv, WindowOK
    <2>2. s + Level(w) <= Capacity(w) + d * n
      BY <1>w DEF IInv, WindowOK
    <2>3. (d + 1) * n = d * n + n
      <3>1. (d + 1) * n = d * n + 1 * n
        BY <1>w, <1>3, <2>1, Distributes
      <3> QED
        BY <1>w, <3>1, <1>3
    <2>4. now' - watch'.since = d + 1
      BY <1>w, <1>0, <2>1, WatchType
    <2> HIDE DEF d, s, n
    <2>5. s + Level(w)' <= Capacity(w) + (d + 1) * n
      BY <1>w, <1>3, <2>1, <2>2, <2>3 DEF Least
    <2>6. watch'.seen * Minute = s /\ watch'.since <= now'
      BY <1>w, <1>0, <2>1, WatchType DEF s
    <2>7. watch'.seen * Minute + Level(w)' <= Capacity(w) + (now' - watch'.since) * n
      BY <1>w, <2>4, <2>5, <2>6
    <2> QED
      BY <1>w, <1>0, <1>3, <2>6, <2>7 DEF WindowOK, n
  <1>5. PromiseOK'
    <2>. DEFINE p == watch.promise
                t == bucket[w].tokens
                d == now - bucket[w].last
                e == p + 2 - now
    <2>0. p # None => n # 0
      BY <1>w DEF IInv, PromiseOK
    <2>1. SUFFICES ASSUME p # None, bucket[w] # None
                   PROVE  (t + (now' - bucket[w].last) * n) + (p + 2 - now') * n > Minute
      BY <1>w, <1>0, <1>3, <2>0 DEF PromiseOK, Sum
    <2>2. p \in Nat /\ n # 0 /\ Sum(w, bucket[w]) + e * n > Minute
      BY <1>w, <2>1, WatchType DEF IInv, PromiseOK
    <2>3. t \in Nat /\ d \in Nat /\ d * n \in Nat /\ bucket[w].last \in Nat
      BY <2>1, RefillNat DEF IInv
    <2>4. Sum(w, bucket[w]) = t + d * n /\ now' - bucket[w].last = d + 1
      BY <1>0, <2>3 DEF Sum
    <2>5. e \in Int /\ p + 2 - now' = e - 1
      BY <1>0, <2>2
    <2>. HIDE DEF t, d, e, n
    <2>6. (d + 1) * n = d * n + n /\ d * n \in Int
      <3>1. (d + 1) * n = d * n + 1 * n /\ d * n \in Int
        BY <1>3, <2>3, Distributes
      <3>. QED BY <1>3, <3>1
    <2>7. e * n = (e - 1) * n + n /\ (e - 1) * n \in Int
      <3>1. ((e - 1) + 1) * n = (e - 1) * n + 1 * n /\ (e - 1) * n \in Int
        BY <1>3, <2>5, Distributes
      <3>2. (e - 1) + 1 = e
        BY <2>5
      <3>. QED BY <1>3, <3>1, <3>2
    <2>. QED BY <1>3, <2>2, <2>3, <2>4, <2>5, <2>6, <2>7
  <1> QED
    BY <1>w, <1>1, <1>2, <1>4, <1>5 DEF IInv

LEMMA ObserveKeeps == ASSUME IInv, NEW k \in Keys, Observe(k) PROVE IInv'
  <1>0. /\ now \in Nat /\ UNCHANGED <<now, bucket, lastSweep>>
        /\ watch' = [key |-> k, since |-> now, seen |-> 0, promise |-> None]
    BY DEF IInv, TypeOK, Observe
  <1>1. TypeOK'
    BY <1>0 DEF IInv, TypeOK, Watch
  <1>2. BucketsOK' /\ SweepsOK'
    BY <1>0 DEF IInv, BucketsOK, SweepsOK, Capacity, Limit
  <1>3. WindowOK'
    <2>1. Level(k) \in Nat /\ Level(k) <= Capacity(k) /\ Capacity(k) \in Nat
      BY LevelNat, LimitNat DEF IInv
    <2>2. 0 * Minute = 0 /\ (now - now) * Limit(k) = 0
      BY <1>0, LimitNat
    <2>3. Level(k)' = Level(k) /\ Capacity(k)' = Capacity(k) /\ Limit(k)' = Limit(k)
      BY <1>0 DEF Level, Held, Refilled, Sum, Capacity, Limit
    <2> QED
      BY <1>0, <2>1, <2>2, <2>3 DEF WindowOK
  <1> QED
    BY <1>0, <1>1, <1>2, <1>3 DEF IInv, PromiseOK

LEMMA INext == ASSUME IInv, [Next]_vars PROVE IInv'
  <1>1. CASE UNCHANGED vars
    BY <1>1 DEF vars, IInv, TypeOK, BucketsOK, SweepsOK, WindowOK, PromiseOK, Level, Held,
         Refilled, Sum, Capacity, Limit
  <1> QED
    BY <1>1, PassKeeps, RefuseKeeps, TickKeeps, ObserveKeeps DEF Next

LEMMA Invariance == Spec => []IInv
  <1>1. IInv /\ [Next]_vars => IInv'
    BY INext
  <1> QED
    BY <1>1, IInit, PTL DEF Spec

\* The buckets, the sweeps and the clock keep their types.
THEOREM TypeCorrect == Spec => []TypeOK
  BY Invariance, PTL DEF IInv

\* In any window a key gets no more than a full bucket and what refills.
THEOREM WindowBoundHolds == Spec => []WindowBound
  <1>1. IInv => WindowBound
    <2> SUFFICES ASSUME IInv PROVE WindowBound
      OBVIOUS
    <2>1. Capacity(watch.key) \in Nat
      BY WatchType, LimitNat
    <2> QED
      BY <2>1, WatchType DEF IInv, WindowOK, WindowBound
  <1> QED
    BY <1>1, Invariance, PTL

-----------------------------------------------------------------------------
(* A wait is as long as it need be. *)

\* The float of k is just below a token, and stays so as long as the clock does.
ShortNow(k) == bucket[k] # None /\ bucket[k].last = now /\ bucket[k].short = TRUE

\* Until a second before it falls due there is no token, unless one passes first.
TightOK ==
    watch.promise # None /\ now + Second <= watch.promise =>
        \/ Level(watch.key) + (watch.promise - Second - now) * Limit(watch.key) < Minute
        \/ /\ watch.promise = now + Second
           /\ Level(watch.key) = Minute
           /\ ShortNow(watch.key)

LEMMA ShortStays ==
    ASSUME IInv, NEW k \in Keys, ShortNow(k) PROVE ~Stale(k) /\ FoundShorts(k) = {TRUE}
  <1>1. /\ bucket[k] \in Bucket /\ bucket[k] # None /\ now - bucket[k].last = 0
        /\ bucket[k].last = now /\ Minute \in Nat /\ Minute > 0
    BY LimitNat DEF ShortNow, IInv, TypeOK
  <1>2. ~Stale(k)
    BY <1>1 DEF Stale
  <1>3. bucket[k].short = TRUE
    BY <1>1 DEF ShortNow, Bucket
  <1>. QED BY <1>1, <1>2, <1>3 DEF FoundShorts, Shorts

\* What other keys do leaves the observed one as tight as it was.
LEMMA OthersKeepTight ==
    ASSUME IInv, TightOK, NEW w \in Keys, w = watch.key, watch' = watch, now' = now,
           Level(w)' = Level(w),
           bucket'[w] = bucket[w] \/ (bucket'[w] = None /\ Stale(w))
    PROVE  TightOK'
  <1>1. ASSUME ShortNow(w) PROVE ShortNow(w)'
    BY <1>1, ShortStays DEF ShortNow
  <1>. QED BY <1>1 DEF TightOK, Limit

LEMMA TightPass ==
    ASSUME IInv, TightOK, NEW op \in Ops, NEW c \in Clients, Pass(op, c) PROVE TightOK'
  <1>w. PICK w \in Keys : w = watch.key
    BY WatchType
  <1>k. PICK k \in Keys : k = KeyOf(op, c)
    BY KeyInKeys
  <1>1. CASE w = k
    BY <1>w, <1>k, <1>1 DEF Pass, TightOK
  <1>2. CASE w # k
    <2>1. PICK short \in BOOLEAN :
             /\ Found(k) - Minute \in Nat /\ Found(k) - Minute <= Capacity(k)
             /\ Use(k, Found(k) - Minute, short)
      BY <1>k, PassedHasToken
    <2>2. watch' = watch /\ now' = now
      BY <1>w, <1>k, <1>2 DEF Pass
    <2>. DEFINE u == Found(k) - Minute
    <2>3. u \in Nat /\ u <= Capacity(k) /\ Use(k, u, short)
      BY <2>1
    <2>. HIDE DEF u
    <2>4. Level(w)' = Level(w) /\ (bucket'[w] = bucket[w] \/ (bucket'[w] = None /\ Stale(w)))
      BY <1>2, <2>2, <2>3, UseKeeps
    <2>. QED BY <1>w, <2>2, <2>4, OthersKeepTight
  <1>. QED BY <1>1, <1>2

LEMMA TightRefuse ==
    ASSUME IInv, TightOK, NEW op \in Ops, NEW c \in Clients, Refuse(op, c) PROVE TightOK'
  <1>w. PICK w \in Keys : w = watch.key
    BY WatchType
  <1>k. PICK k \in Keys : k = KeyOf(op, c)
    BY KeyInKeys
  <1>0. /\ now' = now /\ now \in Nat /\ Limit(k) # 0 /\ Limit(k) \in Nat
        /\ Minute \in Nat /\ Second \in Nat
    BY <1>k, LimitNat, WatchType, RefuseSteps, RateLimitAssumption
  <1>s. PICK short \in FoundShorts(k) : ~Enough(Found(k), short) /\ Use(k, Found(k), short)
    BY <1>k, RefuseSteps
  <1>1. /\ bucket[k] # None /\ short \in BOOLEAN /\ Found(k) = Level(k)
        /\ Found(k) \in Nat /\ Found(k) <= Capacity(k) /\ Found(k) <= Minute
        /\ Found(k) = Minute => short = TRUE
    BY <1>0, <1>s, RefusedIsShort
  <1>2. /\ \A j \in Keys : Level(j)' = Level(j)
        /\ bucket'[k] = [tokens |-> Found(k), last |-> now, short |-> short]
        /\ \A j \in Keys \ {k} : bucket'[j] = bucket[j] \/ (bucket'[j] = None /\ Stale(j))
    BY <1>0, <1>1, <1>s, UseKeeps
  <1>3. bucket'[k] # None /\ bucket'[k].last = now /\ bucket'[k].short = short
    <2>. DEFINE new == [tokens |-> Found(k), last |-> now, short |-> short]
    <2>1. new \in Bucket /\ new.last = now /\ new.short = short
      BY <1>0, <1>1 DEF Bucket
    <2>2. new # None
      BY <2>1, RateLimitAssumption DEF Bucket
    <2>. HIDE DEF new
    <2>3. bucket'[k] = new
      BY <1>2 DEF new
    <2>. QED BY <2>1, <2>2, <2>3
  <1>4. Found(k) = Minute => ShortNow(k)'
    BY <1>0, <1>1, <1>3, Zenon DEF ShortNow
  <1>5. CASE watch' = watch
    <2>1. CASE w = k
      <3>1. ASSUME ShortNow(k) PROVE short = TRUE
        <4>1. FoundShorts(k) = {TRUE}
          BY <3>1, ShortStays
        <4>. QED BY <1>s, <4>1
      <3>2. ASSUME ShortNow(w) PROVE ShortNow(w)'
        BY <1>0, <1>3, <2>1, <3>1, <3>2, Zenon DEF ShortNow
      <3>. QED BY <1>w, <1>0, <1>2, <1>5, <2>1, <3>2 DEF TightOK, Limit
    <2>2. CASE w # k
      BY <1>w, <1>0, <1>2, <1>5, <2>2, OthersKeepTight
    <2>. QED BY <2>1, <2>2
  <1>6. ASSUME NEW wait \in Waits(k, Found(k)), w = k,
               watch' = [watch EXCEPT !.promise = now + Second * RetryAfter(wait)]
        PROVE  TightOK'
    <2>. DEFINE s == Second * RetryAfter(wait)
    <2>1. /\ wait \in Nat
          /\ Found(k) + (s - Second) * Limit(k) < Minute \/ s = Second
      BY <1>0, <1>1, WaitIsRight
    <2>2. s \in Nat
      BY <2>1, RetryRoundsUp
    <2>3. watch'.key = k /\ watch'.promise = now + s
      <3>1. watch \in Watch /\ now + s \in Nat \union {None}
        BY <1>0, <2>2, WatchType
      <3>. HIDE DEF s
      <3>2. watch' = [key |-> w, since |-> watch.since, seen |-> watch.seen,
                      promise |-> now + s]
        BY <1>w, <1>6, <3>1, WatchFields DEF s
      <3>. QED BY <1>6, <3>2
    <2>. HIDE DEF s
    <2>4. watch'.promise - Second - now' = s - Second
      BY <1>0, <2>2, <2>3
    <2>5. Level(k)' = Found(k) /\ Limit(k)' = Limit(k)
      BY <1>1, <1>2 DEF Limit
    <2>6. CASE Found(k) + (s - Second) * Limit(k) < Minute
      BY <2>3, <2>4, <2>5, <2>6 DEF TightOK
    <2>7. CASE s = Second
      <3>1. (s - Second) * Limit(k) = 0 /\ watch'.promise = now' + Second
        BY <1>0, <2>3, <2>7
      <3>2. CASE Found(k) = Minute
        BY <1>4, <2>3, <2>5, <3>1, <3>2 DEF TightOK
      <3>3. CASE Found(k) # Minute
        <4>1. Found(k) + (s - Second) * Limit(k) < Minute
          BY <1>0, <1>1, <3>1, <3>3
        <4>. QED BY <2>6, <4>1
      <3>. QED BY <3>2, <3>3
    <2>. QED BY <2>1, <2>6, <2>7
  <1>. QED BY <1>w, <1>k, <1>5, <1>6, RefuseSteps

LEMMA TightStep == ASSUME IInv, TightOK, [Next]_vars PROVE TightOK'
  <1>w. PICK w \in Keys : w = watch.key
    BY WatchType
  <1>0. /\ Limit(w) \in Nat /\ Level(w) \in Nat /\ Capacity(w) \in Nat
        /\ now \in Nat /\ watch.promise \in Nat \union {None}
        /\ Second \in Nat /\ Minute \in Nat
    BY <1>w, LimitNat, WatchType, RateLimitAssumption
  <1>2. CASE UNCHANGED vars
    <2>1. Level(w)' = Level(w)
      BY <1>2 DEF vars, Level, Held, Refilled, Sum, Capacity, Limit
    <2>. QED BY <1>w, <1>2, <2>1, OthersKeepTight DEF vars
  <1>3. ASSUME NEW op \in Ops, NEW c \in Clients, Pass(op, c) \/ Refuse(op, c) PROVE TightOK'
    BY <1>3, TightPass, TightRefuse
  <1>5. CASE Tick
    <2>1. now' = now + 1 /\ watch' = watch
      BY <1>5 DEF Tick
    <2>2. SUFFICES ASSUME watch.promise # None, now + 1 + Second <= watch.promise
                   PROVE  Level(w)' + (watch.promise - Second - (now + 1)) * Limit(w) < Minute
      BY <1>w, <2>1 DEF TightOK, Limit
    <2> DEFINE e == watch.promise - Second - (now + 1)
    <2>3. e \in Int /\ watch.promise - Second - now = e + 1
      BY <1>0, <2>2
    <2>4. (e + 1) * Limit(w) = e * Limit(w) + Limit(w) /\ e * Limit(w) \in Int
      <3>1. (e + 1) * Limit(w) = e * Limit(w) + 1 * Limit(w) /\ e * Limit(w) \in Int
        BY <1>0, <2>3, Distributes
      <3> QED
        BY <1>0, <3>1
    <2>5. Level(w) + (e + 1) * Limit(w) < Minute
      BY <1>w, <1>0, <2>2, <2>3 DEF TightOK
    <2>6. Level(w)' <= Level(w) + Limit(w) /\ Level(w)' \in Nat
      BY <1>0, <1>5, TickFills DEF Least
    <2> HIDE DEF e
    <2>7. Level(w)' + e * Limit(w) < Minute
      BY <1>0, <2>4, <2>5, <2>6
    <2> QED
      BY <2>7 DEF e
  <1>6. ASSUME NEW k \in Keys, Observe(k) PROVE TightOK'
    BY <1>6 DEF Observe, TightOK
  <1> QED
    BY <1>2, <1>3, <1>5, <1>6 DEF Next

\* Who waits as long as he was told, and two ticks, is let in however the float
\* was rounded; until a second before he would not have been.
THEOREM RetryAfterKeptHolds == Spec => []RetryAfterKept
  <1>1. Init => TightOK
    BY DEF Init, TightOK
  <1>2. IInv /\ TightOK => RetryAfterKept
    <2> SUFFICES ASSUME IInv, TightOK, NEW k \in Keys, k = watch.key, watch.promise # None,
                        NEW short \in FoundShorts(k)
                 PROVE  /\ now >= watch.promise + 2 => Enough(Found(k), short)
                        /\ now + Second <= watch.promise => ~Enough(Found(k), short)
      BY WatchType DEF RetryAfterKept
    <2> DEFINE n == Limit(k)
               b == bucket[k]
    <2>1. /\ n \in Nat /\ n # 0 /\ Level(k) \in Nat /\ Minute \in Nat
          /\ Second \in Nat /\ now \in Nat /\ watch.promise \in Nat
          /\ Found(k) = Level(k) /\ short \in BOOLEAN
      BY WatchType, LimitNat, RateLimitAssumption, FoundIsLevel, ShortsBoolean DEF IInv, PromiseOK
    <2>2. ASSUME now >= watch.promise + 2 PROVE Enough(Found(k), short)
      <3>1. SUFFICES ASSUME ~Enough(Found(k), short) PROVE FALSE
        OBVIOUS
      <3>2. b # None /\ Found(k) = Sum(k, b) /\ Found(k) <= Minute /\ Found(k) \in Nat
        BY <2>1, <3>1, RefusedIsShort
      <3>. DEFINE e == watch.promise + 2 - now
      <3>3. Sum(k, b) + e * n > Minute
        BY <3>2 DEF IInv, PromiseOK
      <3>4. e \in Int /\ e <= 0
        BY <2>1, <2>2
      <3>. HIDE DEF e, n
      <3>5. e * n <= 0 * n /\ 0 * n = 0 /\ e * n \in Int
        BY <2>1, <3>4, Monotone
      <3>. QED BY <2>1, <3>2, <3>3, <3>5
    <2>3. ASSUME now + Second <= watch.promise PROVE ~Enough(Found(k), short)
      <3>. DEFINE e == watch.promise - Second - now
      <3>1. e \in Nat
        BY <2>1, <2>3
      <3>2. CASE Level(k) + e * n < Minute
        <4>. HIDE DEF e, n
        <4>1. e * n \in Nat
          BY <2>1, <3>1
        <4>. QED BY <2>1, <3>2, <4>1 DEF Enough
      <3>3. CASE Level(k) = Minute /\ ShortNow(k)
        <4>1. short = TRUE
          BY <3>3, ShortStays
        <4>. QED BY <2>1, <3>3, <4>1 DEF Enough
      <3>. QED BY <2>3, <3>2, <3>3 DEF TightOK
    <2> QED
      BY <2>2, <2>3
  <1> QED
    BY <1>1, <1>2, TightStep, Invariance, PTL DEF Spec

\* Every bucket of a limiter was used within two minutes of every other.
THEOREM IdleForgottenHolds == Spec => []IdleForgotten
  <1>1. IInv => IdleForgotten
    <2> SUFFICES ASSUME IInv, NEW j \in Keys, NEW k \in Keys, LimiterOf(j) = LimiterOf(k),
                        bucket[j] # None, bucket[k] # None
                 PROVE  bucket[j].last - bucket[k].last < 2 * Minute
      BY DEF IdleForgotten
    <2>1. /\ bucket[j].last \in Nat /\ bucket[k].last \in Nat /\ Minute \in Nat
          /\ lastSweep[LimiterOf(k)] \in Nat
      BY LimitNat DEF IInv, TypeOK, Bucket
    <2> QED
      BY <2>1 DEF IInv, SweepsOK
  <1> QED
    BY <1>1, Invariance, PTL

-----------------------------------------------------------------------------
(* The limiter is a bucket for every key that is never forgotten. *)

Levels == [k \in Keys |-> Level(k)]

LEMMA EternalInit == Init => Eternal!BucketInit
  BY DEF Init, Eternal!BucketInit, Eternal!Full, Level, Held, Capacity

LEMMA EternalStep ==
    ASSUME IInv, [Next]_vars PROVE [Eternal!BucketNext]_Levels
  <1>1. ASSUME NEW op \in Ops, NEW c \in Clients, Pass(op, c) PROVE Eternal!BucketNext
    <2> DEFINE k == KeyOf(op, c)
    <2>1. k \in Keys
      BY KeyInKeys
    <2>2. PICK short \in BOOLEAN :
             /\ Found(k) = Level(k) /\ Found(k) >= Minute /\ Found(k) - Minute \in Nat
             /\ Found(k) - Minute <= Capacity(k) /\ Use(k, Found(k) - Minute, short)
      BY <1>1, PassedHasToken
    <2> DEFINE u == Found(k) - Minute
    <2>3. u \in Nat /\ u <= Capacity(k) /\ Use(k, u, short) /\ now' = now /\ u = Level(k) - Minute
      BY <1>1, <2>2 DEF Pass
    <2> HIDE DEF u
    <2>4. Level(k)' = Level(k) - Minute /\ \A j \in Keys \ {k} : Level(j)' = Level(j)
      BY <2>1, <2>3, UseKeeps
    <2>5. Levels' = [Levels EXCEPT ![k] = @ - Minute] /\ Levels[k] >= Minute
      BY <2>1, <2>2, <2>4 DEF Levels
    <2>6. Eternal!Take(k)
      BY <2>5 DEF Eternal!Take, Levels
    <2> QED
      BY <2>1, <2>6 DEF Eternal!BucketNext
  <1>2. ASSUME NEW op \in Ops, NEW c \in Clients, Refuse(op, c) PROVE Levels' = Levels
    <2> DEFINE k == KeyOf(op, c)
    <2>1. k \in Keys
      BY KeyInKeys
    <2>2. PICK short \in FoundShorts(k) : ~Enough(Found(k), short) /\ Use(k, Found(k), short)
      BY <1>2, RefuseSteps
    <2>4. Limit(k) # 0 /\ now' = now
      BY <1>2, RefuseSteps
    <2>5. short \in BOOLEAN /\ Found(k) = Level(k) /\ Found(k) \in Nat /\ Found(k) <= Capacity(k)
      BY <2>1, <2>2, <2>4, RefusedIsShort
    <2>3. \A j \in Keys : Level(j)' = Level(j)
      BY <2>1, <2>2, <2>4, <2>5, UseKeeps
    <2> QED
      BY <2>3 DEF Levels
  <1>3. ASSUME Tick PROVE Eternal!BucketNext
    <2>1. \A k \in Keys :
             /\ Level(k)' = Least(Capacity(k), Level(k) + Limit(k))
             /\ Level(k) \in Nat /\ Capacity(k) \in Nat /\ Limit(k) \in Nat
      BY <1>3, TickFills, LevelNat, LimitNat DEF IInv
    <2>2. \A k \in Keys :
             Level(k)' = IF Level(k) + Limit(k) >= Capacity(k) THEN Capacity(k)
                         ELSE Level(k) + Limit(k)
      BY <2>1 DEF Least
    <2>3. Eternal!Fill
      BY <2>2 DEF Eternal!Fill, Eternal!Full, Capacity
    <2> QED
      BY <2>3 DEF Eternal!BucketNext
  <1>4. ASSUME NEW k \in Keys, Observe(k) PROVE Levels' = Levels
    BY <1>4 DEF Observe, Levels, Level, Held, Refilled, Sum
  <1>5. UNCHANGED vars => Levels' = Levels
    BY DEF vars, Levels, Level, Held, Refilled, Sum
  <1> QED
    BY <1>1, <1>2, <1>3, <1>4, <1>5 DEF Next

\* Refilling only when asked and forgetting what is full cannot be told from a
\* bucket that every tick fills.
THEOREM Implementation == Spec => ImplementsBuckets
  BY Invariance, EternalInit, EternalStep, PTL
     DEF Spec, ImplementsBuckets, Eternal!BucketSpec, Levels

=============================================================================
