----------------------------- MODULE RateLimit ------------------------------
(***************************************************************************)
(* The rate limit of the API (handler/middleware/ratelimit.go): a bucket   *)
(* of tokens for each address, one more for each address and strict        *)
(* operation, refilled when it is used, forgotten when it must be full.    *)
(*                                                                         *)
(* A tick is the unit of time.Duration; Second of them are a second, and   *)
(* Minute a minute.  A token is Minute units, so that a limit of n a       *)
(* minute refills n units a tick, and the units of a bucket are whole.     *)
(* The code keeps tokens as float64.  Rounding may leave it a little below *)
(* or above the whole units; above, it makes no difference, for a token    *)
(* less one unit stays less than a token.  The roundings of one bucket are *)
(* taken to stay below one unit together, which at nanoseconds is some     *)
(* 10^-11 of a token and thousands of roundings.                           *)
(*                                                                         *)
(* A request is one step: allow reads the clock and works under the mutex  *)
(* of its limiter.                                                         *)
(***************************************************************************)
EXTENDS Integers

CONSTANTS
    Clients,        \* clientKey of the addresses
    Ops,            \* operations of the API
    Strict,         \* RateLimitOptions.Strict
    Files,          \* OperationFiles
    Shared,         \* the name of the bucket that other operations share
    PerMinute,      \* RateLimitOptions.PerMinute
    StrictPerMinute,
    Second, Minute, \* ticks in a second and in a minute
    MaxNow,         \* bound: the last tick
    None

ASSUME RateLimitAssumption ==
    /\ Strict \subseteq Ops /\ Shared \notin Ops
    /\ PerMinute \in Nat /\ StrictPerMinute \in Nat
    /\ Second \in Nat \ {0} /\ Minute \in Nat \ {0} /\ MaxNow \in Nat
    /\ None \notin Nat /\ None \notin [tokens : Nat, last : Nat, short : BOOLEAN]

VARIABLES
    now,        \* the clock
    bucket,     \* the buckets of both limiters; None: not in the map
    lastSweep,  \* of each limiter
    watch       \* history: what an observer of one key has noted

vars == <<now, bucket, lastSweep, watch>>

Limiters == {"general", "strict"}
Keys == (Strict \union {Shared}) \X Clients

LimiterOf(k) == IF k[1] = Shared THEN "general" ELSE "strict"
Limit(k) == IF k[1] = Shared THEN PerMinute ELSE StrictPerMinute

KeyOf(op, c) == IF op \in Strict THEN <<op, c>> ELSE <<Shared, c>>

\* Files are not limited, and a limit of zero is none.
Limited(op, c) == op # Files /\ Limit(KeyOf(op, c)) # 0

Bucket ==
    [tokens : Nat,      \* units of tokens
     last   : Nat,
     short  : BOOLEAN]  \* they are whole tokens, and rounding has left less

Watch ==
    [key     : Keys,
     since   : Nat,                 \* the beginning of the window
     seen    : Nat,                 \* the requests that passed in it
     promise : Nat \union {None}]   \* from when a refused one may try again

TypeOK ==
    /\ now \in Nat
    /\ bucket \in [Keys -> Bucket \union {None}]
    /\ lastSweep \in [Limiters -> Nat]
    /\ watch \in Watch

Init ==
    /\ now = 0
    /\ bucket = [k \in Keys |-> None]
    /\ lastSweep = [l \in Limiters |-> 0]
    /\ \E k \in Keys : watch = [key |-> k, since |-> 0, seen |-> 0, promise |-> None]

-----------------------------------------------------------------------------

Least(a, b) == IF a <= b THEN a ELSE b

Capacity(k) == Limit(k) * Minute

\* Mutant of Refilled: the refill does not stop at the capacity.
RefilledOver(k, b) == b.tokens + (now - b.last) * Limit(k)

Sum(k, b) == b.tokens + (now - b.last) * Limit(k)

\* What a bucket holds now.
Refilled(k, b) == Least(Capacity(k), Sum(k, b))

\* Whether it may be short: nothing is added within a tick, the capacity is a
\* float itself, and to have less makes a difference to whole tokens only.
Shorts(k, b) ==
    IF now = b.last THEN {b.short}
    ELSE IF Sum(k, b) <= Capacity(k) /\ Sum(k, b) % Minute = 0 THEN BOOLEAN
    ELSE {FALSE}

\* The same of a key that may have no bucket: a new one is full.
Held(k, b) == IF b = None THEN Capacity(k) ELSE Refilled(k, b)
Level(k) == Held(k, bucket[k])

SweepDue(l) == now - lastSweep[l] >= Minute

\* Mutants of Stale: a bucket is forgotten before it is full; no bucket is.
StaleEarly(k) ==
    /\ bucket[k] # None
    /\ SweepDue(LimiterOf(k))
    /\ now - bucket[k].last + 1 >= Minute

StaleNever(k) == FALSE

\* sweep forgets a bucket that was last used a minute ago or earlier.  (So it is
\* with the limits of config.go, 100 and 10; with some others, as 23, rounding
\* makes its minute a nanosecond shorter, which is left out.)
Stale(k) ==
    /\ bucket[k] # None
    /\ SweepDue(LimiterOf(k))
    /\ now - bucket[k].last >= Minute

\* allow for the key k: the sweep, and the bucket of k with level units in it.
Use(k, level, short) ==
    /\ bucket' = [j \in Keys |->
          IF j = k THEN [tokens |-> level, last |-> now, short |-> short]
          ELSE IF LimiterOf(j) = LimiterOf(k) /\ Stale(j) THEN None ELSE bucket[j]]
    /\ lastSweep' = [lastSweep EXCEPT ![LimiterOf(k)] =
          IF SweepDue(LimiterOf(k)) THEN now ELSE @]

\* What k holds when the sweep is over.
Found(k) == IF Stale(k) THEN Capacity(k) ELSE Level(k)
FoundShorts(k) == IF bucket[k] = None \/ Stale(k) THEN {FALSE} ELSE Shorts(k, bucket[k])

\* b.tokens >= 1
Enough(level, short) == IF short THEN level > Minute ELSE level >= Minute

\* Mutant of Pass: it does not look whether there is a token.
PassUnchecked(op, c) ==
    LET k == KeyOf(op, c)
    IN  /\ Limited(op, c)
        /\ \E short \in FoundShorts(k) : Use(k, Found(k) - Minute, short)
        /\ watch' = IF watch.key # k THEN watch
                    ELSE [key |-> k, since |-> watch.since, seen |-> watch.seen + 1,
                          promise |-> None]
        /\ UNCHANGED now

\* A token is there: the request goes on to its handler.
Pass(op, c) ==
    LET k == KeyOf(op, c)
    IN  /\ Limited(op, c)
        /\ \E short \in FoundShorts(k) :
              /\ Enough(Found(k), short)
              /\ Use(k, Found(k) - Minute, short)
        /\ watch' = IF watch.key # k THEN watch
                    ELSE [key |-> k, since |-> watch.since, seen |-> watch.seen + 1,
                          promise |-> None]
        /\ UNCHANGED now

\* The ticks in which the missing units refill, as allow converts them to a
\* Duration: the fraction of a tick is cut off, and where there is none,
\* rounding may cost a whole one.
Waits(k, level) ==
    {w \in 0 .. Minute : w * Limit(k) <= Minute - level /\ Minute - level <= (w + 1) * Limit(k)}

\* Mutant of RetryAfter: seconds are rounded down.
RetryAfterDown(wait) == IF wait < Second THEN 1 ELSE wait \div Second

\* retryAfterSeconds: rounded up, and at least one.
RetryAfter(wait) == IF wait = 0 THEN 1 ELSE (wait + Second - 1) \div Second

\* There is none: 429 with Retry-After.
Refuse(op, c) ==
    LET k == KeyOf(op, c)
    IN  /\ Limited(op, c)
        /\ \E short \in FoundShorts(k) :
              /\ ~Enough(Found(k), short)
              /\ Use(k, Found(k), short)
        /\ \E wait \in Waits(k, Found(k)) :
              LET again == now + Second * RetryAfter(wait)
              IN  watch' = IF watch.key = k /\ (watch.promise = None \/ again < watch.promise)
                           THEN [watch EXCEPT !.promise = again] ELSE watch
        /\ UNCHANGED now

Tick ==
    /\ now < MaxNow
    /\ now' = now + 1
    /\ UNCHANGED <<bucket, lastSweep, watch>>

\* The observer begins anew: any instant may be the first of a window.
Observe(k) ==
    /\ watch' = [key |-> k, since |-> now, seen |-> 0, promise |-> None]
    /\ UNCHANGED <<now, bucket, lastSweep>>

Next ==
    \/ \E op \in Ops, c \in Clients : Pass(op, c) \/ Refuse(op, c)
    \/ Tick
    \/ \E k \in Keys : Observe(k)

Spec == Init /\ [][Next]_vars

-----------------------------------------------------------------------------
(* Properties *)

\* ratelimit.go:100: in any stretch of time a key gets no more than a full
\* bucket and what refills meanwhile, however its requests, refusals and the
\* sweeps that forget it are spread -- no window of a minute lets through more
\* than twice the limit.
WindowBound ==
    watch.seen * Minute <= Capacity(watch.key) + (now - watch.since) * Limit(watch.key)

\* ratelimit.go:94: a client that waits as long as Retry-After said, and from
\* whose address nothing else has passed meanwhile, is let in, but for the ticks
\* that rounding may take: one where a Duration is cut off, one where the bucket
\* is short.  And it was not told to wait a second too long: until a second
\* before it would have been refused for certain, however other refusals and
\* sweeps fall in between.
RetryAfterKept ==
    LET k == watch.key
    IN  watch.promise # None =>
            /\ now >= watch.promise + 2 =>
                  \A short \in FoundShorts(k) : Enough(Found(k), short)
            /\ now + Second <= watch.promise =>
                  \A short \in FoundShorts(k) : ~Enough(Found(k), short)

\* ratelimit.go:160: memory does not grow with every address that came once:
\* when a limiter serves a request, it has forgotten all that was last used two
\* minutes before.
IdleForgotten ==
    \A j, k \in Keys :
        LimiterOf(j) = LimiterOf(k) /\ bucket[j] # None /\ bucket[k] # None
            => bucket[j].last - bucket[k].last < 2 * Minute

\* ratelimit.go:159: a bucket that is forgotten was no different from a new
\* one: the limiter is a bucket for every key that is never forgotten.
Eternal == INSTANCE TokenBucket WITH
            Price <- Minute, Rate <- [k \in Keys |-> Limit(k)],
            level <- [k \in Keys |-> Level(k)]
ImplementsBuckets == Eternal!BucketSpec
=============================================================================
