---------------------------- MODULE TokenBucket -----------------------------
(***************************************************************************)
(* What the rate limit promises: a bucket of tokens for every key, filled  *)
(* from the start, that gains Rate[k] units with every tick of the clock   *)
(* until it is full and gives one token of Price units to every request    *)
(* that passes.  Nothing is ever forgotten.                                *)
(***************************************************************************)
EXTENDS Naturals

CONSTANTS Keys, Price, Rate

VARIABLE level      \* units in the bucket of each key

Full(k) == Rate[k] * Price

BucketInit == level = [k \in Keys |-> Full(k)]

Fill ==
    level' = [k \in Keys |->
        IF level[k] + Rate[k] >= Full(k) THEN Full(k) ELSE level[k] + Rate[k]]

Take(k) ==
    /\ level[k] >= Price
    /\ level' = [level EXCEPT ![k] = @ - Price]

BucketNext == Fill \/ \E k \in Keys : Take(k)

BucketSpec == BucketInit /\ [][BucketNext]_level
=============================================================================
