---------------------------- MODULE MCRateLimit -----------------------------
(* Instances of RateLimit for TLC. *)
EXTENDS RateLimit, FiniteSets, TLC

\* Strict operations are interchangeable.
Symmetry == Permutations(Strict)

\* Bound: from a state with three buckets TLC goes no further.  Two are enough
\* for one limiter to sweep one key for another, and for both limiters to run.
FewBuckets == Cardinality({k \in Keys : bucket[k] # None}) <= 2
=============================================================================
