----------------------------- MODULE MCSessions -----------------------------
(* Instances of Sessions for TLC. The liveness property of the passing run     *)
(* rules symmetry out.                                                         *)
EXTENDS Sessions, TLC
=============================================================================
