------------------------------- MODULE MCStaff -------------------------------
(* Instances of Staff for TLC. *)
EXTENDS Staff, TLC

\* Requests are interchangeable, and so are the users other than the founder.
Symmetry == Permutations(Requests) \union Permutations(Users \ {Founder})
=============================================================================
