---------------------------- MODULE MCInvitations ----------------------------
(* Instances of Invitations for TLC. *)
EXTENDS Invitations, TLC

\* People, rows and requests are interchangeable.
Symmetry == Permutations(People) \union Permutations(Rows) \union Permutations(Requests)
=============================================================================
