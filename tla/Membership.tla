----------------------------- MODULE Membership ------------------------------
(***************************************************************************)
(* Who belongs to a company and who has a card there, as the rest of the   *)
(* system may rely on it: a person joins and has a card from that moment,  *)
(* leaves, and keeps the card, whose address is never given to anybody     *)
(* else (docs/database.md).  Staff and Invitations each model one side of  *)
(* the two tables in detail and the other as a single step; both implement *)
(* this module.                                                            *)
(***************************************************************************)
CONSTANT People

VARIABLES
    members,    \* people with a row in `memberships`
    cards       \* people with a row in `profiles`

membershipVars == <<members, cards>>

\* A company begins with its founder, or is looked at before it has anybody.
MembershipInit == members \subseteq People /\ cards = members

Join(p) ==
    /\ p \notin members
    /\ members' = members \union {p}
    /\ cards' = cards \union {p}

Leave(p) ==
    /\ p \in members
    /\ members' = members \ {p}
    /\ UNCHANGED cards

MembershipNext == \E p \in People : Join(p) \/ Leave(p)

MembershipSpec == MembershipInit /\ [][MembershipNext]_membershipVars
=============================================================================
