-------------------------------- MODULE Staff --------------------------------
(***************************************************************************)
(* One company: the roles of its members and the states of their cards.    *)
(* internal/service/company, internal/service/profile over                 *)
(* internal/repository/postgres/company.go, profile.go and the deferred    *)
(* trigger assert_company_has_admin.                                       *)
(*                                                                         *)
(* Every operation first reads what it needs to authorise its caller and   *)
(* then writes, in a statement or a transaction of its own, rows that have *)
(* been free for others in between.  A row that a transaction wrote is     *)
(* locked until it ends; `role` and `card` hold the committed rows.        *)
(***************************************************************************)
EXTENDS Naturals, FiniteSets

CONSTANTS
    Users,      \* people who are, were or may become members
    Founder,    \* the one who created the company
    Requests,   \* request slots
    None        \* no user

ASSUME FounderAssumption == Founder \in Users /\ None \notin Users

Roles == {"NONE", "EMPLOYEE", "ADMIN"}      \* NONE: no row in `memberships`
Cards == {"NONE", "DRAFT", "PUBLISHED", "BLOCKED", "ARCHIVED"}

VARIABLES
    role,       \* memberships.role of each user
    card,       \* profiles.status of each user
    req,        \* the running requests
    overlapped  \* history: a request has begun while another was running

vars == <<role, card, req, overlapped>>

Ops == {"idle", "update", "archive", "delete", "check", "commit", "authorize", "setStatus"}

Request ==
    [op       : Ops,
     target   : Users \union {None},    \* whose membership or card
     actor    : Users \union {None},    \* who asks, until authorised
     new      : Roles \union Cards,     \* the role or the status to write
     card     : Cards,                  \* the status that authorize read
     admin    : BOOLEAN,                \* access.admin
     archives : BOOLEAN,                \* the archiving UPDATE hit the card
     seen     : SUBSET Users]           \* the admins that the trigger found

Idle == [op |-> "idle", target |-> None, actor |-> None, new |-> "NONE",
         card |-> "NONE", admin |-> FALSE, archives |-> FALSE, seen |-> {}]

TypeOK ==
    /\ role \in [Users -> Roles]
    /\ card \in [Users -> Cards]
    /\ req \in [Requests -> Request]
    /\ overlapped \in BOOLEAN

\* CompanyRepo.Create: the founder is ADMIN and has a draft, in one transaction.
Init ==
    /\ role = [u \in Users |-> IF u = Founder THEN "ADMIN" ELSE "NONE"]
    /\ card = [u \in Users |-> IF u = Founder THEN "DRAFT" ELSE "NONE"]
    /\ req = [r \in Requests |-> Idle]
    /\ overlapped = FALSE

-----------------------------------------------------------------------------

Admins == {u \in Users : role[u] = "ADMIN"}

Become(r, new) == req' = [req EXCEPT ![r] = new]
Finish(r) == Become(r, Idle)

\* Another transaction wrote the row and has not ended.
MemberLocked(r, u) ==
    \E q \in Requests \ {r} : req[q].op \in {"check", "commit"} /\ req[q].target = u
CardLocked(r, u) ==
    \E q \in Requests \ {r} : req[q].archives /\ req[q].target = u

\* company.Service.Authorize with RoleAdmin; a refusal changes nothing.
Authorize(a) == role[a] = "ADMIN"

\* The admins that the transaction of r sees: committed rows and its own write.
AdminsSeen(r) ==
    IF req[r].new = "ADMIN" THEN Admins \union {req[r].target}
                            ELSE Admins \ {req[r].target}

-----------------------------------------------------------------------------
(* SetRole: one UPDATE, committed by itself.                               *)

SetRole(r, a, u, new) ==
    /\ req[r] = Idle
    /\ Authorize(a)
    /\ Become(r, [Idle EXCEPT !.op = "update", !.target = u, !.new = new])
    /\ UNCHANGED <<role, card>>

\* Mutant of UpdateRole: an upsert in the place of the UPDATE.
UpdateRoleUpsert(r) ==
    /\ req[r].op = "update"
    /\ ~MemberLocked(r, req[r].target)
    /\ Become(r, [req[r] EXCEPT !.op = "check"])
    /\ UNCHANGED <<role, card>>

\* No row: ErrNotFound.
UpdateRole(r) ==
    /\ req[r].op = "update"
    /\ ~MemberLocked(r, req[r].target)
    /\ IF role[req[r].target] = "NONE"
       THEN Finish(r)
       ELSE Become(r, [req[r] EXCEPT !.op = "check"])
    /\ UNCHANGED <<role, card>>

(* RemoveEmployee: archive the card, delete the membership, commit.        *)

RemoveEmployee(r, a, u) ==
    /\ req[r] = Idle
    /\ Authorize(a)
    /\ Become(r, [Idle EXCEPT !.op = "archive", !.target = u])
    /\ UNCHANGED <<role, card>>

ArchiveCard(r) ==
    /\ req[r].op = "archive"
    /\ ~CardLocked(r, req[r].target)
    /\ Become(r, [req[r] EXCEPT !.op = "delete",
                     !.archives = card[req[r].target] \notin {"NONE", "ARCHIVED"}])
    /\ UNCHANGED <<role, card>>

\* No row: ErrNotFound, and the archiving is rolled back.
DeleteMember(r) ==
    /\ req[r].op = "delete"
    /\ ~MemberLocked(r, req[r].target)
    /\ IF role[req[r].target] = "NONE"
       THEN Finish(r)
       ELSE Become(r, [req[r] EXCEPT !.op = "check"])
    /\ UNCHANGED <<role, card>>

\* Mutant of KeepAdmin: the trigger is not there.
KeepAdminOff(r) ==
    /\ req[r].op = "check"
    /\ Become(r, [req[r] EXCEPT !.op = "commit", !.seen = AdminsSeen(r)])
    /\ UNCHANGED <<role, card>>

\* The deferred trigger runs inside COMMIT, before the commit takes effect: it
\* does not see what other transactions have not committed.
KeepAdmin(r) ==
    /\ req[r].op = "check"
    /\ IF AdminsSeen(r) = {}
       THEN Finish(r)
       ELSE Become(r, [req[r] EXCEPT !.op = "commit", !.seen = AdminsSeen(r)])
    /\ UNCHANGED <<role, card>>

\* Mutants of Commit: the archiving is not in the transaction and is lost; the
\* two columns are swapped.
CommitRoleOnly(r) ==
    /\ req[r].op = "commit"
    /\ role' = [role EXCEPT ![req[r].target] = req[r].new]
    /\ UNCHANGED card
    /\ Finish(r)

CommitSwapped(r) ==
    /\ req[r].op = "commit"
    /\ card' = [card EXCEPT ![req[r].target] = req[r].new]
    /\ role' = IF req[r].archives
               THEN [role EXCEPT ![req[r].target] = "ARCHIVED"]
               ELSE role
    /\ Finish(r)

Commit(r) ==
    /\ req[r].op = "commit"
    /\ role' = [role EXCEPT ![req[r].target] = req[r].new]
    /\ card' = IF req[r].archives
               THEN [card EXCEPT ![req[r].target] = "ARCHIVED"]
               ELSE card
    /\ Finish(r)

-----------------------------------------------------------------------------
(* Publish and Block: read the card, read the membership, decide, write.   *)

ReadCard(r, a, u, status) ==
    /\ req[r] = Idle
    /\ card[u] # "NONE"
    /\ Become(r, [Idle EXCEPT !.op = "authorize", !.actor = a, !.target = u,
                              !.new = status, !.card = card[u]])
    /\ UNCHANGED <<role, card>>

\* profile.Service.authorize, then the guards of Publish and of Block.  A card
\* that is not complete (ReadyToPublish) ends in Fail.
Publish(r, a, u) == ReadCard(r, a, u, "PUBLISHED")
Block(r, a, u)   == ReadCard(r, a, u, "BLOCKED")

\* Mutants of MayWrite: Publish without the check for BLOCKED, and without
\* the check for ARCHIVED.
MayWriteBlocked(x, admin) ==
    /\ x.actor = x.target \/ admin
    /\ x.card # "ARCHIVED"
    /\ x.new = "BLOCKED" => admin

MayWriteArchived(x, admin) ==
    /\ x.actor = x.target \/ admin
    /\ x.new = "PUBLISHED" => x.card # "BLOCKED" \/ admin
    /\ x.new = "BLOCKED" => x.card # "ARCHIVED" /\ admin

MayWrite(x, admin) ==
    /\ x.actor = x.target \/ admin
    /\ x.card # "ARCHIVED"
    /\ x.new = "PUBLISHED" => x.card # "BLOCKED" \/ admin
    /\ x.new = "BLOCKED" => admin

AuthorizeCard(r) ==
    LET admin == role[req[r].actor] = "ADMIN"
    IN  /\ req[r].op = "authorize"
        /\ IF MayWrite(req[r], admin)
           THEN Become(r, [Idle EXCEPT !.op = "setStatus", !.target = req[r].target,
                                       !.new = req[r].new, !.admin = admin])
           ELSE Finish(r)
        /\ UNCHANGED <<role, card>>

\* UPDATE profiles SET status WHERE id: whatever the status has become.
SetStatus(r) ==
    /\ req[r].op = "setStatus"
    /\ ~CardLocked(r, req[r].target)
    /\ card' = [card EXCEPT ![req[r].target] = req[r].new]
    /\ Finish(r)
    /\ UNCHANGED role

-----------------------------------------------------------------------------

\* Mutant of Join: the insert, without ensureProfile.
JoinWithoutCard(r, u, new) ==
    /\ req[r] = Idle
    /\ role[u] = "NONE"
    /\ role' = [role EXCEPT ![u] = new]
    /\ UNCHANGED <<card, req>>

\* The commit of an accepted invitation (in detail in Invitations), one step of
\* an otherwise idle request: INSERT ... ON CONFLICT DO NOTHING, and
\* ensureProfile, which keeps a card that exists.
Join(r, u, new) ==
    /\ req[r] = Idle
    /\ role[u] = "NONE"
    /\ role' = [role EXCEPT ![u] = new]
    /\ card' = IF card[u] = "NONE" THEN [card EXCEPT ![u] = "DRAFT"] ELSE card
    /\ UNCHANGED req

\* A cancelled context or a database error rolls back.
Fail(r) ==
    /\ req[r] # Idle
    /\ Finish(r)
    /\ UNCHANGED <<role, card>>

Change(r) ==
    \/ UpdateRole(r) \/ ArchiveCard(r) \/ DeleteMember(r) \/ KeepAdmin(r) \/ Commit(r)
    \/ AuthorizeCard(r) \/ SetStatus(r) \/ Fail(r)

Arrive(r) ==
    \E a, u \in Users :
        \/ \E new \in {"EMPLOYEE", "ADMIN"} : SetRole(r, a, u, new)
        \/ RemoveEmployee(r, a, u)
        \/ Publish(r, a, u)
        \/ Block(r, a, u)

Invited(r) == \E u \in Users, new \in {"EMPLOYEE", "ADMIN"} : Join(r, u, new)

Overlaps(r) == overlapped' = (overlapped \/ \E q \in Requests \ {r} : req[q] # Idle)

Begin(r) == (Arrive(r) \/ Invited(r)) /\ Overlaps(r)
Proceed(r) == Change(r) /\ UNCHANGED overlapped

Next == \E r \in Requests : Begin(r) \/ Proceed(r)

Spec == Init /\ [][Next]_vars

-----------------------------------------------------------------------------
(* Properties *)

\* docs/database.md and errors.go: the company always has an admin.  It holds
\* while requests come one at a time.
CompanyHasAdmin == overlapped \/ Admins # {}

\* The same as those documents have it, for requests that come together: false,
\* two overlapping transactions each see the admin that the other is taking
\* away (README, finding 2).
AdminWhateverOverlaps == Admins # {}

\* What the trigger does guarantee under any interleaving: the last admin is
\* lost only to a commit whose check found somebody else, and everybody it
\* found was taken away between that check and that commit.
AdminLostOnlyInWindow ==
    [][Admins # {} /\ Admins' = {} =>
          \E r \in Requests : /\ req[r].op = "commit"
                              /\ req[r].seen # {}
                              /\ req[r].seen \intersect Admins = {}]_vars

\* Whoever has a role has a card (company.go:67, ensureProfile in Accept), and
\* a request that writes a status writes that of a card that exists.
MemberHasCard ==
    /\ \A u \in Users : role[u] # "NONE" => card[u] # "NONE"
    /\ \A r \in Requests : req[r].op = "setStatus" => card[req[r].target] # "NONE"

\* Staff does to members and cards what Membership says: whoever joins has a
\* card from the same commit, whoever leaves keeps it, no step does more.
Members == {u \in Users : role[u] # "NONE"}
Company == INSTANCE Membership WITH
               People <- Users, members <- Members, cards <- {u \in Users : card[u] # "NONE"}
ImplementsMembership == Company!MembershipSpec

\* service.go of invitation, and the UPDATE of SetRole: nobody becomes a member
\* but by an invitation.  A role change that meets the removal of its target
\* waits for the row, finds it gone and admits nobody, in either order.
OnlyInvitedJoin ==
    [][\A u \in Users : role[u] = "NONE" /\ role'[u] # "NONE" =>
          \E r \in Requests : Invited(r)]_vars

\* companies.yaml:431: a card outlives its membership only as ARCHIVED, while
\* requests come one at a time: a person who joins between the two statements
\* of his removal leaves an open card behind.
GoneIsArchived ==
    overlapped \/ \A u \in Users : role[u] = "NONE" => card[u] \in {"NONE", "ARCHIVED"}

\* A request that read the card before it was archived is still running.
ReadBefore(u) ==
    \E r \in Requests : /\ req[r].target = u
                        /\ \/ req[r].op = "authorize" /\ req[r].card # "ARCHIVED"
                           \/ req[r].op = "setStatus"

\* profile/service.go:306: an archived card is not published.  A Publish that
\* read the card before the removal does it all the same; what the guards do
\* ensure under any interleaving is that a card archived with no such request
\* about is archived for ever, through every re-invitation and whoever asks.
ArchivedForGood(u) == card[u] = "ARCHIVED" /\ ~ReadBefore(u)
ArchivedIsFinal == [][\A u \in Users : ArchivedForGood(u) => ArchivedForGood(u)']_vars

\* A request is running that could publish the card of u with no say of an admin
\* about the block: it read the card before it was blocked.
ReadUnblocked(u) ==
    \E r \in Requests : /\ req[r].target = u /\ req[r].new = "PUBLISHED"
                        /\ \/ req[r].op = "authorize" /\ req[r].card # "BLOCKED"
                           \/ req[r].op = "setStatus" /\ ~req[r].admin

\* profiles.yaml:280: a blocked card is published again only by an admin.  A
\* Publish that read the card before the Block overrides it; what the guards do
\* ensure under any interleaving is that a block with no such request about
\* stands, through removal and re-invitation, until an admin's own request
\* publishes the card or the removal of its owner archives it.
BlockInForce(u) == card[u] = "BLOCKED" /\ ~ReadUnblocked(u)
BlockStands ==
    [][\A u \in Users : BlockInForce(u) =>
          \/ BlockInForce(u)'
          \/ card'[u] = "ARCHIVED"
          \/ \E r \in Requests : req[r].op = "setStatus" /\ req[r].target = u /\ req[r].admin]_vars
=============================================================================
