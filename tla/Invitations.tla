----------------------------- MODULE Invitations -----------------------------
(***************************************************************************)
(* Invitations to one company: internal/service/invitation over            *)
(* internal/repository/postgres/invitation.go.  An invitation is sent to   *)
(* an address as a link in a letter, and is sent again under a new link,   *)
(* revoked, accepted, or left to expire.                                   *)
(*                                                                         *)
(* A link is <<i, n>>: the n-th token of row i (tokens are 32 random       *)
(* bytes, never repeated).  Every handler reads in statements of its own   *)
(* before the transaction that writes; each of the transactions is one     *)
(* step, at its commit.  That some admin exists to pass Authorize is taken *)
(* from Staff, and so are roles; a person is an address and its account.   *)
(***************************************************************************)
EXTENDS Naturals, FiniteSets

CONSTANTS
    People,         \* addresses, each with at most one account
    Rows,           \* rows of `invitations`
    Requests,       \* request slots
    TTL,            \* life of a link
    MaxClock,       \* bound: time
    MaxLinks,       \* bound: links per row
    None

ASSUME InvitationsAssumption ==
    /\ TTL \in Nat /\ MaxClock \in Nat /\ MaxLinks \in Nat
    /\ None \notin People \union Rows

VARIABLES
    clock,
    account,    \* people with a row in `users`
    member,     \* people with a row in `memberships`
    card,       \* people with a row in `profiles`
    inv,        \* the rows of `invitations`
    letters,    \* links that were put into email_outbox
    req         \* the running requests

vars == <<clock, account, member, card, inv, letters, req>>
people == <<account, member, card>>

Row == [email   : People \union {None},
        status  : {"NONE", "PENDING", "ACCEPTED", "REVOKED"},
        link    : Nat,
        expires : Nat]

NoRow == [email |-> None, status |-> "NONE", link |-> 0, expires |-> 0]

Request ==
    [op      : {"idle", "create", "resend", "accept", "join", "conflict", "notFound"},
     row     : Rows \union {None},      \* the row that was read
     person  : People \union {None},    \* the address of the invitation
     actor   : People \union {None},    \* who is signed in
     new     : BOOLEAN,                 \* an account is to be created
     expires : Nat]                     \* the expires_at to write

Idle == [op |-> "idle", row |-> None, person |-> None, actor |-> None,
         new |-> FALSE, expires |-> 0]

TypeOK ==
    /\ clock \in Nat
    /\ account \subseteq People /\ member \subseteq People /\ card \subseteq People
    /\ inv \in [Rows -> Row]
    /\ letters \subseteq Rows \X Nat
    /\ req \in [Requests -> Request]

Init ==
    /\ clock = 0
    /\ account = {} /\ member = {} /\ card = {}
    /\ inv = [i \in Rows |-> NoRow]
    /\ letters = {}
    /\ req = [r \in Requests |-> Idle]

-----------------------------------------------------------------------------

Become(r, new) == req' = [req EXCEPT ![r] = new]
Finish(r) == Become(r, Idle)

Pending(i) == inv[i].status = "PENDING"

\* domain.Invitation.Usable
Usable(i) == Pending(i) /\ clock <= inv[i].expires

-----------------------------------------------------------------------------
(* Create *)

\* Mutant of CheckMember: the sign of the term.
CheckMemberBackdated(r, p) ==
    /\ req[r] = Idle
    /\ p \notin account \intersect member
    /\ Become(r, [Idle EXCEPT !.op = "create", !.person = p, !.expires = clock - TTL])
    /\ UNCHANGED <<clock, people, inv, letters>>

\* ErrAlreadyMember changes nothing; otherwise a token and a term are chosen.
CheckMember(r, p) ==
    /\ req[r] = Idle
    /\ p \notin account \intersect member
    /\ Become(r, [Idle EXCEPT !.op = "create", !.person = p, !.expires = clock + TTL])
    /\ UNCHANGED <<clock, people, inv, letters>>

\* invitations_pending_uq
Taken(p) == \E i \in Rows : Pending(i) /\ inv[i].email = p

\* Mutant of Insert: without the unique index.
InsertAnyway(r, i) ==
    /\ req[r].op = "create"
    /\ inv[i] = NoRow
    /\ inv' = [inv EXCEPT ![i] = [email |-> req[r].person, status |-> "PENDING",
                                  link |-> 1, expires |-> req[r].expires]]
    /\ letters' = letters \union {<<i, 1>>}
    /\ Finish(r)
    /\ UNCHANGED <<clock, people>>

\* The invitation and its letter, in one transaction.
Insert(r, i) ==
    /\ req[r].op = "create"
    /\ ~Taken(req[r].person)
    /\ inv[i] = NoRow
    /\ inv' = [inv EXCEPT ![i] = [email |-> req[r].person, status |-> "PENDING",
                                  link |-> 1, expires |-> req[r].expires]]
    /\ letters' = letters \union {<<i, 1>>}
    /\ Finish(r)
    /\ UNCHANGED <<clock, people>>

\* ErrConflict: 409 invitation_pending.
InsertConflict(r) ==
    /\ req[r].op = "create"
    /\ Taken(req[r].person)
    /\ Become(r, [req[r] EXCEPT !.op = "conflict"])
    /\ UNCHANGED <<clock, people, inv, letters>>

-----------------------------------------------------------------------------
(* Revoke: one UPDATE. *)

Revoke(r, i) ==
    /\ req[r] = Idle
    /\ inv[i] # NoRow
    /\ IF Pending(i)
       THEN inv' = [inv EXCEPT ![i].status = "REVOKED"] /\ UNCHANGED req
       ELSE Become(r, [Idle EXCEPT !.op = "notFound", !.row = i]) /\ UNCHANGED inv
    /\ UNCHANGED <<clock, people, letters>>

-----------------------------------------------------------------------------
(* Resend *)

ReadRow(r, i) ==
    /\ req[r] = Idle
    /\ Pending(i) /\ inv[i].link < MaxLinks
    /\ Become(r, [Idle EXCEPT !.op = "resend", !.row = i, !.expires = clock + TTL])
    /\ UNCHANGED <<clock, people, inv, letters>>

NewLink(i, expires) == [inv EXCEPT ![i].link = @ + 1, ![i].expires = expires]

\* Mutants of Renew: the UPDATE without its status = 'PENDING'; the letter is
\* not in the transaction and is lost.
RenewClosed(r) ==
    LET i == req[r].row
    IN  /\ req[r].op = "resend"
        /\ inv' = NewLink(i, req[r].expires)
        /\ letters' = letters \union {<<i, inv[i].link + 1>>}
        /\ Finish(r)
        /\ UNCHANGED <<clock, people>>

RenewSilently(r) ==
    LET i == req[r].row
    IN  /\ req[r].op = "resend"
        /\ IF Pending(i) THEN inv' = NewLink(i, req[r].expires) ELSE UNCHANGED inv
        /\ Finish(r)
        /\ UNCHANGED <<clock, people, letters>>

\* The new token and its letter, in one transaction; ErrNotFound if the row
\* has been closed since it was read.
Renew(r) ==
    LET i == req[r].row
    IN  /\ req[r].op = "resend"
        /\ IF Pending(i)
           THEN /\ inv' = NewLink(i, req[r].expires)
                /\ letters' = letters \union {<<i, inv[i].link + 1>>}
           ELSE UNCHANGED <<inv, letters>>
        /\ Finish(r)
        /\ UNCHANGED <<clock, people>>

-----------------------------------------------------------------------------
(* Accept *)

\* Mutant of OpenLink: the term is not looked at.
OpenLinkLate(r, i, n, a) ==
    /\ req[r] = Idle
    /\ <<i, n>> \in letters /\ a \in account \union {None}
    /\ inv[i].link = n /\ Pending(i)
    /\ Become(r, [Idle EXCEPT !.op = "accept", !.row = i, !.person = inv[i].email, !.actor = a])
    /\ UNCHANGED <<clock, people, inv, letters>>

\* Anybody who has the letter presents its link, signed in or not: usable.
OpenLink(r, i, n, a) ==
    /\ req[r] = Idle
    /\ <<i, n>> \in letters /\ a \in account \union {None}
    /\ inv[i].link = n /\ Usable(i)
    /\ Become(r, [Idle EXCEPT !.op = "accept", !.row = i, !.person = inv[i].email, !.actor = a])
    /\ UNCHANGED <<clock, people, inv, letters>>

\* ByEmail: whose account the invitation is for.  ErrAuthRequired,
\* ErrEmailMismatch and ErrPasswordRequired change nothing.
FindAccount(r) ==
    LET x == req[r]
    IN  /\ x.op = "accept"
        /\ IF x.actor = (IF x.person \in account THEN x.person ELSE None)
           THEN Become(r, [x EXCEPT !.op = "join", !.new = x.person \notin account])
           ELSE Finish(r)
        /\ UNCHANGED <<clock, people, inv, letters>>

Accepted(i) == IF Pending(i) THEN [inv EXCEPT ![i].status = "ACCEPTED"] ELSE inv

\* Mutant of Join: an account that has appeared meanwhile is used.
JoinUpsert(r) ==
    LET x == req[r]
    IN  /\ x.op = "join"
        /\ account' = account \union {x.person}
        /\ member' = member \union {x.person}
        /\ card' = card \union {x.person}
        /\ inv' = Accepted(x.row)
        /\ Finish(r)
        /\ UNCHANGED <<clock, letters>>

\* The transaction of Accept: the account, the membership (ON CONFLICT DO
\* NOTHING), the card (ensureProfile), and the row is closed if it is still
\* open -- how many rows that hit is not looked at.
Join(r) ==
    LET x == req[r]
    IN  /\ x.op = "join"
        /\ x.new => x.person \notin account
        /\ account' = account \union {x.person}
        /\ member' = member \union {x.person}
        /\ card' = card \union {x.person}
        /\ inv' = Accepted(x.row)
        /\ Finish(r)
        /\ UNCHANGED <<clock, letters>>

-----------------------------------------------------------------------------

\* auth.Register, by the owner of the address.
Register(p) ==
    /\ p \notin account
    /\ account' = account \union {p}
    /\ UNCHANGED <<clock, member, card, inv, letters, req>>

\* CompanyRepo.RemoveEmployee, in detail in Staff: the card stays.
RemoveEmployee(p) ==
    /\ p \in member
    /\ member' = member \ {p}
    /\ UNCHANGED <<clock, account, card, inv, letters, req>>

\* An answer leaves, a database error or a cancelled context rolls back: also
\* ErrEmailTaken, and ErrSlugTaken when every address for the card is taken.
Leave(r) ==
    /\ req[r] # Idle
    /\ Finish(r)
    /\ UNCHANGED <<clock, people, inv, letters>>

Tick ==
    /\ clock < MaxClock
    /\ clock' = clock + 1
    /\ UNCHANGED <<people, inv, letters, req>>

Reads(r) ==
    \/ \E p \in People : CheckMember(r, p)
    \/ \E i \in Rows : ReadRow(r, i)
    \/ \E i \in Rows, n \in 1 .. MaxLinks, a \in People \union {None} : OpenLink(r, i, n, a)
    \/ InsertConflict(r) \/ FindAccount(r) \/ Leave(r)

Writes(r) == (\E i \in Rows : Insert(r, i) \/ Revoke(r, i)) \/ Renew(r) \/ Join(r)

Next ==
    \/ \E r \in Requests : Reads(r) \/ Writes(r)
    \/ \E p \in People : Register(p) \/ RemoveEmployee(p)
    \/ Tick

Spec == Init /\ [][Next]_vars

-----------------------------------------------------------------------------
(* Properties *)

\* invitation.go:231: accepting leaves no half results, whoever registers,
\* leaves or accepts twice in between: a member has an account and a card.
NoHalfResult == member \subseteq account \intersect card

\* What Staff sees of all this is Membership: a commit of Accept is a Join with
\* its card, or nothing when the person is already a member.
Company == INSTANCE Membership WITH People <- People, members <- member, cards <- card
ImplementsMembership == Company!MembershipSpec

\* decisions.md, 5: an invitation and its letter come together, also when it
\* is sent again: the link that works is in a letter.
PendingHasLetter == \A i \in Rows : Pending(i) => <<i, inv[i].link>> \in letters

\* invitations_pending_uq: one pending invitation to an address, under any
\* interleaving of Create, Resend, Revoke and Accept.
OnePending ==
    \A i, j \in Rows : Pending(i) /\ Pending(j) /\ inv[i].email = inv[j].email => i = j

\* An invitation that was accepted or revoked never changes again: no Resend
\* that read it while it was open revives it or sends a dead link.
Closed(i) == inv[i].status \in {"ACCEPTED", "REVOKED"}
ClosedIsFinal == [][\A i \in Rows : Closed(i) => inv'[i] = inv[i]]_vars

\* service.go:214: letters are forwarded, so a link is not enough.  Nobody who
\* has an account is made a member by somebody else's request, also when the
\* account appears while the link is being accepted.
JoinsHimself ==
    [][\A p \in account : p \in member' \ member =>
          \E r \in Requests : req[r].op = "join" /\ req[r].actor = p]_vars

\* Somebody without a usable link, and without a request under way that found
\* one, gets no way in but by a new letter.
NoWayIn(p) ==
    /\ \A i \in Rows : inv[i].email = p => ~Usable(i)
    /\ \A r \in Requests : req[r].op \in {"accept", "join"} => req[r].person # p

LinksDieForGood ==
    [][\A p \in People : NoWayIn(p) /\ letters' = letters =>
          /\ NoWayIn(p)'
          /\ p \in member' => p \in member]_vars

\* invitation.go:166: a link stops working as soon as it is revoked, and works
\* once: whoever becomes a member has an open invitation.  An Accept that
\* found it open does not look whether it still is (README, finding 4).
JoinsByOpenInvitation ==
    [][\A p \in member' \ member : Taken(p)]_vars
=============================================================================
