------------------------------ MODULE Sessions ------------------------------
(***************************************************************************)
(* Refresh sessions: internal/service/auth/service.go over                 *)
(* internal/repository/postgres/session.go.                                *)
(*                                                                         *)
(* A login is a chain ("family") of rows of the table `sessions`.  A row   *)
(* stands for one refresh token; an exchange marks the presented row used  *)
(* and inserts its successor in one transaction.  Logout and the detection *)
(* of a reused token revoke the chain with one UPDATE statement.           *)
(*                                                                         *)
(* The database runs at READ COMMITTED, the default that the pool keeps: a *)
(* statement sees the rows committed when it starts, waits for the row     *)
(* locks of others, and re-evaluates its WHERE on the version it finds     *)
(* after the wait, but never sees a row inserted meanwhile.  The variables *)
(* below are the committed rows; what a transaction has written and not    *)
(* yet committed is in the record of its request.                          *)
(***************************************************************************)
EXTENDS Naturals, FiniteSets

CONSTANTS
    Users,      \* accounts, named by their normalised e-mail
    Tokens,     \* refresh tokens; also the ids of the rows that store them
    Requests,   \* request slots: how many HTTP requests run at once
    TTL,        \* lifetime of a refresh token, TokenIssuer.RefreshTTL
    MaxClock,   \* bound of the model: the clock stops here
    None        \* a NULL

ASSUME NoneAssumption == None \notin Tokens /\ None \notin Users
ASSUME ClockAssumption == TTL \in Nat \ {0} /\ MaxClock \in Nat

VARIABLES
    clock,      \* wall clock
    users,      \* rows of `users`
    stored,     \* committed rows of `sessions`
    family,     \* family_id
    owner,      \* user_id
    expiresAt,  \* expires_at
    used,       \* rows whose used_at is not null
    revoked,    \* rows whose revoked_at is not null
    prev,       \* history: the row this one was exchanged for
    req         \* the running requests

rowVars == <<stored, family, owner, expiresAt, used, revoked, prev>>
vars == <<clock, users, rowVars, req>>

Ops == {"idle", "open", "lookup", "rotate", "marked", "inserted",
        "revoke", "revoking"}

\* A request: where it is, its local variables, and the row locks it holds.
Request ==
    [op     : Ops,
     token  : Tokens \union {None},     \* `session` read by Refresh
     next   : Tokens \union {None},     \* `next` prepared by Refresh
     family : Tokens \union {None},     \* argument of RevokeFamily
     user   : Users \union {None},      \* argument of RevokeAllForUser, openSession
     now    : Nat,                      \* `now` of Refresh
     rows   : SUBSET Tokens,            \* snapshot of a revoking UPDATE
     held   : SUBSET Tokens]            \* row locks

Idle == [op |-> "idle", token |-> None, next |-> None, family |-> None,
         user |-> None, now |-> 0, rows |-> {}, held |-> {}]

TypeOK ==
    /\ clock \in Nat
    /\ users \subseteq Users
    /\ stored \subseteq Tokens
    /\ family \in [Tokens -> Tokens \union {None}]
    /\ owner \in [Tokens -> Users \union {None}]
    /\ expiresAt \in [Tokens -> Nat]
    /\ used \subseteq stored
    /\ revoked \subseteq stored
    /\ prev \in [Tokens -> Tokens \union {None}]
    /\ req \in [Requests -> Request]

Init ==
    /\ clock = 0
    /\ users = {}
    /\ stored = {}
    /\ family = [t \in Tokens |-> None]
    /\ owner = [t \in Tokens |-> None]
    /\ expiresAt = [t \in Tokens |-> 0]
    /\ used = {}
    /\ revoked = {}
    /\ prev = [t \in Tokens |-> None]
    /\ req = [r \in Requests |-> Idle]

-----------------------------------------------------------------------------
(* Helpers *)

\* A row that a rotation may exchange: neither used nor revoked.
Live == stored \ (used \union revoked)

\* Mutant of Active: a token is still good at the very moment of its expiry.
ActiveInclusive(t, now) == t \in Live /\ now <= expiresAt[t]

\* domain.Session.Active
Active(t, now) == t \in Live /\ now < expiresAt[t]

\* uuid.New and NewRefreshToken: a value no row and no request has.
Fresh(t) == t \notin stored /\ \A r \in Requests : req[r].next # t

Locked(r, t) == \E q \in Requests \ {r} : t \in req[q].held

\* Requests that wait for each other's row locks.
WaitsFor(r, q) == r # q /\ req[r].op = "revoking"
                        /\ (req[r].rows \ req[r].held) \intersect req[q].held # {}
Deadlocked(r) ==
    \E Q \in SUBSET Requests :
        r \in Q /\ \A x \in Q : \E y \in Q : WaitsFor(x, y)

Become(r, new) == req' = [req EXCEPT ![r] = new]
Finish(r) == Become(r, Idle)

-----------------------------------------------------------------------------
(* Register and Login end in openSession.  A wrong password, an unknown or *)
(* a taken address are answered without touching any state.                *)

\* The account is committed before the session is opened.
Register(r, u) ==
    /\ req[r] = Idle
    /\ u \notin users
    /\ users' = users \union {u}
    /\ Become(r, [Idle EXCEPT !.op = "open", !.user = u])
    /\ UNCHANGED <<clock, rowVars>>

Login(r, u) ==
    /\ req[r] = Idle
    /\ u \in users
    /\ Become(r, [Idle EXCEPT !.op = "open", !.user = u])
    /\ UNCHANGED <<clock, users, rowVars>>

\* openSession: the first row of a chain, its id is the family_id.
OpenSession(r) ==
    /\ req[r].op = "open"
    /\ \E t \in Tokens :
        /\ Fresh(t)
        /\ stored' = stored \union {t}
        /\ family' = [family EXCEPT ![t] = t]
        /\ owner' = [owner EXCEPT ![t] = req[r].user]
        /\ expiresAt' = [expiresAt EXCEPT ![t] = clock + TTL]
    /\ Finish(r)
    /\ UNCHANGED <<clock, users, used, revoked, prev>>

-----------------------------------------------------------------------------
(* Refresh *)

\* s.now() is read once, before the row is.  A token that no row has is
\* answered ErrSessionInvalid and changes nothing.
Refresh(r, t) ==
    /\ req[r] = Idle
    /\ t \in stored
    /\ Become(r, [Idle EXCEPT !.op = "lookup", !.token = t, !.now = clock])
    /\ UNCHANGED <<clock, users, rowVars>>

\* ByTokenHash, then the decision on what it returned.
LookupReused(r) ==
    /\ req[r].op = "lookup"
    /\ req[r].token \in used
    /\ Become(r, [Idle EXCEPT !.op = "revoke", !.family = family[req[r].token]])
    /\ UNCHANGED <<clock, users, rowVars>>

LookupInactive(r) ==
    /\ req[r].op = "lookup"
    /\ req[r].token \notin used
    /\ ~Active(req[r].token, req[r].now)
    /\ Finish(r)
    /\ UNCHANGED <<clock, users, rowVars>>

LookupActive(r) ==
    /\ req[r].op = "lookup"
    /\ Active(req[r].token, req[r].now)
    /\ \E n \in Tokens :
        /\ Fresh(n)
        /\ Become(r, [req[r] EXCEPT !.op = "rotate", !.next = n])
    /\ UNCHANGED <<clock, users, rowVars>>

\* The WHERE of the UPDATE in RotateWithinFamily, and two mutants of it.
ExchangeableUsed(t) == t \notin revoked
ExchangeableRevoked(t) == t \notin used
Exchangeable(t) == t \notin used /\ t \notin revoked

\* Mutant of MarkUsed: the missing return when no row was updated.
MarkUsedHangs(r) ==
    /\ req[r].op = "rotate"
    /\ ~Locked(r, req[r].token)
    /\ Exchangeable(req[r].token)
    /\ Become(r, [req[r] EXCEPT !.op = "marked", !.held = {req[r].token}])
    /\ UNCHANGED <<clock, users, rowVars>>

\* RotateWithinFamily: UPDATE ... WHERE used_at IS NULL AND revoked_at IS NULL.
\* Zero rows is ErrSessionInvalid; one row is locked until the commit.
MarkUsed(r) ==
    /\ req[r].op = "rotate"
    /\ ~Locked(r, req[r].token)
    /\ IF Exchangeable(req[r].token)
       THEN Become(r, [req[r] EXCEPT !.op = "marked", !.held = {req[r].token}])
       ELSE Finish(r)
    /\ UNCHANGED <<clock, users, rowVars>>

\* insertSession inside the transaction: nobody else sees the row yet.
InsertNext(r) ==
    /\ req[r].op = "marked"
    /\ Become(r, [req[r] EXCEPT !.op = "inserted"])
    /\ UNCHANGED <<clock, users, rowVars>>

\* Mutant of CommitRotation: the ids are swapped, the row that is not there
\* is marked.
CommitRotationSwapped(r) ==
    /\ req[r].op = "inserted"
    /\ used' = used \union {req[r].next}
    /\ Finish(r)
    /\ UNCHANGED <<clock, users, stored, family, owner, expiresAt, prev, revoked>>

CommitRotation(r) ==
    LET t == req[r].token
        n == req[r].next
    IN  /\ req[r].op = "inserted"
        /\ used' = used \union {t}
        /\ stored' = stored \union {n}
        /\ family' = [family EXCEPT ![n] = family[t]]
        /\ owner' = [owner EXCEPT ![n] = owner[t]]
        /\ expiresAt' = [expiresAt EXCEPT ![n] = req[r].now + TTL]
        /\ prev' = [prev EXCEPT ![n] = t]
        /\ Finish(r)
        /\ UNCHANGED <<clock, users, revoked>>

-----------------------------------------------------------------------------
(* Logout, LogoutByRefreshToken, LogoutAll and the reuse branch of Refresh  *)
(* all end in one UPDATE that sets revoked_at.                              *)

\* The access token names a family by its sid.
Logout(r, f) ==
    /\ req[r] = Idle
    /\ \E t \in stored : family[t] = f
    /\ Become(r, [Idle EXCEPT !.op = "revoke", !.family = f])
    /\ UNCHANGED <<clock, users, rowVars>>

\* The row is read first, its family is revoked by a later statement.
LogoutByRefreshToken(r, t) ==
    /\ req[r] = Idle
    /\ t \in stored
    /\ Become(r, [Idle EXCEPT !.op = "revoke", !.family = family[t]])
    /\ UNCHANGED <<clock, users, rowVars>>

LogoutAll(r, u) ==
    /\ req[r] = Idle
    /\ u \in users
    /\ Become(r, [Idle EXCEPT !.op = "revoke", !.user = u])
    /\ UNCHANGED <<clock, users, rowVars>>

\* Mutant of Revokes: only the row that could still be exchanged is revoked.
RevokesUnused(r, t) ==
    /\ t \notin revoked \union used
    /\ \/ req[r].family # None /\ family[t] = req[r].family
       \/ req[r].user # None /\ owner[t] = req[r].user

\* The WHERE of RevokeFamily or of RevokeAllForUser.
Revokes(r, t) ==
    /\ t \notin revoked
    /\ \/ req[r].family # None /\ family[t] = req[r].family
       \/ req[r].user # None /\ owner[t] = req[r].user

\* The statement starts: its snapshot is what is committed now.
BeginRevoke(r) ==
    /\ req[r].op = "revoke"
    /\ Become(r, [req[r] EXCEPT !.op = "revoking",
                                !.rows = {t \in stored : Revokes(r, t)}])
    /\ UNCHANGED <<clock, users, rowVars>>

\* One row of the statement: wait for its lock, look at its WHERE again.
RevokeRow(r, t) ==
    /\ req[r].op = "revoking"
    /\ t \in req[r].rows \ req[r].held
    /\ ~Locked(r, t)
    /\ IF t \in revoked
       THEN Become(r, [req[r] EXCEPT !.rows = @ \ {t}])
       ELSE Become(r, [req[r] EXCEPT !.held = @ \union {t}])
    /\ UNCHANGED <<clock, users, rowVars>>

CommitRevoke(r) ==
    /\ req[r].op = "revoking"
    /\ req[r].rows = req[r].held
    /\ revoked' = revoked \union req[r].held
    /\ Finish(r)
    /\ UNCHANGED <<clock, users, stored, family, owner, expiresAt, used, prev>>

-----------------------------------------------------------------------------
(* Failures: a cancelled request context, a lost connection or an error of *)
(* the database rolls back the open transaction or statement.              *)

\* Mutant of Fail: without a transaction around the UPDATE and the INSERT.
FailKeepsMark(r) ==
    /\ req[r].op # "idle"
    /\ used' = IF req[r].op = "marked" THEN used \union {req[r].token} ELSE used
    /\ Finish(r)
    /\ UNCHANGED <<clock, users, stored, family, owner, expiresAt, revoked, prev>>

Fail(r) ==
    /\ req[r].op # "idle"
    /\ Finish(r)
    /\ UNCHANGED <<clock, users, rowVars>>

\* The deadlock detector of the database breaks a cycle of waits.
DeadlockVictim(r) ==
    /\ Deadlocked(r)
    /\ Finish(r)
    /\ UNCHANGED <<clock, users, rowVars>>

\* Bound of the model: with every token taken the request is given up.
OutOfTokens(r) ==
    /\ \/ req[r].op = "open"
       \/ req[r].op = "lookup" /\ Active(req[r].token, req[r].now)
    /\ \A t \in Tokens : ~Fresh(t)
    /\ Finish(r)
    /\ UNCHANGED <<clock, users, rowVars>>

Tick ==
    /\ clock < MaxClock
    /\ clock' = clock + 1
    /\ UNCHANGED <<users, rowVars, req>>

\* A request arrives.
Arrive(r) ==
    \/ \E u \in Users : Register(r, u) \/ Login(r, u) \/ LogoutAll(r, u)
    \/ \E t \in Tokens : Refresh(r, t) \/ Logout(r, t) \/ LogoutByRefreshToken(r, t)

\* A running request takes its next step.
Proceed(r) ==
    \/ OpenSession(r)
    \/ LookupReused(r) \/ LookupInactive(r) \/ LookupActive(r)
    \/ MarkUsed(r) \/ InsertNext(r) \/ CommitRotation(r)
    \/ BeginRevoke(r) \/ (\E t \in Tokens : RevokeRow(r, t)) \/ CommitRevoke(r)
    \/ OutOfTokens(r)

Next ==
    \/ \E r \in Requests : Arrive(r) \/ Proceed(r) \/ Fail(r) \/ DeadlockVictim(r)
    \/ Tick

Spec == Init /\ [][Next]_vars

\* Goroutines are scheduled, row locks are granted in arrival order (so a
\* waiter is not overtaken for ever), deadlocks are detected.  Clients are
\* not obliged to do anything, and nothing is obliged to fail.
Fairness ==
    \A r \in Requests : SF_vars(Proceed(r)) /\ WF_vars(DeadlockVictim(r))

FairSpec == Spec /\ Fairness

-----------------------------------------------------------------------------
(* Properties *)

\* At every moment a login has at most one token that can still be exchanged:
\* of two requests that present the same token, one at most gets a successor
\* (the conditional UPDATE and its row lock in RotateWithinFamily).
OneLiveToken ==
    \A s, t \in stored \ used : family[s] = family[t] => s = t

\* A rotation is all or nothing: a token is used exactly when its one
\* successor exists, in the same login and of the same user.
UsedHasOneSuccessor ==
    /\ \A t \in used : \E s \in stored : prev[s] = t
    /\ \A s, t \in stored : prev[s] # None /\ prev[s] = prev[t] => s = t
    /\ \A s \in stored : prev[s] # None =>
          /\ prev[s] \in used
          /\ family[s] = family[prev[s]]
          /\ owner[s] = owner[prev[s]]

\* Revocation takes a prefix of the chain: what precedes a revoked row is
\* revoked too, however the UPDATE met the rotations that ran beside it.
RevokedPrefix ==
    \A t \in revoked : prev[t] # None => prev[t] \in revoked

\* The chain as a reader of the docs sees it: SessionChain.
CurrentOf(f) ==
    IF \E t \in Live : family[t] = f
    THEN CHOOSE t \in Live : family[t] = f
    ELSE None

Chain == INSTANCE SessionChain
            WITH current <- [f \in Tokens |-> CurrentOf(f)],
                 spent   <- used \union revoked

\* The transactions and statements implement the abstract chain: each commit
\* is one Open, Exchange or Close, everything before a commit is invisible.
\* In particular a login without an exchangeable token never gets one again.
ImplementsChain == Chain!Spec

\* A token that expired can be spent only by a request that came before the
\* expiry: the clock read at the start of Refresh is compared late, but a
\* request that comes after the expiry never gets through.
InFlight(t) == \E r \in Requests : req[r].token = t /\ req[r].now < expiresAt[t]

ExpiredStaysUnspent ==
    [][\A t \in stored \ used :
          clock >= expiresAt[t] /\ ~InFlight(t) => t \notin used']_vars

\* A login without a token that could be exchanged is over, and stays so: no
\* request that read one of its rows before, and no new login, revives it.
Over(f) == f \in stored /\ \A t \in Live : family[t] # f
OverForGood == [][\A f \in Tokens : Over(f) => Over(f)']_vars

\* What RevokeFamily and RevokeAllForUser do guarantee beside rotations, other
\* revocations and failures: as long as no row is committed, a statement that
\* has every row of its WHERE in its snapshot keeps them there, and ends by
\* revoking them all or by being rolled back.  What it misses came meanwhile.
Covers(r) ==
    req[r].op = "revoking" /\ \A t \in stored : Revokes(r, t) => t \in req[r].rows

RevocationMissesOnlyNew ==
    [][\A r \in Requests : Covers(r) /\ stored' = stored =>
          \/ Covers(r)'
          \/ req'[r] = Idle /\ {t \in stored : Revokes(r, t)} \subseteq revoked'
          \/ req'[r] = Idle /\ revoked' = revoked]_vars

\* Every request is answered, though requests wait for each other's locks.
RequestsEnd == \A r \in Requests : req[r].op # "idle" ~> req[r].op = "idle"

\* session.go:62 and auth.yaml:97: RevokeFamily closes the whole chain, so
\* that when the statement is done no row of the login is left unrevoked.
\* The code does not have this property: see README, finding 1.
RevocationClosesFamily ==
    [][\A r \in Requests :
          req[r].family # None /\ CommitRevoke(r)
          => \A t \in stored' : family'[t] = req[r].family => t \in revoked']_vars
=============================================================================
