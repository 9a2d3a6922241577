--------------------------- MODULE SessionsProofs ---------------------------
(***************************************************************************)
(* Proofs about Sessions, for any number of users, tokens and requests.    *)
(***************************************************************************)
EXTENDS Sessions, TLAPS

\* What a request knows at each point of its program.
RequestOK(x) ==
    /\ x.op \in {"lookup", "rotate", "marked", "inserted"} => x.token \in stored
    /\ x.op \in {"rotate", "marked", "inserted"} =>
          x.next \in Tokens /\ x.now < expiresAt[x.token]
    /\ x.op \notin {"rotate", "marked", "inserted"} => x.next = None
    /\ x.op \in {"marked", "inserted"} =>
          /\ x.token \notin used
          /\ x.token \notin revoked
          /\ x.held = {x.token}
    /\ x.op = "revoking" => x.rows \subseteq stored /\ x.held \subseteq x.rows
    /\ x.op \notin {"marked", "inserted", "revoking"} => x.held = {}

RequestsOK == \A r \in Requests : RequestOK(req[r])

\* The snapshot of a running revocation is closed under predecessors.
SnapshotOK(x) ==
    x.op = "revoking" =>
        \A t \in x.rows : prev[t] # None => prev[t] \in revoked \union x.rows

SnapshotsOK == \A r \in Requests : SnapshotOK(req[r])

\* A row is locked by one request.
LocksOK == \A r, q \in Requests : r # q => req[r].held \intersect req[q].held = {}

\* A row being inserted is nobody else's and not yet stored.
NextsOK ==
    \A r \in Requests : req[r].next # None =>
        /\ req[r].next \notin stored
        /\ \A q \in Requests : r # q => req[q].next # req[r].next

\* A family is named by a row; what is not stored has no predecessor.
FamiliesOK ==
    /\ \A t \in stored : family[t] \in stored
    /\ \A t \in Tokens \ stored : prev[t] = None

IInv ==
    /\ TypeOK
    /\ RequestsOK
    /\ SnapshotsOK
    /\ LocksOK
    /\ NextsOK
    /\ FamiliesOK
    /\ OneLiveToken
    /\ UsedHasOneSuccessor
    /\ RevokedPrefix

-----------------------------------------------------------------------------

LEMMA IdleOK == Idle \in Request /\ RequestOK(Idle) /\ SnapshotOK(Idle)
  BY DEF Idle, Request, RequestOK, SnapshotOK, Ops

\* A step that only rewrites the record of one request keeps the invariant
\* when the new record is a good one.
LEMMA LocalStep ==
    ASSUME IInv, NEW r \in Requests, NEW new \in Request,
           Become(r, new), UNCHANGED rowVars, users' \subseteq Users, clock' \in Nat,
           RequestOK(new), SnapshotOK(new),
           \A q \in Requests \ {r} : new.held \intersect req[q].held = {},
           new.next # None => Fresh(new.next) \/ new.next = req[r].next
    PROVE  IInv'
  <1> USE DEF Become, rowVars
  <1>1. TypeOK'
    BY DEF IInv, TypeOK
  <1>2. /\ req'[r] = new
        /\ \A q \in Requests \ {r} : req'[q] = req[q]
    BY DEF IInv, TypeOK
  <1>3. RequestsOK' /\ SnapshotsOK'
    BY <1>2 DEF IInv, RequestsOK, RequestOK, SnapshotsOK, SnapshotOK
  <1>4. LocksOK'
    BY <1>2 DEF IInv, LocksOK
  <1>5. NextsOK'
    BY <1>2 DEF IInv, NextsOK, Fresh
  <1>6. FamiliesOK' /\ OneLiveToken' /\ UsedHasOneSuccessor' /\ RevokedPrefix'
    BY DEF IInv, FamiliesOK, OneLiveToken, UsedHasOneSuccessor, RevokedPrefix
  <1> QED
    BY <1>1, <1>3, <1>4, <1>5, <1>6 DEF IInv

\* Giving a request up, with its locks and its uncommitted rows.
LEMMA FinishStep ==
    ASSUME IInv, NEW r \in Requests, Finish(r), UNCHANGED <<clock, users, rowVars>>
    PROVE  IInv'
  <1>1. users' \subseteq Users /\ clock' \in Nat
    BY DEF IInv, TypeOK
  <1>2. Idle.held = {} /\ Idle.next = None
    BY DEF Idle
  <1> QED
    BY <1>1, <1>2, IdleOK, LocalStep DEF Finish, rowVars

\* Requests that start, read or lock change only their own record.
LEMMA LocalActions ==
    ASSUME IInv, NEW r \in Requests,
           \/ Arrive(r)
           \/ LookupReused(r) \/ LookupInactive(r) \/ LookupActive(r)
           \/ MarkUsed(r) \/ InsertNext(r)
           \/ BeginRevoke(r) \/ (\E t \in Tokens : RevokeRow(r, t))
           \/ OutOfTokens(r) \/ Fail(r) \/ DeadlockVictim(r)
    PROVE  IInv'
  <1> DEFINE x == req[r]
  <1> USE DEF Idle, Ops
  <1>0. /\ x \in Request /\ RequestOK(x) /\ SnapshotOK(x)
        /\ users \subseteq Users /\ clock \in Nat /\ stored \subseteq Tokens
        /\ used \subseteq stored /\ revoked \subseteq stored
        /\ family \in [Tokens -> Tokens \union {None}]
        /\ \A q \in Requests \ {r} : x.held \intersect req[q].held = {}
    BY DEF IInv, TypeOK, RequestsOK, SnapshotsOK, LocksOK
  <1>1. CASE \E u \in Users : Register(r, u)
    <2>1. PICK u \in Users : Register(r, u)
      BY <1>1
    <2> DEFINE new == [Idle EXCEPT !.op = "open", !.user = u]
    <2>2. new \in Request /\ RequestOK(new) /\ SnapshotOK(new) /\ new.held = {} /\ new.next = None
      BY DEF Request, RequestOK, SnapshotOK
    <2>3. Become(r, new) /\ users' \subseteq Users /\ UNCHANGED <<clock, rowVars>>
      BY <2>1, <1>0 DEF Register
    <2> QED
      BY <2>2, <2>3, <1>0, LocalStep
  <1>2. CASE \E u \in Users : Login(r, u) \/ LogoutAll(r, u)
    <2>1. PICK u \in Users : Login(r, u) \/ LogoutAll(r, u)
      BY <1>2
    <2> DEFINE new(op) == [Idle EXCEPT !.op = op, !.user = u]
    <2>2. \A op \in {"open", "revoke"} :
            new(op) \in Request /\ RequestOK(new(op)) /\ SnapshotOK(new(op))
            /\ new(op).held = {} /\ new(op).next = None
      BY DEF Request, RequestOK, SnapshotOK
    <2>3. /\ Become(r, new("open")) \/ Become(r, new("revoke"))
          /\ UNCHANGED <<clock, users, rowVars>>
      BY <2>1 DEF Login, LogoutAll
    <2> HIDE DEF new
    <2> QED
      BY <2>2, <2>3, <1>0, LocalStep DEF rowVars
  <1>3. CASE \E t \in Tokens : Refresh(r, t)
    <2>1. PICK t \in Tokens : Refresh(r, t)
      BY <1>3
    <2> DEFINE new == [Idle EXCEPT !.op = "lookup", !.token = t, !.now = clock]
    <2>2. new \in Request /\ RequestOK(new) /\ SnapshotOK(new) /\ new.held = {} /\ new.next = None
      BY <1>0, <2>1 DEF Refresh, Request, RequestOK, SnapshotOK
    <2>3. Become(r, new) /\ UNCHANGED <<clock, users, rowVars>>
      BY <2>1 DEF Refresh
    <2> HIDE DEF new
    <2> QED
      BY <2>2, <2>3, <1>0, LocalStep DEF rowVars
  <1>4. CASE (\E t \in Tokens : Logout(r, t) \/ LogoutByRefreshToken(r, t)) \/ LookupReused(r)
    <2>1. PICK f \in Tokens \union {None} :
            /\ Become(r, [Idle EXCEPT !.op = "revoke", !.family = f])
            /\ UNCHANGED <<clock, users, rowVars>>
      BY <1>4, <1>0 DEF Logout, LogoutByRefreshToken, LookupReused
    <2> DEFINE new == [Idle EXCEPT !.op = "revoke", !.family = f]
    <2>2. new \in Request /\ RequestOK(new) /\ SnapshotOK(new) /\ new.held = {} /\ new.next = None
      BY DEF Request, RequestOK, SnapshotOK
    <2> QED
      BY <2>1, <2>2, <1>0, LocalStep DEF rowVars
  <1>5. CASE LookupActive(r)
    <2>1. PICK n \in Tokens : Fresh(n) /\ Become(r, [x EXCEPT !.op = "rotate", !.next = n])
      BY <1>5 DEF LookupActive
    <2> DEFINE new == [x EXCEPT !.op = "rotate", !.next = n]
    <2>2. new \in Request /\ RequestOK(new) /\ SnapshotOK(new) /\ new.held = {} /\ new.next = n
      BY <1>0, <1>5 DEF LookupActive, Active, Request, RequestOK, SnapshotOK
    <2>3. Become(r, new) /\ UNCHANGED <<clock, users, rowVars>>
      BY <2>1, <1>5 DEF LookupActive
    <2> HIDE DEF new
    <2> QED
      BY <2>1, <2>2, <2>3, <1>0, LocalStep DEF rowVars
  <1>6. CASE MarkUsed(r) /\ Exchangeable(x.token)
    <2> DEFINE new == [x EXCEPT !.op = "marked", !.held = {x.token}]
    <2>1. new \in Request /\ RequestOK(new) /\ SnapshotOK(new) /\ new.held = {x.token} /\ new.next = x.next
      BY <1>0, <1>6 DEF MarkUsed, Exchangeable, Request, RequestOK, SnapshotOK
    <2>2. \A q \in Requests \ {r} : new.held \intersect req[q].held = {}
      BY <1>6, <2>1 DEF MarkUsed, Locked
    <2>3. Become(r, new) /\ UNCHANGED <<clock, users, rowVars>>
      BY <1>6 DEF MarkUsed
    <2> HIDE DEF new
    <2> QED
      BY <2>1, <2>2, <2>3, <1>0, LocalStep DEF rowVars
  <1>7. CASE InsertNext(r)
    <2> DEFINE new == [x EXCEPT !.op = "inserted"]
    <2>1. new \in Request /\ RequestOK(new) /\ SnapshotOK(new) /\ new.held = x.held /\ new.next = x.next
      BY <1>0, <1>7 DEF InsertNext, Request, RequestOK, SnapshotOK
    <2>2. Become(r, new) /\ UNCHANGED <<clock, users, rowVars>>
      BY <1>7 DEF InsertNext
    <2> HIDE DEF new
    <2> QED
      BY <2>1, <2>2, <1>0, LocalStep DEF rowVars
  <1>8. CASE BeginRevoke(r)
    <2> DEFINE new == [x EXCEPT !.op = "revoking", !.rows = {t \in stored : Revokes(r, t)}]
    <2>1. new \in Request /\ RequestOK(new) /\ new.held = x.held /\ new.next = x.next
      BY <1>0, <1>8 DEF BeginRevoke, Request, RequestOK
    <2>2. SnapshotOK(new)
      BY <1>0, <1>8 DEF BeginRevoke, SnapshotOK, Request, Revokes, IInv, UsedHasOneSuccessor
    <2>3. Become(r, new) /\ UNCHANGED <<clock, users, rowVars>>
      BY <1>8 DEF BeginRevoke
    <2> HIDE DEF new
    <2> QED
      BY <2>1, <2>2, <2>3, <1>0, LocalStep DEF rowVars
  <1>9. CASE \E t \in Tokens : RevokeRow(r, t)
    <2>1. PICK t \in Tokens : RevokeRow(r, t)
      BY <1>9
    <2> DEFINE skip == [x EXCEPT !.rows = @ \ {t}]
               lock == [x EXCEPT !.held = @ \union {t}]
    <2>2. UNCHANGED <<clock, users, rowVars>>
      BY <2>1 DEF RevokeRow
    <2>3. CASE t \in revoked
      <3>1. skip \in Request /\ RequestOK(skip) /\ SnapshotOK(skip) /\ skip.held = x.held /\ skip.next = x.next
        BY <1>0, <2>1, <2>3 DEF RevokeRow, Request, RequestOK, SnapshotOK
      <3>2. Become(r, skip)
        BY <2>1, <2>3 DEF RevokeRow
      <3> HIDE DEF skip
      <3> QED
        BY <3>1, <3>2, <2>2, <1>0, LocalStep DEF rowVars
    <2>4. CASE t \notin revoked
      <3>1. lock \in Request /\ RequestOK(lock) /\ SnapshotOK(lock) /\ lock.held = x.held \union {t} /\ lock.next = x.next
        BY <1>0, <2>1, <2>4 DEF RevokeRow, Request, RequestOK, SnapshotOK
      <3>2. \A q \in Requests \ {r} : lock.held \intersect req[q].held = {}
        BY <2>1, <3>1, <1>0 DEF RevokeRow, Locked
      <3>3. Become(r, lock)
        BY <2>1, <2>4 DEF RevokeRow
      <3> HIDE DEF lock
      <3> QED
        BY <3>1, <3>2, <3>3, <2>2, <1>0, LocalStep DEF rowVars
    <2> QED
      BY <2>3, <2>4
  <1>10. CASE \/ LookupInactive(r) \/ OutOfTokens(r) \/ Fail(r) \/ DeadlockVictim(r)
              \/ MarkUsed(r) /\ ~Exchangeable(x.token)
    <2>1. Finish(r) /\ UNCHANGED <<clock, users, rowVars>>
      BY <1>10 DEF LookupInactive, OutOfTokens, Fail, DeadlockVictim, MarkUsed
    <2> QED
      BY <2>1, FinishStep
  <1> QED
    BY <1>1, <1>2, <1>3, <1>4, <1>5, <1>6, <1>7, <1>8, <1>9, <1>10 DEF Arrive

\* The first row of a login is a family of its own.
LEMMA OpenStep ==
    ASSUME IInv, NEW r \in Requests, OpenSession(r)
    PROVE  IInv'
  <1>1. PICK t \in Tokens :
          /\ Fresh(t)
          /\ stored' = stored \union {t}
          /\ family' = [family EXCEPT ![t] = t]
          /\ owner' = [owner EXCEPT ![t] = req[r].user]
          /\ expiresAt' = [expiresAt EXCEPT ![t] = clock + TTL]
    BY DEF OpenSession
  <1>2. /\ t \notin stored
        /\ req' = [req EXCEPT ![r] = Idle]
        /\ UNCHANGED <<clock, users, used, revoked, prev>>
    BY <1>1 DEF OpenSession, Finish, Become, Fresh
  <1>3. TypeOK'
    BY <1>1, <1>2, IdleOK, ClockAssumption DEF IInv, TypeOK, Request
  <1>4. RequestsOK' /\ SnapshotsOK'
    BY <1>1, <1>2 DEF IInv, TypeOK, RequestsOK, RequestOK, SnapshotsOK, SnapshotOK, Idle
  <1>5. LocksOK' /\ NextsOK'
    BY <1>1, <1>2 DEF IInv, TypeOK, LocksOK, NextsOK, Fresh, Idle
  <1>6. FamiliesOK'
    BY <1>1, <1>2 DEF IInv, TypeOK, FamiliesOK
  <1>7. OneLiveToken'
    BY <1>1, <1>2 DEF IInv, TypeOK, FamiliesOK, OneLiveToken
  <1>8. UsedHasOneSuccessor' /\ RevokedPrefix'
    BY <1>1, <1>2 DEF IInv, TypeOK, FamiliesOK, UsedHasOneSuccessor, RevokedPrefix
  <1> QED
    BY <1>3, <1>4, <1>5, <1>6, <1>7, <1>8 DEF IInv

\* The row lock makes the exchange exclusive: no other request has the token
\* marked, and no revocation that locked it is still running.
LEMMA RotationStep ==
    ASSUME IInv, NEW r \in Requests, CommitRotation(r)
    PROVE  IInv'
  <1> DEFINE t == req[r].token
             n == req[r].next
  <1>1. /\ t \in stored /\ t \notin used /\ t \notin revoked /\ req[r].held = {t}
        /\ n \in Tokens /\ n \notin stored /\ n # None
        /\ req[r].now \in Nat
    BY NoneAssumption DEF CommitRotation, IInv, TypeOK, Request, RequestsOK, RequestOK, NextsOK
  <1>2. /\ used' = used \union {t}
        /\ stored' = stored \union {n}
        /\ family' = [family EXCEPT ![n] = family[t]]
        /\ owner' = [owner EXCEPT ![n] = owner[t]]
        /\ expiresAt' = [expiresAt EXCEPT ![n] = req[r].now + TTL]
        /\ prev' = [prev EXCEPT ![n] = t]
        /\ req' = [req EXCEPT ![r] = Idle]
        /\ UNCHANGED <<clock, users, revoked>>
    BY DEF CommitRotation, Finish, Become
  <1>3. \A q \in Requests \ {r} : t \notin req[q].held /\ req[q].next # n
    BY <1>1 DEF IInv, LocksOK, NextsOK
  <1> HIDE DEF t, n
  <1>4. TypeOK'
    BY <1>1, <1>2, IdleOK, ClockAssumption DEF IInv, TypeOK
  <1>5. RequestsOK'
    BY <1>1, <1>2, <1>3 DEF IInv, TypeOK, RequestsOK, RequestOK, Idle
  <1>6. SnapshotsOK'
    BY <1>1, <1>2 DEF IInv, TypeOK, RequestsOK, RequestOK, SnapshotsOK, SnapshotOK, Idle
  <1>7. LocksOK' /\ NextsOK'
    BY <1>1, <1>2, <1>3 DEF IInv, TypeOK, LocksOK, NextsOK, Idle
  <1>8. FamiliesOK'
    BY <1>1, <1>2 DEF IInv, TypeOK, FamiliesOK
  <1>9. OneLiveToken'
    BY <1>1, <1>2 DEF IInv, TypeOK, OneLiveToken
  <1>10. UsedHasOneSuccessor'
    <2>1. \A s \in stored : prev[s] # t
      BY <1>1, NoneAssumption DEF IInv, TypeOK, UsedHasOneSuccessor
    <2> QED
      BY <1>1, <1>2, <2>1 DEF IInv, TypeOK, UsedHasOneSuccessor
  <1>11. RevokedPrefix'
    BY <1>1, <1>2 DEF IInv, TypeOK, RevokedPrefix
  <1> QED
    BY <1>4, <1>5, <1>6, <1>7, <1>8, <1>9, <1>10, <1>11 DEF IInv

\* The rows that a revocation marks are a snapshot closed under predecessors.
LEMMA RevokeStep ==
    ASSUME IInv, NEW r \in Requests, CommitRevoke(r)
    PROVE  IInv'
  <1>1. /\ req[r].op = "revoking" /\ req[r].rows = req[r].held
        /\ revoked' = revoked \union req[r].held
        /\ req' = [req EXCEPT ![r] = Idle]
        /\ UNCHANGED <<clock, users, stored, family, owner, expiresAt, used, prev>>
    BY DEF CommitRevoke, Finish, Become
  <1>2. req[r].held \subseteq stored
    BY <1>1 DEF IInv, RequestsOK, RequestOK
  <1>3. TypeOK'
    BY <1>1, <1>2, IdleOK DEF IInv, TypeOK
  <1>4. RequestsOK'
    BY <1>1, <1>2 DEF IInv, TypeOK, RequestsOK, RequestOK, LocksOK, Idle
  <1>5. SnapshotsOK'
    BY <1>1 DEF IInv, TypeOK, SnapshotsOK, SnapshotOK, Idle
  <1>6. LocksOK' /\ NextsOK' /\ FamiliesOK' /\ OneLiveToken' /\ UsedHasOneSuccessor'
    BY <1>1 DEF IInv, TypeOK, LocksOK, NextsOK, FamiliesOK, OneLiveToken,
                UsedHasOneSuccessor, Idle
  <1>7. RevokedPrefix'
    BY <1>1 DEF IInv, RevokedPrefix, SnapshotsOK, SnapshotOK
  <1> QED
    BY <1>3, <1>4, <1>5, <1>6, <1>7 DEF IInv

-----------------------------------------------------------------------------

LEMMA InitIInv == Init => IInv
  <1> SUFFICES ASSUME Init PROVE IInv
    OBVIOUS
  <1>1. TypeOK
    BY IdleOK DEF Init, TypeOK
  <1>2. \A r \in Requests : req[r] = Idle
    BY DEF Init
  <1>3. RequestsOK /\ SnapshotsOK
    BY <1>2, IdleOK DEF RequestsOK, SnapshotsOK
  <1>4. LocksOK /\ NextsOK
    BY <1>2 DEF LocksOK, NextsOK, Idle
  <1>5. FamiliesOK /\ OneLiveToken /\ UsedHasOneSuccessor /\ RevokedPrefix
    BY DEF Init, FamiliesOK, OneLiveToken, UsedHasOneSuccessor, RevokedPrefix
  <1> QED
    BY <1>1, <1>3, <1>4, <1>5 DEF IInv

LEMMA NextIInv == IInv /\ [Next]_vars => IInv'
  <1> SUFFICES ASSUME IInv, [Next]_vars PROVE IInv'
    OBVIOUS
  <1>1. CASE \E r \in Requests : Arrive(r) \/ Proceed(r) \/ Fail(r) \/ DeadlockVictim(r)
    BY <1>1, LocalActions, OpenStep, RotationStep, RevokeStep DEF Proceed
  <1>2. CASE Tick
    BY <1>2 DEF Tick, rowVars, IInv, TypeOK, RequestsOK, RequestOK, SnapshotsOK,
         SnapshotOK, LocksOK, NextsOK, FamiliesOK, OneLiveToken,
         UsedHasOneSuccessor, RevokedPrefix
  <1>3. CASE UNCHANGED vars
    BY <1>3 DEF vars, rowVars, IInv, TypeOK, RequestsOK, RequestOK, SnapshotsOK,
         SnapshotOK, LocksOK, NextsOK, FamiliesOK, OneLiveToken,
         UsedHasOneSuccessor, RevokedPrefix
  <1> QED
    BY <1>1, <1>2, <1>3 DEF Next

THEOREM Invariance == Spec => []IInv
  BY InitIInv, NextIInv, PTL DEF Spec

\* Rows, requests and locks keep their types: no token is used or revoked
\* that was never stored.
THEOREM TypeCorrect == Spec => []TypeOK
  BY Invariance, PTL DEF IInv

\* However many requests present the tokens of a login at once, the login
\* never has two tokens that can still be exchanged (RotateWithinFamily).
THEOREM OneLiveTokenHolds == Spec => []OneLiveToken
  BY Invariance, PTL DEF IInv

\* The UPDATE and the INSERT of a rotation are one: a token is used exactly
\* when its single successor, of the same login and user, exists.
THEOREM UsedHasOneSuccessorHolds == Spec => []UsedHasOneSuccessor
  BY Invariance, PTL DEF IInv

\* What RevokeFamily and RevokeAllForUser mark is a prefix of each chain.
THEOREM RevokedPrefixHolds == Spec => []RevokedPrefix
  BY Invariance, PTL DEF IInv

-----------------------------------------------------------------------------
(* Sessions implements SessionChain. *)

\* Steps that commit nothing to `sessions`.
LEMMA NothingCommitted ==
    ASSUME NEW r \in Requests,
           \/ Arrive(r) \/ Fail(r) \/ DeadlockVictim(r) \/ OutOfTokens(r)
           \/ LookupReused(r) \/ LookupInactive(r) \/ LookupActive(r)
           \/ MarkUsed(r) \/ InsertNext(r)
           \/ BeginRevoke(r) \/ \E t \in Tokens : RevokeRow(r, t)
    PROVE  UNCHANGED rowVars
  BY DEF Arrive, Register, Login, LogoutAll, Refresh, Logout, LogoutByRefreshToken,
     Fail, DeadlockVictim, OutOfTokens, LookupReused, LookupInactive, LookupActive,
     MarkUsed, InsertNext, BeginRevoke, RevokeRow

\* CurrentOf picks the live row of a family, which OneLiveToken makes unique.
CurrentOK ==
    \A f \in Tokens :
        /\ \A t \in Live : family[t] = f => CurrentOf(f) = t
        /\ CurrentOf(f) # None => CurrentOf(f) \in Live /\ family[CurrentOf(f)] = f

LEMMA CurrentUnique == IInv => CurrentOK
  BY DEF IInv, OneLiveToken, CurrentOK, CurrentOf, Live

LEMMA CurrentUniqueNext == IInv' => CurrentOK'
  BY CurrentUnique, PTL

\* Steps that commit nothing to `sessions` are invisible.
LEMMA InvisibleStep ==
    ASSUME IInv, IInv', UNCHANGED <<stored, family, used, revoked>>
    PROVE  UNCHANGED Chain!vars
  <1>1. \A f \in Tokens : CurrentOf(f)' = CurrentOf(f)
    BY DEF CurrentOf, Live
  <1> QED
    BY <1>1 DEF Chain!vars

LEMMA OpenRefines ==
    ASSUME IInv, IInv', NEW r \in Requests, OpenSession(r)
    PROVE  Chain!Next
  <1>1. PICK t \in Tokens :
          /\ Fresh(t)
          /\ stored' = stored \union {t}
          /\ family' = [family EXCEPT ![t] = t]
    BY DEF OpenSession
  <1>2. t \notin stored /\ UNCHANGED <<used, revoked>>
    BY <1>1 DEF OpenSession, Fresh
  <1>3. CurrentOK /\ CurrentOK'
    BY CurrentUnique, CurrentUniqueNext
  <1>4. t \notin used \union revoked /\ \A f \in Tokens : CurrentOf(f) # t
    BY <1>2, <1>3, NoneAssumption DEF CurrentOK, Live, IInv, TypeOK
  <1>5. \A f \in Tokens : CurrentOf(f)' = IF f = t THEN t ELSE CurrentOf(f)
    <2> SUFFICES ASSUME NEW f \in Tokens
                 PROVE  CurrentOf(f)' = IF f = t THEN t ELSE CurrentOf(f)
      OBVIOUS
    <2>1. Live' = Live \union {t}
      BY <1>1, <1>2, <1>4 DEF Live
    <2>2. \A s \in Live : s # t /\ family'[s] = family[s] /\ s \in Tokens
      BY <1>1, <1>2 DEF Live, IInv, TypeOK
    <2>3. family'[t] = t
      BY <1>1 DEF IInv, TypeOK
    <2>4. \A s \in Live : family[s] # t
      BY <1>2 DEF IInv, FamiliesOK, Live
    <2> HIDE DEF Live, CurrentOf
    <2> QED
      BY <1>3, <2>1, <2>2, <2>3, <2>4 DEF CurrentOK
  <1>6. Chain!Open(t)
    BY <1>2, <1>4, <1>5 DEF Chain!Open, Chain!Unseen
  <1> QED
    BY <1>6 DEF Chain!Next

LEMMA RotationRefines ==
    ASSUME IInv, IInv', NEW r \in Requests, CommitRotation(r)
    PROVE  Chain!Next
  <1> DEFINE t == req[r].token
             n == req[r].next
             f0 == family[t]
  <1>1. /\ t \in stored /\ t \notin used /\ t \notin revoked
        /\ n \in Tokens /\ n \notin stored
    BY NoneAssumption DEF CommitRotation, IInv, TypeOK, Request, RequestsOK, RequestOK, NextsOK
  <1>2. /\ used' = used \union {t}
        /\ stored' = stored \union {n}
        /\ family' = [family EXCEPT ![n] = f0]
        /\ UNCHANGED revoked
    BY DEF CommitRotation
  <1>3. CurrentOK /\ CurrentOK'
    BY CurrentUnique, CurrentUniqueNext
  <1>4. f0 \in Tokens
    BY <1>1 DEF IInv, TypeOK, FamiliesOK
  <1> HIDE DEF t, n, f0
  <1>5. CurrentOf(f0) = t
    BY <1>1, <1>3, <1>4 DEF CurrentOK, Live, f0
  <1>6. n \notin used \union revoked /\ \A f \in Tokens : CurrentOf(f) # n
    BY <1>1, <1>3, NoneAssumption DEF CurrentOK, Live, IInv, TypeOK
  <1>7. \A f \in Tokens : CurrentOf(f)' = IF f = f0 THEN n ELSE CurrentOf(f)
    <2> SUFFICES ASSUME NEW f \in Tokens
                 PROVE  CurrentOf(f)' = IF f = f0 THEN n ELSE CurrentOf(f)
      OBVIOUS
    <2>1. Live' = (Live \ {t}) \union {n}
      BY <1>1, <1>2, <1>6 DEF Live
    <2>2. \A s \in Live : s # n /\ family'[s] = family[s] /\ s \in Tokens
      BY <1>1, <1>2 DEF Live, IInv, TypeOK
    <2>3. family'[n] = f0
      BY <1>1, <1>2 DEF IInv, TypeOK
    <2>4. family[t] = f0
      BY DEF f0
    <2> HIDE DEF Live, CurrentOf
    <2> QED
      BY <1>3, <1>5, <2>1, <2>2, <2>3, <2>4 DEF CurrentOK
  <1>8. Chain!Exchange(f0, n)
    <2>1. t # None
      BY <1>1, NoneAssumption DEF IInv, TypeOK
    <2> QED
      BY <1>2, <1>4, <1>5, <1>6, <1>7, <2>1 DEF Chain!Exchange, Chain!Unseen
  <1> QED
    BY <1>1, <1>4, <1>8 DEF Chain!Next

\* The logins that lose their token are those whose live row is in the
\* snapshot; the used rows of the snapshot were spent before.
LEMMA RevokeRefines ==
    ASSUME IInv, IInv', NEW r \in Requests, CommitRevoke(r)
    PROVE  Chain!Next
  <1> DEFINE held == req[r].held
             F == {f \in Tokens : CurrentOf(f) \in held}
  <1>1. /\ revoked' = revoked \union held
        /\ UNCHANGED <<stored, family, used>>
    BY DEF CommitRevoke
  <1>2. held \subseteq stored
    BY DEF CommitRevoke, IInv, RequestsOK, RequestOK
  <1>3. CurrentOK /\ CurrentOK'
    BY CurrentUnique, CurrentUniqueNext
  <1> HIDE DEF held
  <1>4. Live' = Live \ held
    BY <1>1 DEF Live
  <1>5. None \notin held /\ None \notin Live
    BY <1>2, NoneAssumption DEF IInv, TypeOK, Live
  <1>6. \A f \in Tokens : CurrentOf(f)' = IF f \in F THEN None ELSE CurrentOf(f)
    <2> HIDE DEF Live, CurrentOf
    <2> QED
      BY <1>1, <1>3, <1>4, <1>5 DEF CurrentOK
  <1>7. (used \union revoked)' = (used \union revoked) \union {CurrentOf(f) : f \in F}
    <2>1. ASSUME NEW t \in held, t \notin used \union revoked
          PROVE  \E f \in F : t = CurrentOf(f)
      <3>1. t \in Live /\ family[t] \in Tokens
        BY <1>2, <2>1 DEF Live, IInv, TypeOK, FamiliesOK
      <3>2. CurrentOf(family[t]) = t
        BY <1>3, <3>1 DEF CurrentOK
      <3> QED
        BY <2>1, <3>1, <3>2
    <2> QED
      BY <1>1, <2>1
  <1>8. Chain!Close(F)
    BY <1>5, <1>6, <1>7 DEF Chain!Close
  <1>9. F \in SUBSET Tokens
    OBVIOUS
  <1> HIDE DEF F
  <1> QED
    BY <1>8, <1>9 DEF Chain!Next

LEMMA NextRefines == IInv /\ IInv' /\ [Next]_vars => [Chain!Next]_(Chain!vars)
  <1> SUFFICES ASSUME IInv, IInv', [Next]_vars PROVE [Chain!Next]_(Chain!vars)
    OBVIOUS
  <1>1. ASSUME NEW r \in Requests,
               OpenSession(r) \/ CommitRotation(r) \/ CommitRevoke(r)
        PROVE  Chain!Next
    BY <1>1, OpenRefines, RotationRefines, RevokeRefines
  <1>2. ASSUME NEW r \in Requests,
               \/ Arrive(r) \/ Fail(r) \/ DeadlockVictim(r) \/ OutOfTokens(r)
               \/ LookupReused(r) \/ LookupInactive(r) \/ LookupActive(r)
               \/ MarkUsed(r) \/ InsertNext(r)
               \/ BeginRevoke(r) \/ \E t \in Tokens : RevokeRow(r, t)
        PROVE  UNCHANGED <<stored, family, used, revoked>>
    BY <1>2, NothingCommitted DEF rowVars
  <1>3. Tick \/ UNCHANGED vars => UNCHANGED <<stored, family, used, revoked>>
    BY DEF Tick, vars, rowVars
  <1> QED
    BY <1>1, <1>2, <1>3, InvisibleStep DEF Next, Proceed

\* Every run of the transactions and statements is a run of the abstract
\* chain: a token spent stays spent, a login that lost its token stays closed.
THEOREM Implementation == Spec => ImplementsChain
  <1>1. Init => Chain!Init
    BY DEF Init, Chain!Init, CurrentOf, Live
  <1> QED
    BY <1>1, Invariance, NextRefines, PTL DEF Spec, ImplementsChain, Chain!Spec

-----------------------------------------------------------------------------

\* A token that expired is spent by nobody but a request that read the clock
\* before: Refresh compares a stale `now`, but one that is never too late.
THEOREM ExpiredStaysUnspentHolds == Spec => ExpiredStaysUnspent
  <1>1. ASSUME IInv, [Next]_vars, NEW t \in stored \ used,
               ~InFlight(t), t \in used'
        PROVE  FALSE
    <2>1. PICK r \in Requests : CommitRotation(r)
      <3>1. ASSUME NEW r \in Requests, ~CommitRotation(r),
                   Arrive(r) \/ Proceed(r) \/ Fail(r) \/ DeadlockVictim(r)
            PROVE  used' = used
        BY <3>1 DEF Arrive, Register, Login, LogoutAll, Refresh, Logout,
             LogoutByRefreshToken, Fail, DeadlockVictim, OutOfTokens, Proceed,
             LookupReused, LookupInactive, LookupActive, MarkUsed, InsertNext,
             BeginRevoke, RevokeRow, OpenSession, CommitRevoke, rowVars
      <3> QED
        BY <1>1, <3>1 DEF Next, Tick, vars, rowVars
    <2>2. req[r].token = t
      BY <1>1, <2>1 DEF CommitRotation
    <2>3. req[r].now < expiresAt[t]
      BY <1>1, <2>1, <2>2 DEF CommitRotation, IInv, RequestsOK, RequestOK
    <2> QED
      BY <1>1, <2>2, <2>3 DEF InFlight
  <1>2. IInv /\ [Next]_vars =>
            [\A t \in stored \ used :
                clock >= expiresAt[t] /\ ~InFlight(t) => t \notin used']_vars
    BY <1>1
  <1> QED
    BY <1>2, Invariance, PTL DEF Spec, ExpiredStaysUnspent

-----------------------------------------------------------------------------

\* A login that is over is never revived: a new login has an id of its own, and
\* an exchange needs a live token of the same login.
THEOREM OverForGoodHolds == Spec => OverForGood
  <1>1. ASSUME IInv, [Next]_vars, NEW f \in Tokens, Over(f) PROVE Over(f)'
    <2>0. /\ f \in stored /\ \A t \in Live : family[t] # f
          /\ stored \subseteq Tokens
          /\ family \in [Tokens -> Tokens \union {None}]
      BY <1>1 DEF Over, IInv, TypeOK
    <2>1. ASSUME NEW r \in Requests, OpenSession(r) PROVE Over(f)'
      <3>1. PICK t \in Tokens : /\ Fresh(t)
                                /\ stored' = stored \union {t}
                                /\ family' = [family EXCEPT ![t] = t]
        BY <2>1 DEF OpenSession
      <3>2. t \notin stored /\ UNCHANGED <<used, revoked>>
        BY <2>1, <3>1 DEF OpenSession, Fresh
      <3> QED
        BY <2>0, <3>1, <3>2 DEF Over, Live
    <2>2. ASSUME NEW r \in Requests, CommitRotation(r) PROVE Over(f)'
      <3> DEFINE t == req[r].token
                 n == req[r].next
      <3>1. /\ t \in stored /\ t \notin used /\ t \notin revoked
            /\ n \in Tokens /\ n \notin stored
        BY <1>1, <2>2, NoneAssumption
           DEF CommitRotation, IInv, TypeOK, Request, RequestsOK, RequestOK, NextsOK
      <3>2. /\ stored' = stored \union {n} /\ used' = used \union {t}
            /\ family' = [family EXCEPT ![n] = family[t]]
            /\ UNCHANGED revoked
        BY <2>2 DEF CommitRotation
      <3>3. family[t] # f
        BY <2>0, <3>1 DEF Live
      <3> HIDE DEF t, n
      <3> QED
        BY <2>0, <3>1, <3>2, <3>3 DEF Over, Live
    <2>3. ASSUME NEW r \in Requests, CommitRevoke(r) PROVE Over(f)'
      BY <2>0, <2>3 DEF CommitRevoke, Over, Live
    <2>4. UNCHANGED rowVars => Over(f)'
      BY <2>0 DEF rowVars, Over, Live
    <2>5. Tick \/ UNCHANGED vars => UNCHANGED rowVars
      BY DEF Tick, vars
    <2> QED
      BY <1>1, <2>1, <2>2, <2>3, <2>4, <2>5, NothingCommitted DEF Next, Proceed
  <1>2. IInv /\ [Next]_vars => [\A f \in Tokens : Over(f) => Over(f)']_vars
    BY <1>1
  <1> QED
    BY <1>2, Invariance, PTL DEF Spec, OverForGood

\* A revocation misses nothing but rows that were committed while it ran.
THEOREM RevocationMissesOnlyNewHolds == Spec => RevocationMissesOnlyNew
  <1> DEFINE Ends(r) == \/ req'[r] = Idle /\ {t \in stored : Revokes(r, t)} \subseteq revoked'
                        \/ req'[r] = Idle /\ revoked' = revoked
  <1>1. ASSUME IInv, [Next]_vars, NEW r \in Requests, Covers(r), stored' = stored
        PROVE  Covers(r)' \/ Ends(r)
    <2>0. /\ req[r].op = "revoking" /\ \A t \in stored : Revokes(r, t) => t \in req[r].rows
          /\ req[r] \in Request /\ req \in [Requests -> Request]
      BY <1>1 DEF Covers, IInv, TypeOK
    <2>1. ASSUME NEW t \in Tokens, RevokeRow(r, t) PROVE Covers(r)'
      <3>1. /\ UNCHANGED rowVars /\ req'[r].op = "revoking"
            /\ req'[r].family = req[r].family /\ req'[r].user = req[r].user
            /\ req'[r].rows = IF t \in revoked THEN req[r].rows \ {t} ELSE req[r].rows
        BY <2>0, <2>1 DEF RevokeRow, Become, Request
      <3> QED
        BY <2>0, <3>1 DEF Covers, Revokes, rowVars
    <2>2. ASSUME CommitRevoke(r) PROVE Ends(r)
      BY <2>0, <2>2 DEF CommitRevoke, Finish, Become
    <2>3. ASSUME Fail(r) \/ DeadlockVictim(r) PROVE Ends(r)
      BY <2>0, <2>3 DEF Fail, DeadlockVictim, Finish, Become, rowVars
    <2>4. ASSUME req'[r] = req[r], revoked \subseteq revoked',
                 UNCHANGED <<family, owner>>
          PROVE  Covers(r)'
      BY <1>1, <2>0, <2>4 DEF Covers, Revokes
    <2>5. ASSUME NEW q \in Requests \ {r},
                 Arrive(q) \/ Proceed(q) \/ Fail(q) \/ DeadlockVictim(q)
          PROVE  Covers(r)'
      <3>1. req'[r] = req[r]
        BY <2>5, <2>0 DEF Arrive, Register, Login, LogoutAll, Refresh, Logout,
           LogoutByRefreshToken, Proceed, OpenSession, LookupReused, LookupInactive,
           LookupActive, MarkUsed, InsertNext, CommitRotation, BeginRevoke, RevokeRow,
           CommitRevoke, OutOfTokens, Fail, DeadlockVictim, Finish, Become
      <3>2. ~OpenSession(q)
        BY <1>1 DEF OpenSession, Fresh
      <3>3. ~CommitRotation(q)
        BY <1>1, NoneAssumption DEF CommitRotation, IInv, NextsOK, RequestsOK, RequestOK
      <3>4. CommitRevoke(q) => revoked \subseteq revoked' /\ UNCHANGED <<family, owner>>
        BY DEF CommitRevoke
      <3> QED
        BY <2>4, <2>5, <3>1, <3>2, <3>3, <3>4, NothingCommitted DEF Proceed, rowVars
    <2>6. ASSUME Arrive(r) \/ Proceed(r)
          PROVE  CommitRevoke(r) \/ \E t \in Tokens : RevokeRow(r, t)
      <3>0. req[r] # Idle
        BY <2>0 DEF Idle
      <3>1. ~Arrive(r)
        BY <3>0 DEF Arrive, Register, Login, LogoutAll, Refresh, Logout,
           LogoutByRefreshToken
      <3> QED
        BY <2>0, <2>6, <3>1 DEF Proceed, OpenSession, LookupReused, LookupInactive,
           LookupActive, MarkUsed, InsertNext, CommitRotation, BeginRevoke, OutOfTokens
    <2>7. Tick \/ UNCHANGED vars => Covers(r)'
      BY <2>4 DEF Tick, vars, rowVars
    <2> QED
      BY <1>1, <2>1, <2>2, <2>3, <2>5, <2>6, <2>7 DEF Next
  <1>2. IInv /\ [Next]_vars =>
            [\A r \in Requests : Covers(r) /\ stored' = stored =>
                \/ Covers(r)'
                \/ req'[r] = Idle /\ {t \in stored : Revokes(r, t)} \subseteq revoked'
                \/ req'[r] = Idle /\ revoked' = revoked]_vars
    BY <1>1
  <1> QED
    BY <1>2, Invariance, PTL DEF Spec, RevocationMissesOnlyNew

=============================================================================
