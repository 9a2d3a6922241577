----------------------------- MODULE StaffProofs -----------------------------
(***************************************************************************)
(* Proofs about Staff, for any number of users and of overlapping requests, *)
(* and, at the end, for what holds until two requests have overlapped.      *)
(***************************************************************************)
EXTENDS Staff, TLAPS

\* What a request carries at each point of its program.
RequestOK(x) ==
    /\ x.op # "idle" => x.target \in Users
    /\ x.op = "authorize" => x.actor \in Users
    /\ x.op \in {"update", "archive", "delete", "check", "commit"} => x.new \in Roles
    /\ x.op = "commit" => x.seen # {} /\ (x.new # "ADMIN" => x.target \notin x.seen)
    /\ x.op \in {"authorize", "setStatus"} => x.new \in {"PUBLISHED", "BLOCKED"}
    /\ x.op \in {"check", "commit", "authorize", "setStatus"} => card[x.target] # "NONE"

RequestsOK == \A r \in Requests : RequestOK(req[r])

IInv == TypeOK /\ RequestsOK /\ MemberHasCard

Reads(r) ==
    \/ Arrive(r) \/ Fail(r) \/ UpdateRole(r) \/ ArchiveCard(r) \/ DeleteMember(r)
    \/ KeepAdmin(r) \/ AuthorizeCard(r)

-----------------------------------------------------------------------------

LEMMA InitIInv == Init => IInv
  <1> SUFFICES ASSUME Init PROVE IInv
    OBVIOUS
  <1>1. Idle \in Request
    BY DEF Idle, Request, Ops, Roles, Cards
  <1>2. TypeOK
    BY <1>1 DEF Init, TypeOK, Roles, Cards
  <1>3. RequestsOK
    BY DEF Init, RequestsOK, RequestOK, Idle
  <1>4. MemberHasCard
    BY DEF Init, MemberHasCard, Idle
  <1> QED
    BY <1>2, <1>3, <1>4 DEF IInv

\* A step that only rewrites the record of one request.
LEMMA LocalStep ==
    ASSUME IInv, NEW r \in Requests, NEW new \in Request,
           Become(r, new), UNCHANGED <<role, card>>, overlapped' \in BOOLEAN,
           RequestOK(new)
    PROVE  IInv'
  <1> USE DEF Become
  <1>1. TypeOK'
    BY DEF IInv, TypeOK
  <1>2. /\ req'[r] = new
        /\ \A q \in Requests \ {r} : req'[q] = req[q]
    BY DEF IInv, TypeOK
  <1>3. RequestsOK'
    BY <1>2 DEF IInv, RequestsOK, RequestOK
  <1>4. MemberHasCard'
    BY <1>2 DEF IInv, MemberHasCard, RequestOK
  <1> QED
    BY <1>1, <1>3, <1>4 DEF IInv

\* Starting, reading, locking and giving up change no row.
LEMMA ReadsStep ==
    ASSUME IInv, NEW r \in Requests, Reads(r),
           overlapped' \in BOOLEAN
    PROVE  IInv'
  <1> DEFINE x == req[r]
  <1>0. /\ x \in Request /\ RequestOK(x)
        /\ role \in [Users -> Roles] /\ card \in [Users -> Cards]
        /\ \A u \in Users : role[u] # "NONE" => card[u] # "NONE"
    BY DEF IInv, TypeOK, RequestsOK, MemberHasCard
  <1>i. Idle \in Request /\ RequestOK(Idle)
    BY DEF Idle, Request, RequestOK, Ops, Roles, Cards
  <1>f. ASSUME Finish(r), UNCHANGED <<role, card>> PROVE IInv'
    BY <1>i, <1>f, LocalStep DEF Finish
  <1>1. CASE Arrive(r)
    <2>1. PICK a \in Users, u \in Users :
              \/ \E new \in {"EMPLOYEE", "ADMIN"} : SetRole(r, a, u, new)
              \/ RemoveEmployee(r, a, u)
              \/ \E status \in {"PUBLISHED", "BLOCKED"} : ReadCard(r, a, u, status)
      BY <1>1 DEF Arrive, Publish, Block
    <2>2. CASE \E new \in {"EMPLOYEE", "ADMIN"} : SetRole(r, a, u, new)
      <3>1. PICK new \in {"EMPLOYEE", "ADMIN"} : SetRole(r, a, u, new)
        BY <2>2
      <3> DEFINE y == [Idle EXCEPT !.op = "update", !.target = u, !.new = new]
      <3>2. y \in Request /\ RequestOK(y)
        BY DEF Idle, Request, RequestOK, Ops, Roles, Cards
      <3> QED
        BY <3>1, <3>2, LocalStep DEF SetRole
    <2>3. CASE RemoveEmployee(r, a, u)
      <3> DEFINE y == [Idle EXCEPT !.op = "archive", !.target = u]
      <3>1. y \in Request /\ RequestOK(y)
        BY DEF Idle, Request, RequestOK, Ops, Roles, Cards
      <3> QED
        BY <2>3, <3>1, LocalStep DEF RemoveEmployee
    <2>4. CASE \E status \in {"PUBLISHED", "BLOCKED"} : ReadCard(r, a, u, status)
      <3>1. PICK status \in {"PUBLISHED", "BLOCKED"} : ReadCard(r, a, u, status)
        BY <2>4
      <3> DEFINE y == [Idle EXCEPT !.op = "authorize", !.actor = a, !.target = u,
                                   !.new = status, !.card = card[u]]
      <3>2. y \in Request /\ RequestOK(y)
        BY <1>0, <3>1 DEF ReadCard, Idle, Request, RequestOK, Ops, Roles, Cards
      <3> QED
        BY <3>1, <3>2, LocalStep DEF ReadCard
    <2> QED
      BY <2>1, <2>2, <2>3, <2>4
  <1>2. CASE Fail(r)
    BY <1>2, <1>f DEF Fail
  <1>3. CASE UpdateRole(r) \/ DeleteMember(r)
    <2> DEFINE y == [x EXCEPT !.op = "check"]
    <2>1. role[x.target] # "NONE" /\ x.op \in {"update", "delete"}
              => y \in Request /\ RequestOK(y)
      BY <1>0 DEF Request, RequestOK, Ops
    <2> QED
      BY <1>3, <2>1, <1>f, LocalStep DEF UpdateRole, DeleteMember
  <1>4. CASE ArchiveCard(r)
    <2> DEFINE y == [x EXCEPT !.op = "delete",
                              !.archives = card[x.target] \notin {"NONE", "ARCHIVED"}]
    <2>1. y \in Request /\ RequestOK(y)
      BY <1>0, <1>4 DEF ArchiveCard, Request, RequestOK, Ops
    <2> QED
      BY <1>4, <2>1, LocalStep DEF ArchiveCard
  <1>5. CASE KeepAdmin(r)
    <2> DEFINE y == [x EXCEPT !.op = "commit", !.seen = AdminsSeen(r)]
    <2>1. AdminsSeen(r) \in SUBSET Users /\ (x.new # "ADMIN" => x.target \notin AdminsSeen(r))
      BY <1>0, <1>5 DEF KeepAdmin, AdminsSeen, Admins, RequestOK
    <2>2. AdminsSeen(r) # {} => y \in Request /\ RequestOK(y)
      BY <1>0, <1>5, <2>1 DEF KeepAdmin, Request, RequestOK, Ops
    <2> QED
      BY <1>5, <2>2, <1>f, LocalStep DEF KeepAdmin
  <1>6. CASE AuthorizeCard(r)
    <2> DEFINE y == [Idle EXCEPT !.op = "setStatus", !.target = x.target, !.new = x.new,
                                 !.admin = role[x.actor] = "ADMIN"]
    <2>1. y \in Request /\ RequestOK(y)
      BY <1>0, <1>6 DEF AuthorizeCard, Idle, Request, RequestOK, Ops, Roles, Cards
    <2> QED
      BY <1>6, <2>1, <1>f, LocalStep DEF AuthorizeCard
  <1> QED
    BY <1>1, <1>2, <1>3, <1>4, <1>5, <1>6 DEF Reads

\* A commit writes a role, keeps every card and can only archive one.
LEMMA CommitStep ==
    ASSUME IInv, NEW r \in Requests, Commit(r),
           overlapped' \in BOOLEAN
    PROVE  IInv'
  <1> DEFINE x == req[r]
  <1>0. /\ x \in Request /\ RequestOK(x) /\ x.op = "commit"
        /\ role \in [Users -> Roles] /\ card \in [Users -> Cards]
    BY DEF IInv, TypeOK, RequestsOK, Commit
  <1>i. Idle \in Request /\ RequestOK(Idle)'
    BY DEF Idle, Request, RequestOK, Ops, Roles, Cards
  <1>1. /\ req'[r] = Idle
        /\ \A q \in Requests \ {r} : req'[q] = req[q]
    BY DEF IInv, TypeOK, Commit, Finish, Become
  <1>2. TypeOK'
    BY <1>0, <1>i DEF IInv, TypeOK, Commit, Finish, Become, RequestOK, Cards
  <1>3. \A u \in Users : card[u] # "NONE" => card'[u] # "NONE"
    BY <1>0 DEF Commit
  <1>4. RequestsOK'
    <2> SUFFICES ASSUME NEW q \in Requests PROVE RequestOK(req[q])'
      BY DEF RequestsOK
    <2>1. CASE q = r
      BY <2>1, <1>1, <1>i
    <2>2. CASE q # r
      <3>1. RequestOK(req[q]) /\ req'[q] = req[q]
        BY <2>2, <1>1 DEF IInv, RequestsOK
      <3> QED
        BY <3>1, <1>3 DEF RequestOK
    <2> QED
      BY <2>1, <2>2
  <1>5. MemberHasCard'
    <2>1. card'[x.target] # "NONE"
      BY <1>0, <1>3 DEF RequestOK
    <2>2. \A u \in Users : role'[u] # "NONE" => card'[u] # "NONE"
      BY <1>0, <1>3, <2>1 DEF Commit, IInv, MemberHasCard
    <2>3. \A q \in Requests : req'[q].op = "setStatus" => card'[req'[q].target] # "NONE"
      BY <1>4 DEF RequestsOK, RequestOK
    <2> QED
      BY <2>2, <2>3 DEF MemberHasCard
  <1> QED
    BY <1>2, <1>4, <1>5 DEF IInv

LEMMA SetStatusStep ==
    ASSUME IInv, NEW r \in Requests, SetStatus(r),
           overlapped' \in BOOLEAN
    PROVE  IInv'
  <1> DEFINE x == req[r]
  <1>0. /\ x \in Request /\ RequestOK(x) /\ x.op = "setStatus"
        /\ role \in [Users -> Roles] /\ card \in [Users -> Cards]
    BY DEF IInv, TypeOK, RequestsOK, SetStatus
  <1>i. Idle \in Request /\ RequestOK(Idle)'
    BY DEF Idle, Request, RequestOK, Ops, Roles, Cards
  <1>1. /\ req'[r] = Idle
        /\ \A q \in Requests \ {r} : req'[q] = req[q]
    BY DEF IInv, TypeOK, SetStatus, Finish, Become
  <1>2. TypeOK'
    BY <1>0, <1>i DEF IInv, TypeOK, SetStatus, Finish, Become, RequestOK, Cards
  <1>3. \A u \in Users : card[u] # "NONE" => card'[u] # "NONE"
    BY <1>0 DEF SetStatus, RequestOK
  <1>4. RequestsOK'
    <2> SUFFICES ASSUME NEW q \in Requests PROVE RequestOK(req[q])'
      BY DEF RequestsOK
    <2>1. CASE q = r
      BY <2>1, <1>1, <1>i
    <2>2. CASE q # r
      <3>1. RequestOK(req[q]) /\ req'[q] = req[q]
        BY <2>2, <1>1 DEF IInv, RequestsOK
      <3> QED
        BY <3>1, <1>3 DEF RequestOK
    <2> QED
      BY <2>1, <2>2
  <1>5. MemberHasCard'
    <2>1. \A q \in Requests : req'[q].op = "setStatus" => card'[req'[q].target] # "NONE"
      BY <1>4 DEF RequestsOK, RequestOK
    <2> QED
      BY <2>1, <1>3 DEF SetStatus, IInv, MemberHasCard
  <1> QED
    BY <1>2, <1>4, <1>5 DEF IInv

\* Whoever joins gets a card, or keeps the one he had.
LEMMA JoinStep ==
    ASSUME IInv, NEW r \in Requests, Invited(r),
           overlapped' \in BOOLEAN
    PROVE  IInv'
  <1>0. PICK u \in Users, new \in {"EMPLOYEE", "ADMIN"} : Join(r, u, new)
    BY DEF Invited
  <1>1. TypeOK'
    BY <1>0 DEF Join, IInv, TypeOK, Roles, Cards
  <1>2. /\ \A v \in Users : card[v] # "NONE" => card'[v] # "NONE"
        /\ card'[u] # "NONE"
        /\ \A v \in Users \ {u} : role'[v] = role[v]
    BY <1>0 DEF Join, IInv, TypeOK
  <1>3. RequestsOK'
    <2> SUFFICES ASSUME NEW q \in Requests PROVE RequestOK(req[q])'
      BY DEF RequestsOK
    <2>1. RequestOK(req[q]) /\ req'[q] = req[q]
      BY <1>0 DEF IInv, RequestsOK, Join
    <2> QED
      BY <2>1, <1>2 DEF RequestOK
  <1>4. MemberHasCard'
    <2>1. \A q \in Requests : req'[q].op = "setStatus" => card'[req'[q].target] # "NONE"
      BY <1>3 DEF RequestsOK, RequestOK
    <2> QED
      BY <2>1, <1>2 DEF IInv, MemberHasCard
  <1> QED
    BY <1>1, <1>3, <1>4 DEF IInv

LEMMA NextIInv == IInv /\ [Next]_vars => IInv'
  <1> SUFFICES ASSUME IInv, [Next]_vars PROVE IInv'
    OBVIOUS
  <1>0. [Next]_vars => overlapped' \in BOOLEAN
    BY DEF Next, Begin, Proceed, Overlaps, vars, IInv, TypeOK
  <1>1. ASSUME NEW r \in Requests, Begin(r) \/ Proceed(r) PROVE IInv'
    <2>1. Arrive(r) \/ Invited(r) \/ Change(r)
      BY <1>1 DEF Begin, Proceed
    <2> QED
      BY <1>0, <2>1, ReadsStep, CommitStep, SetStatusStep, JoinStep DEF Change, Reads
  <1>2. CASE UNCHANGED vars
    BY <1>2 DEF vars, IInv, TypeOK, RequestsOK, RequestOK, MemberHasCard
  <1> QED
    BY <1>1, <1>2 DEF Next

LEMMA Invariance == Spec => []IInv
  BY InitIInv, NextIInv, PTL DEF Spec

\* The rows and the running requests keep their types.
THEOREM TypeCorrect == Spec => []TypeOK
  BY Invariance, PTL DEF IInv

\* Every member has a card, under every interleaving.
THEOREM MemberHasCardHolds == Spec => []MemberHasCard
  BY Invariance, PTL DEF IInv

-----------------------------------------------------------------------------

\* The trigger does not keep the last admin, but loses him only to a commit
\* that another commit overlapped.
THEOREM AdminLostOnlyInWindowHolds == Spec => AdminLostOnlyInWindow
  <1> DEFINE Lost(r) == /\ req[r].op = "commit"
                        /\ req[r].seen # {}
                        /\ req[r].seen \intersect Admins = {}
  <1>1. ASSUME IInv, [Next]_vars, Admins # {}, Admins' = {}
        PROVE  \E r \in Requests : Lost(r)
    <2>0. role \in [Users -> Roles]
      BY <1>1 DEF IInv, TypeOK
    <2>1. PICK r \in Requests : Commit(r)
      <3>1. ASSUME NEW r \in Requests, Invited(r) PROVE Admins \subseteq Admins'
        BY <3>1, <2>0 DEF Invited, Join, Admins
      <3>2. ASSUME NEW r \in Requests, Reads(r) \/ SetStatus(r) PROVE role' = role
        BY <3>2 DEF Reads, Arrive, SetRole, RemoveEmployee, Publish, Block, ReadCard, Fail,
             UpdateRole, ArchiveCard, DeleteMember, KeepAdmin, AuthorizeCard, SetStatus
      <3> QED
        BY <1>1, <3>1, <3>2 DEF Next, Begin, Proceed, Change, Reads, vars, Admins
    <2> DEFINE x == req[r]
    <2>2. RequestOK(x) /\ x.op = "commit" /\ x.target \in Users
      BY <1>1, <2>1 DEF IInv, RequestsOK, RequestOK, Commit
    <2>3. x.new # "ADMIN"
      BY <1>1, <2>0, <2>1, <2>2 DEF Commit, Admins
    <2>4. Admins \subseteq {x.target}
      BY <1>1, <2>0, <2>1, <2>2 DEF Commit, Admins
    <2> QED
      BY <2>2, <2>3, <2>4 DEF RequestOK
  <1>2. IInv /\ [Next]_vars =>
            [Admins # {} /\ Admins' = {} => \E r \in Requests : Lost(r)]_vars
    BY <1>1
  <1> QED
    BY <1>2, Invariance, PTL DEF Spec, AdminLostOnlyInWindow

\* A request comes to be about to write a status in two ways only: it has just
\* read the card, or what it had read has just been judged by MayWrite.
LEMMA NewWriter ==
    ASSUME IInv, NEW r \in Requests, Arrive(r) \/ Invited(r) \/ Change(r),
           NEW q \in Requests, req'[q] # req[q], req'[q].op \in {"authorize", "setStatus"}
    PROVE  \/ /\ req'[q].op = "authorize"
              /\ req'[q].card = card[req'[q].target]
           \/ /\ req[q].op = "authorize" /\ req'[q].op = "setStatus"
              /\ req'[q].target = req[q].target /\ req'[q].new = req[q].new
              /\ MayWrite(req[q], req'[q].admin)
  <1>0. req \in [Requests -> Request]
    BY DEF IInv, TypeOK
  <1>1. ASSUME NEW y, Become(r, y) PROVE q = r /\ req'[q] = y
    BY <1>1, <1>0 DEF Become
  <1>2. CASE \E a, v \in Users, status \in {"PUBLISHED", "BLOCKED"} : ReadCard(r, a, v, status)
    <2>1. PICK a \in Users, v \in Users, status \in {"PUBLISHED", "BLOCKED"} :
                ReadCard(r, a, v, status)
      BY <1>2
    <2> DEFINE y == [Idle EXCEPT !.op = "authorize", !.actor = a, !.target = v,
                                 !.new = status, !.card = card[v]]
    <2>2. req'[q] = y
      BY <2>1, <1>1 DEF ReadCard
    <2> QED
      BY <2>2 DEF Idle
  <1>3. CASE AuthorizeCard(r)
    <2> DEFINE y == [Idle EXCEPT !.op = "setStatus", !.target = req[r].target,
                                 !.new = req[r].new,
                                 !.admin = role[req[r].actor] = "ADMIN"]
    <2>1. q = r /\ req'[q] = y /\ MayWrite(req[r], role[req[r].actor] = "ADMIN")
      BY <1>3, <1>1 DEF AuthorizeCard, Finish, Idle
    <2> QED
      BY <1>3, <2>1 DEF AuthorizeCard, Idle
  <1>4. CASE \E a, v \in Users :
                  \/ \E new \in {"EMPLOYEE", "ADMIN"} : SetRole(r, a, v, new)
                  \/ RemoveEmployee(r, a, v)
    <2>1. PICK a \in Users, v \in Users :
              \/ \E new \in {"EMPLOYEE", "ADMIN"} : SetRole(r, a, v, new)
              \/ RemoveEmployee(r, a, v)
      BY <1>4
    <2>2. CASE \E new \in {"EMPLOYEE", "ADMIN"} : SetRole(r, a, v, new)
      <3>1. PICK new \in {"EMPLOYEE", "ADMIN"} : SetRole(r, a, v, new)
        BY <2>2
      <3>2. req'[q] = [Idle EXCEPT !.op = "update", !.target = v, !.new = new]
        BY <3>1, <1>1 DEF SetRole
      <3> QED
        BY <3>2 DEF Idle
    <2>3. CASE RemoveEmployee(r, a, v)
      <3>1. req'[q] = [Idle EXCEPT !.op = "archive", !.target = v]
        BY <2>3, <1>1 DEF RemoveEmployee
      <3> QED
        BY <3>1 DEF Idle
    <2> QED
      BY <2>1, <2>2, <2>3
  <1>5. CASE UpdateRole(r) \/ ArchiveCard(r) \/ DeleteMember(r) \/ KeepAdmin(r)
    <2>1. req[r] \in Request /\ ~Finish(r)
      BY <1>0, <1>1 DEF Finish, Idle
    <2>2. CASE UpdateRole(r) \/ DeleteMember(r)
      <3>1. req'[q] = [req[r] EXCEPT !.op = "check"]
        BY <2>1, <2>2, <1>1 DEF UpdateRole, DeleteMember
      <3> QED
        BY <3>1, <2>1 DEF Request
    <2>3. CASE KeepAdmin(r)
      <3>1. req'[q] = [req[r] EXCEPT !.op = "commit", !.seen = AdminsSeen(r)]
        BY <2>1, <2>3, <1>1 DEF KeepAdmin
      <3> QED
        BY <3>1, <2>1 DEF Request
    <2>4. CASE ArchiveCard(r)
      <3>1. req'[q] = [req[r] EXCEPT !.op = "delete",
                !.archives = card[req[r].target] \notin {"NONE", "ARCHIVED"}]
        BY <2>4, <1>1 DEF ArchiveCard
      <3> QED
        BY <3>1, <2>1 DEF Request
    <2> QED
      BY <1>5, <2>2, <2>3, <2>4
  <1>6. CASE Commit(r) \/ SetStatus(r) \/ Fail(r)
    BY <1>6, <1>1 DEF Commit, SetStatus, Fail, Finish, Idle
  <1>7. CASE Invited(r)
    BY <1>7 DEF Invited, Join
  <1> QED
    BY <1>2, <1>3, <1>4, <1>5, <1>6, <1>7 DEF Arrive, Change, Publish, Block

\* An archived card that no running request has read before stays archived.
THEOREM ArchivedIsFinalHolds == Spec => ArchivedIsFinal
  <1>1. ASSUME IInv, [Next]_vars, NEW u \in Users, ArchivedForGood(u)
        PROVE  ArchivedForGood(u)'
    <2>0. /\ card \in [Users -> Cards] /\ card[u] = "ARCHIVED"
          /\ \A r \in Requests : req[r] \in Request /\ RequestOK(req[r])
          /\ req \in [Requests -> Request]
          /\ ~ReadBefore(u)
      BY <1>1 DEF IInv, TypeOK, RequestsOK, ArchivedForGood
    <2>1. card'[u] = "ARCHIVED"
      <3>1. ASSUME NEW r \in Requests, Commit(r) \/ SetStatus(r) \/ Invited(r)
            PROVE  card'[u] = "ARCHIVED"
        BY <3>1, <2>0 DEF Commit, SetStatus, Invited, Join, ReadBefore
      <3>2. ASSUME NEW r \in Requests, Reads(r) PROVE card' = card
        BY <3>2 DEF Reads, Arrive, SetRole, RemoveEmployee, Publish, Block, ReadCard, Fail,
             UpdateRole, ArchiveCard, DeleteMember, KeepAdmin, AuthorizeCard
      <3> QED
        BY <1>1, <2>0, <3>1, <3>2 DEF Next, Begin, Proceed, Change, Reads, vars
    <2>2. ~ReadBefore(u)'
      <3>1. ASSUME NEW r \in Requests, Arrive(r) \/ Invited(r) \/ Change(r),
                   NEW q \in Requests, req'[q].target = u,
                   \/ req'[q].op = "authorize" /\ req'[q].card # "ARCHIVED"
                   \/ req'[q].op = "setStatus"
            PROVE  FALSE
        <4>1. req'[q] # req[q]
          BY <2>0, <3>1 DEF ReadBefore
        <4>2. \/ req'[q].op = "authorize" /\ req'[q].card = card[u]
              \/ /\ req[q].op = "authorize" /\ req'[q].op = "setStatus" /\ req[q].target = u
                 /\ MayWrite(req[q], req'[q].admin)
          BY <1>1, <3>1, <4>1, NewWriter
        <4> QED
          BY <4>2, <3>1, <2>0 DEF ReadBefore, MayWrite
      <3>2. UNCHANGED vars => ~ReadBefore(u)'
        BY <2>0 DEF vars, ReadBefore
      <3> QED
        BY <1>1, <3>1, <3>2 DEF Next, Begin, Proceed, ReadBefore
    <2> QED
      BY <2>1, <2>2 DEF ArchivedForGood
  <1>2. IInv /\ [Next]_vars =>
            [\A u \in Users : ArchivedForGood(u) => ArchivedForGood(u)']_vars
    BY <1>1
  <1> QED
    BY <1>2, Invariance, PTL DEF Spec, ArchivedIsFinal

\* A block that no running request read past stands until an admin's request
\* lifts it or the card is archived.
THEOREM BlockStandsHolds == Spec => BlockStands
  <1> DEFINE Lifted(u) == \E r \in Requests :
                  req[r].op = "setStatus" /\ req[r].target = u /\ req[r].admin
  <1>1. ASSUME IInv, [Next]_vars, NEW u \in Users, BlockInForce(u)
        PROVE  BlockInForce(u)' \/ card'[u] = "ARCHIVED" \/ Lifted(u)
    <2>0. /\ card \in [Users -> Cards] /\ card[u] = "BLOCKED"
          /\ \A r \in Requests : req[r] \in Request /\ RequestOK(req[r])
          /\ ~ReadUnblocked(u)
      BY <1>1 DEF IInv, TypeOK, RequestsOK, BlockInForce
    <2>1. card'[u] = "BLOCKED" \/ card'[u] = "ARCHIVED" \/ Lifted(u)
      <3>1. ASSUME NEW r \in Requests, Commit(r) \/ Invited(r)
            PROVE  card'[u] = "BLOCKED" \/ card'[u] = "ARCHIVED"
        BY <3>1, <2>0 DEF Commit, Invited, Join
      <3>2. ASSUME NEW r \in Requests, SetStatus(r)
            PROVE  card'[u] = "BLOCKED" \/ Lifted(u)
        BY <3>2, <2>0 DEF SetStatus, ReadUnblocked, RequestOK, Request
      <3>3. ASSUME NEW r \in Requests, Reads(r) PROVE card' = card
        BY <3>3 DEF Reads, Arrive, SetRole, RemoveEmployee, Publish, Block, ReadCard, Fail,
             UpdateRole, ArchiveCard, DeleteMember, KeepAdmin, AuthorizeCard
      <3> QED
        BY <1>1, <2>0, <3>1, <3>2, <3>3 DEF Next, Begin, Proceed, Change, Reads, vars
    <2>2. ~ReadUnblocked(u)'
      <3>1. ASSUME NEW r \in Requests, Arrive(r) \/ Invited(r) \/ Change(r),
                   NEW q \in Requests, req'[q].target = u, req'[q].new = "PUBLISHED",
                   \/ req'[q].op = "authorize" /\ req'[q].card # "BLOCKED"
                   \/ req'[q].op = "setStatus" /\ ~req'[q].admin
            PROVE  FALSE
        <4>1. req'[q] # req[q]
          BY <2>0, <3>1 DEF ReadUnblocked
        <4>2. \/ req'[q].op = "authorize" /\ req'[q].card = card[u]
              \/ /\ req[q].op = "authorize" /\ req'[q].op = "setStatus" /\ req[q].target = u
                 /\ req[q].new = "PUBLISHED" /\ MayWrite(req[q], req'[q].admin)
          BY <1>1, <3>1, <4>1, NewWriter
        <4> QED
          BY <4>2, <3>1, <2>0 DEF ReadUnblocked, MayWrite
      <3>2. UNCHANGED vars => ~ReadUnblocked(u)'
        BY <2>0 DEF vars, ReadUnblocked
      <3> QED
        BY <1>1, <3>1, <3>2 DEF Next, Begin, Proceed, ReadUnblocked
    <2> QED
      BY <2>1, <2>2 DEF BlockInForce
  <1>2. IInv /\ [Next]_vars =>
            [\A u \in Users : BlockInForce(u) =>
                \/ BlockInForce(u)'
                \/ card'[u] = "ARCHIVED"
                \/ Lifted(u)]_vars
    BY <1>1
  <1> QED
    BY <1>2, Invariance, PTL DEF Spec, BlockStands

-----------------------------------------------------------------------------
(* Staff implements Membership. *)

\* A row of `memberships` that a transaction has written is there, and is its
\* own until the transaction ends.
Owns(x) == x.op \in {"check", "commit"}

RowsOwned ==
    \A r \in Requests : Owns(req[r]) =>
        /\ role[req[r].target] # "NONE"
        /\ \A q \in Requests \ {r} : Owns(req[q]) => req[q].target # req[r].target

\* A request comes to own a row only when the row is there and nobody's.
LEMMA OwnerStep ==
    ASSUME IInv, NEW r \in Requests, Arrive(r) \/ Invited(r) \/ Change(r)
    PROVE  /\ \A q \in Requests \ {r} : req'[q] = req[q]
           /\ Owns(req'[r]) =>
                 /\ role' = role /\ req'[r].target = req[r].target
                 /\ \/ Owns(req[r])
                    \/ /\ role[req[r].target] # "NONE"
                       /\ ~MemberLocked(r, req[r].target)
  <1> USE DEF Owns
  <1>0. req \in [Requests -> Request]
    BY DEF IInv, TypeOK
  <1>1. ASSUME NEW y, Become(r, y)
        PROVE  req'[r] = y /\ \A q \in Requests \ {r} : req'[q] = req[q]
    BY <1>1, <1>0 DEF Become
  <1>2. CASE Arrive(r)
    <2>1. PICK a \in Users, u \in Users :
              \/ \E new \in {"EMPLOYEE", "ADMIN"} : SetRole(r, a, u, new)
              \/ RemoveEmployee(r, a, u)
              \/ \E status \in {"PUBLISHED", "BLOCKED"} : ReadCard(r, a, u, status)
      BY <1>2 DEF Arrive, Publish, Block
    <2>2. PICK y : Become(r, y) /\ y.op \in {"update", "archive", "authorize"}
      <3>1. CASE \E new \in {"EMPLOYEE", "ADMIN"} : SetRole(r, a, u, new)
        <4>1. PICK new \in {"EMPLOYEE", "ADMIN"} : SetRole(r, a, u, new)
          BY <3>1
        <4> DEFINE y == [Idle EXCEPT !.op = "update", !.target = u, !.new = new]
        <4>2. y.op = "update"
          BY DEF Idle
        <4> QED
          BY <4>1, <4>2 DEF SetRole
      <3>2. CASE RemoveEmployee(r, a, u)
        <4> DEFINE y == [Idle EXCEPT !.op = "archive", !.target = u]
        <4>1. y.op = "archive"
          BY DEF Idle
        <4> QED
          BY <3>2, <4>1 DEF RemoveEmployee
      <3>3. CASE \E status \in {"PUBLISHED", "BLOCKED"} : ReadCard(r, a, u, status)
        <4>1. PICK status \in {"PUBLISHED", "BLOCKED"} : ReadCard(r, a, u, status)
          BY <3>3
        <4> DEFINE y == [Idle EXCEPT !.op = "authorize", !.actor = a, !.target = u,
                                     !.new = status, !.card = card[u]]
        <4>2. y.op = "authorize"
          BY DEF Idle
        <4> QED
          BY <4>1, <4>2 DEF ReadCard
      <3> QED
        BY <2>1, <3>1, <3>2, <3>3
    <2> QED
      BY <2>2, <1>1
  <1>3. ASSUME Finish(r)
        PROVE  req'[r].op = "idle" /\ \A q \in Requests \ {r} : req'[q] = req[q]
    <2>1. req'[r] = Idle /\ \A q \in Requests \ {r} : req'[q] = req[q]
      BY <1>1, <1>3 DEF Finish
    <2> QED
      BY <2>1 DEF Idle
  <1>4. CASE UpdateRole(r) \/ DeleteMember(r)
    <2>1. CASE role[req[r].target] = "NONE"
      BY <1>3, <1>4, <2>1 DEF UpdateRole, DeleteMember
    <2>2. CASE role[req[r].target] # "NONE"
      <3> DEFINE y == [req[r] EXCEPT !.op = "check"]
      <3>1. y.target = req[r].target
        BY <1>0 DEF Request
      <3>2. Become(r, y) /\ role' = role /\ ~MemberLocked(r, req[r].target)
        BY <1>4, <2>2 DEF UpdateRole, DeleteMember
      <3> HIDE DEF y
      <3> QED
        BY <1>1, <2>2, <3>1, <3>2
    <2> QED
      BY <2>1, <2>2
  <1>5. CASE KeepAdmin(r)
    <2>1. CASE AdminsSeen(r) = {}
      BY <1>3, <1>5, <2>1 DEF KeepAdmin
    <2>2. CASE AdminsSeen(r) # {}
      <3> DEFINE y == [req[r] EXCEPT !.op = "commit", !.seen = AdminsSeen(r)]
      <3>1. y.target = req[r].target
        BY <1>0 DEF Request
      <3>2. Become(r, y) /\ role' = role /\ req[r].op = "check"
        BY <1>5, <2>2 DEF KeepAdmin
      <3> HIDE DEF y
      <3> QED
        BY <1>1, <3>1, <3>2
    <2> QED
      BY <2>1, <2>2
  <1>6. CASE ArchiveCard(r)
    <2> DEFINE y == [req[r] EXCEPT !.op = "delete",
                        !.archives = card[req[r].target] \notin {"NONE", "ARCHIVED"}]
    <2>1. y.op = "delete"
      BY <1>0 DEF Request
    <2>2. Become(r, y)
      BY <1>6 DEF ArchiveCard
    <2> HIDE DEF y
    <2> QED
      BY <1>1, <2>1, <2>2
  <1>7. CASE AuthorizeCard(r)
    <2> DEFINE y == [Idle EXCEPT !.op = "setStatus", !.target = req[r].target,
                                 !.new = req[r].new,
                                 !.admin = role[req[r].actor] = "ADMIN"]
    <2>1. y.op = "setStatus"
      BY DEF Idle
    <2>2. Finish(r) \/ Become(r, y)
      BY <1>7 DEF AuthorizeCard
    <2> HIDE DEF y
    <2> QED
      BY <1>1, <1>3, <2>1, <2>2
  <1>8. CASE Commit(r) \/ SetStatus(r) \/ Fail(r)
    BY <1>3, <1>8 DEF Commit, SetStatus, Fail
  <1>9. CASE Invited(r)
    <2>1. req' = req /\ req[r].op = "idle"
      BY <1>9 DEF Invited, Join, Idle
    <2> QED
      BY <2>1
  <1> QED
    BY <1>2, <1>4, <1>5, <1>6, <1>7, <1>8, <1>9 DEF Change

\* What a step does to the two tables.
LEMMA TablesStep ==
    ASSUME IInv, NEW r \in Requests, Arrive(r) \/ Invited(r) \/ Change(r)
    PROVE  \/ UNCHANGED <<role, card>>
           \/ Commit(r) \/ SetStatus(r) \/ Invited(r)
  BY DEF Arrive, SetRole, RemoveEmployee, Publish, Block, ReadCard, Change, Fail,
     UpdateRole, ArchiveCard, DeleteMember, KeepAdmin, AuthorizeCard

LEMMA RowsOwnedNext == ASSUME IInv, RowsOwned, [Next]_vars PROVE RowsOwned'
  <1>1. ASSUME NEW r \in Requests, Arrive(r) \/ Invited(r) \/ Change(r) PROVE RowsOwned'
    <2>1. /\ \A q \in Requests \ {r} : req'[q] = req[q]
          /\ Owns(req'[r]) =>
                /\ role' = role /\ req'[r].target = req[r].target
                /\ \/ Owns(req[r])
                   \/ /\ role[req[r].target] # "NONE"
                      /\ ~MemberLocked(r, req[r].target)
      BY <1>1, OwnerStep
    <2>2. ASSUME NEW q \in Requests \ {r}, Owns(req[q])
          PROVE  role'[req[q].target] # "NONE"
      <3>1. role[req[q].target] # "NONE" /\ req[q].target \in Users
            /\ (Owns(req[r]) => req[r].target # req[q].target)
        BY <2>2 DEF RowsOwned, IInv, RequestsOK, RequestOK, Owns
      <3>2. CASE Commit(r)
        <4>1. role' = [role EXCEPT ![req[r].target] = req[r].new] /\ Owns(req[r])
          BY <3>2 DEF Commit, Owns
        <4> QED
          BY <3>1, <4>1 DEF IInv, TypeOK
      <3>3. CASE Invited(r)
        BY <3>1, <3>3 DEF Invited, Join, IInv, TypeOK
      <3>4. CASE role' = role
        BY <3>1, <3>4
      <3> QED
        BY <1>1, <3>2, <3>3, <3>4, TablesStep DEF SetStatus
    <2>3. ASSUME NEW q \in Requests \ {r}, Owns(req[q]), Owns(req'[r])
          PROVE  req'[r].target # req[q].target
      BY <2>1, <2>3 DEF RowsOwned, MemberLocked, Owns
    <2>4. Owns(req'[r]) => role'[req'[r].target] # "NONE"
      BY <2>1 DEF RowsOwned
    <2> QED
      BY <2>1, <2>2, <2>3, <2>4 DEF RowsOwned
  <1>2. UNCHANGED vars => RowsOwned'
    BY DEF vars, RowsOwned
  <1> QED
    BY <1>1, <1>2 DEF Next, Begin, Proceed

LEMMA RowsOwnedInvariance == Spec => [](IInv /\ RowsOwned)
  <1>1. Init => RowsOwned
    BY DEF Init, RowsOwned, Owns, Idle
  <1> QED
    BY <1>1, InitIInv, NextIInv, RowsOwnedNext, PTL DEF Spec

Holders == {u \in Users : card[u] # "NONE"}

LEMMA MembershipStep ==
    ASSUME IInv, RowsOwned, [Next]_vars
    PROVE  [Company!MembershipNext]_(Company!membershipVars)
  <1>0. role \in [Users -> Roles] /\ card \in [Users -> Cards]
    BY DEF IInv, TypeOK
  <1>1. ASSUME UNCHANGED <<role, card>> PROVE UNCHANGED Company!membershipVars
    BY <1>1 DEF Company!membershipVars, Members
  <1>2. ASSUME NEW r \in Requests, Commit(r)
        PROVE  [Company!MembershipNext]_(Company!membershipVars)
    <2> DEFINE u == req[r].target
    <2>1. u \in Users /\ role[u] # "NONE" /\ card[u] # "NONE"
      BY <1>2 DEF Commit, RowsOwned, Owns, IInv, RequestsOK, RequestOK
    <2>2. /\ role' = [role EXCEPT ![u] = req[r].new]
          /\ Holders' = Holders
      BY <1>0, <1>2, <2>1 DEF Commit, Holders
    <2> HIDE DEF u
    <2>3. CASE req[r].new = "NONE"
      <3>1. u \in Members /\ Members' = Members \ {u}
        BY <1>0, <2>1, <2>2, <2>3 DEF Members
      <3>2. Company!Leave(u)
        BY <2>2, <3>1 DEF Company!Leave, Holders
      <3> QED
        BY <2>1, <3>2 DEF Company!MembershipNext
    <2>4. CASE req[r].new # "NONE"
      <3>1. Members' = Members
        BY <1>0, <2>1, <2>2, <2>4 DEF Members
      <3> QED
        BY <2>2, <3>1 DEF Company!membershipVars, Holders
    <2> QED
      BY <2>3, <2>4
  <1>3. ASSUME NEW r \in Requests, SetStatus(r)
        PROVE  UNCHANGED Company!membershipVars
    <2>1. /\ req[r].target \in Users /\ card[req[r].target] # "NONE"
          /\ req[r].new # "NONE"
      BY <1>3 DEF SetStatus, IInv, RequestsOK, RequestOK
    <2>2. Members' = Members /\ Holders' = Holders
      BY <1>0, <1>3, <2>1 DEF SetStatus, Members, Holders
    <2> QED
      BY <2>2 DEF Company!membershipVars, Holders
  <1>4. ASSUME NEW r \in Requests, Invited(r)
        PROVE  Company!MembershipNext
    <2>1. PICK u \in Users, new \in {"EMPLOYEE", "ADMIN"} : Join(r, u, new)
      BY <1>4 DEF Invited
    <2>2. u \notin Members /\ Members' = Members \union {u}
      BY <1>0, <2>1 DEF Join, Members
    <2>3. Holders' = Holders \union {u}
      BY <1>0, <2>1 DEF Join, Holders
    <2>4. Company!Join(u)
      BY <2>2, <2>3 DEF Company!Join, Holders
    <2> QED
      BY <2>4 DEF Company!MembershipNext
  <1> QED
    BY <1>1, <1>2, <1>3, <1>4, TablesStep DEF Next, Begin, Proceed, vars

\* Roles and cards, with every transaction and lock, implement Membership.
THEOREM Implementation == Spec => ImplementsMembership
  <1>1. Init => Company!MembershipInit
    BY FounderAssumption DEF Init, Company!MembershipInit, Members
  <1> QED
    BY <1>1, RowsOwnedInvariance, MembershipStep, PTL
       DEF Spec, ImplementsMembership, Company!MembershipSpec

\* A role change admits nobody: it holds the row it changes.
THEOREM OnlyInvitedJoinHolds == Spec => OnlyInvitedJoin
  <1>1. ASSUME IInv, RowsOwned, [Next]_vars,
               NEW u \in Users, role[u] = "NONE", role'[u] # "NONE"
        PROVE  \E r \in Requests : Invited(r)
    <2>1. ASSUME NEW r \in Requests, Commit(r) PROVE FALSE
      <3>1. req[r].target \in Users /\ role[req[r].target] # "NONE"
        BY <2>1, <1>1 DEF Commit, RowsOwned, Owns, IInv, RequestsOK, RequestOK
      <3> QED
        BY <1>1, <2>1, <3>1 DEF Commit, IInv, TypeOK
    <2>2. ASSUME NEW r \in Requests, SetStatus(r) PROVE FALSE
      BY <1>1, <2>2 DEF SetStatus
    <2> QED
      BY <1>1, <2>1, <2>2, TablesStep DEF Next, Begin, Proceed, vars
  <1>2. IInv /\ RowsOwned /\ [Next]_vars =>
            [\A u \in Users : role[u] = "NONE" /\ role'[u] # "NONE" =>
                \E r \in Requests : Invited(r)]_vars
    BY <1>1
  <1> QED
    BY <1>2, RowsOwnedInvariance, PTL DEF Spec, OnlyInvitedJoin

-----------------------------------------------------------------------------
(* Until two requests have overlapped. *)

Alone(r) == \A q \in Requests \ {r} : req[q] = Idle

\* What was read is still so, because nothing else has run in between.
StillSo(x) ==
    /\ x.op = "update" => x.new # "NONE"
    /\ x.op = "commit" => x.seen \ {x.target} \subseteq Admins
    /\ x.op = "delete" \/ (x.op \in {"check", "commit"} /\ x.new = "NONE") =>
          x.archives \/ card[x.target] \in {"NONE", "ARCHIVED"}
    /\ x.op = "authorize" => card[x.target] = x.card
    /\ x.op = "setStatus" => card[x.target] # "ARCHIVED"

SerialOK ==
    \A r \in Requests : StillSo(req[r]) /\ (req[r] # Idle => Alone(r))

SInv ==
    /\ IInv
    /\ ~overlapped => SerialOK
    /\ CompanyHasAdmin
    /\ GoneIsArchived

\* A step after which nothing has overlapped is one of a request that is alone.
LEMMA SerialStep ==
    ASSUME SInv, NEW r \in Requests, Begin(r) \/ Proceed(r), ~overlapped'
    PROVE  ~overlapped /\ Alone(r)
  <1>1. CASE Begin(r)
    BY <1>1 DEF Begin, Overlaps, Alone
  <1>2. CASE Proceed(r)
    <2>1. ~overlapped
      BY <1>2 DEF Proceed
    <2>2. req[r] # Idle
      BY <1>2 DEF Proceed, Change, UpdateRole, ArchiveCard, DeleteMember, KeepAdmin, Commit,
           AuthorizeCard, SetStatus, Fail, Idle
    <2> QED
      BY <2>1, <2>2 DEF SInv, SerialOK
  <1> QED
    BY <1>1, <1>2

\* What SInv says after a step of a request that is alone.
LEMMA SerialAfter ==
    ASSUME IInv', NEW r \in Requests, Alone(r)', StillSo(req[r])', StillSo(Idle)',
           CompanyHasAdmin', GoneIsArchived'
    PROVE  SInv'
  <1>1. SerialOK'
    BY DEF SerialOK, Alone
  <1> QED
    BY <1>1 DEF SInv

\* It reads, and goes on.
LEMMA SerialReads ==
    ASSUME SInv, ~overlapped, ~overlapped', NEW r \in Requests, Alone(r), NEW y,
           Become(r, y), UNCHANGED <<role, card>>, StillSo(y), IInv'
    PROVE  SInv'
  <1>1. req'[r] = y /\ Alone(r)'
    BY DEF Become, SInv, IInv, TypeOK, Alone
  <1>2. StillSo(req[r])' /\ StillSo(Idle)'
    BY <1>1 DEF StillSo, Admins, Idle
  <1>3. CompanyHasAdmin' /\ GoneIsArchived'
    BY DEF SInv, CompanyHasAdmin, Admins, GoneIsArchived
  <1> QED
    BY <1>1, <1>2, <1>3, SerialAfter

LEMMA SerialNext == ASSUME SInv, [Next]_vars PROVE SInv'
  <1>0. IInv'
    BY NextIInv DEF SInv
  <1>o. CASE overlapped'
    BY <1>0, <1>o DEF SInv, CompanyHasAdmin, GoneIsArchived
  <1>1. ASSUME ~overlapped', NEW r \in Requests, Begin(r) \/ Proceed(r) PROVE SInv'
    <2> DEFINE x == req[r]
    <2>a. ~overlapped /\ Alone(r) /\ ~overlapped'
      BY <1>1, SerialStep
    <2>0. /\ x \in Request /\ RequestOK(x) /\ StillSo(x)
          /\ role \in [Users -> Roles] /\ card \in [Users -> Cards]
          /\ req \in [Requests -> Request]
      BY <2>a DEF SInv, SerialOK, IInv, TypeOK, RequestsOK
    <2>w. /\ Admins # {}
          /\ \A u \in Users : role[u] = "NONE" => card[u] \in {"NONE", "ARCHIVED"}
      BY <2>a DEF SInv, CompanyHasAdmin, GoneIsArchived
    <2>i. StillSo(Idle) /\ StillSo(Idle)'
      BY DEF Idle, StillSo
    <2>f. ASSUME Finish(r), UNCHANGED <<role, card>> PROVE SInv'
      BY <2>f, <2>i, <1>0, <2>a, SerialReads DEF Finish
    <2>1. CASE Arrive(r)
      <3>1. PICK a \in Users, u \in Users :
                \/ \E new \in {"EMPLOYEE", "ADMIN"} : SetRole(r, a, u, new)
                \/ RemoveEmployee(r, a, u)
                \/ \E status \in {"PUBLISHED", "BLOCKED"} : ReadCard(r, a, u, status)
        BY <2>1 DEF Arrive, Publish, Block
      <3>2. CASE \E new \in {"EMPLOYEE", "ADMIN"} : SetRole(r, a, u, new)
        <4>1. PICK new \in {"EMPLOYEE", "ADMIN"} : SetRole(r, a, u, new)
          BY <3>2
        <4> DEFINE y == [Idle EXCEPT !.op = "update", !.target = u, !.new = new]
        <4>2. StillSo(y)
          BY DEF Idle, StillSo
        <4> QED
          BY <4>1, <4>2, <1>0, <2>a, SerialReads DEF SetRole
      <3>3. CASE RemoveEmployee(r, a, u)
        <4> DEFINE y == [Idle EXCEPT !.op = "archive", !.target = u]
        <4>1. StillSo(y)
          BY DEF Idle, StillSo
        <4> QED
          BY <3>3, <4>1, <1>0, <2>a, SerialReads DEF RemoveEmployee
      <3>4. CASE \E status \in {"PUBLISHED", "BLOCKED"} : ReadCard(r, a, u, status)
        <4>1. PICK status \in {"PUBLISHED", "BLOCKED"} : ReadCard(r, a, u, status)
          BY <3>4
        <4> DEFINE y == [Idle EXCEPT !.op = "authorize", !.actor = a, !.target = u,
                                     !.new = status, !.card = card[u]]
        <4>2. StillSo(y)
          BY DEF Idle, StillSo
        <4> QED
          BY <4>1, <4>2, <1>0, <2>a, SerialReads DEF ReadCard
      <3> QED
        BY <3>1, <3>2, <3>3, <3>4
    <2>2. CASE Fail(r)
      BY <2>2, <2>f DEF Fail
    <2>3. CASE UpdateRole(r) \/ DeleteMember(r)
      <3> DEFINE y == [x EXCEPT !.op = "check"]
      <3>1. StillSo(y)
        BY <2>0, <2>3 DEF UpdateRole, DeleteMember, Request, StillSo
      <3> QED
        BY <2>3, <3>1, <2>f, <1>0, <2>a, SerialReads DEF UpdateRole, DeleteMember
    <2>4. CASE ArchiveCard(r)
      <3> DEFINE y == [x EXCEPT !.op = "delete",
                                !.archives = card[x.target] \notin {"NONE", "ARCHIVED"}]
      <3>1. StillSo(y)
        BY <2>0, <2>4 DEF ArchiveCard, Request, StillSo
      <3> QED
        BY <2>4, <3>1, <1>0, <2>a, SerialReads DEF ArchiveCard
    <2>5. CASE KeepAdmin(r)
      <3> DEFINE y == [x EXCEPT !.op = "commit", !.seen = AdminsSeen(r)]
      <3>1. AdminsSeen(r) \ {x.target} \subseteq Admins
        BY DEF AdminsSeen
      <3>2. StillSo(y)
        BY <2>0, <2>5, <3>1 DEF KeepAdmin, Request, StillSo
      <3> QED
        BY <2>5, <3>2, <2>f, <1>0, <2>a, SerialReads DEF KeepAdmin
    <2>6. CASE AuthorizeCard(r)
      <3> DEFINE y == [Idle EXCEPT !.op = "setStatus", !.target = x.target, !.new = x.new,
                                   !.admin = role[x.actor] = "ADMIN"]
      <3>1. CASE MayWrite(x, role[x.actor] = "ADMIN")
        <4>1. StillSo(y)
          BY <2>0, <2>6, <3>1 DEF AuthorizeCard, MayWrite, Idle, StillSo
        <4> QED
          BY <2>6, <3>1, <4>1, <1>0, <2>a, SerialReads DEF AuthorizeCard
      <3>2. CASE ~MayWrite(x, role[x.actor] = "ADMIN")
        BY <2>6, <3>2, <2>f DEF AuthorizeCard
      <3> QED
        BY <3>1, <3>2
    <2>7. CASE Commit(r)
      <3>1. x.op = "commit" /\ x.target \in Users
        BY <2>0, <2>7 DEF Commit, RequestOK
      <3>2. StillSo(req[r])' /\ Alone(r)'
        BY <2>a, <2>0, <2>7, <2>i DEF Commit, Finish, Become, Alone
      <3>3. CompanyHasAdmin'
        <4>1. PICK a \in x.seen : TRUE
          BY <2>0, <3>1 DEF RequestOK
        <4>2. CASE a = x.target
          BY <2>0, <2>7, <3>1, <4>1, <4>2 DEF Commit, CompanyHasAdmin, Admins, RequestOK
        <4>3. CASE a # x.target
          <5>1. a \in Admins
            BY <2>0, <3>1, <4>1, <4>3 DEF StillSo
          <5> QED
            BY <2>0, <2>7, <3>1, <4>3, <5>1 DEF Commit, CompanyHasAdmin, Admins
        <4> QED
          BY <4>2, <4>3
      <3>4. GoneIsArchived'
        BY <2>w, <2>0, <2>7, <3>1 DEF Commit, GoneIsArchived, StillSo
      <3> QED
        BY <1>0, <2>i, <3>2, <3>3, <3>4, SerialAfter
    <2>8. CASE SetStatus(r)
      <3>1. x.op = "setStatus" /\ x.target \in Users
        BY <2>0, <2>8 DEF SetStatus, RequestOK
      <3>2. StillSo(req[r])' /\ Alone(r)'
        BY <2>a, <2>0, <2>8, <2>i DEF SetStatus, Finish, Become, Alone
      <3>3. role[x.target] # "NONE"
        BY <2>w, <2>0, <3>1 DEF StillSo, RequestOK
      <3>4. CompanyHasAdmin' /\ GoneIsArchived'
        BY <2>w, <2>0, <2>8, <3>1, <3>3 DEF SetStatus, CompanyHasAdmin, Admins, GoneIsArchived
      <3> QED
        BY <1>0, <2>i, <3>2, <3>4, SerialAfter
    <2>9. CASE Invited(r)
      <3>1. PICK u \in Users, new \in {"EMPLOYEE", "ADMIN"} : Join(r, u, new)
        BY <2>9 DEF Invited
      <3>2. StillSo(req[r])' /\ Alone(r)'
        BY <2>a, <2>0, <2>i, <3>1 DEF Join, Alone
      <3>3. CompanyHasAdmin' /\ GoneIsArchived'
        BY <2>w, <2>0, <3>1 DEF Join, CompanyHasAdmin, Admins, GoneIsArchived
      <3> QED
        BY <1>0, <2>i, <3>2, <3>3, SerialAfter
    <2> QED
      BY <1>1, <2>1, <2>2, <2>3, <2>4, <2>5, <2>6, <2>7, <2>8, <2>9 DEF Begin, Proceed, Change
  <1>2. CASE UNCHANGED vars
    BY <1>0, <1>2 DEF vars, SInv, SerialOK, Alone, StillSo, CompanyHasAdmin, Admins, GoneIsArchived
  <1> QED
    BY <1>o, <1>1, <1>2 DEF Next

LEMMA SerialInit == Init => SInv
  <1> SUFFICES ASSUME Init PROVE SInv
    OBVIOUS
  <1>1. SerialOK
    BY DEF Init, SerialOK, StillSo, Idle
  <1>2. CompanyHasAdmin
    BY FounderAssumption DEF Init, CompanyHasAdmin, Admins
  <1>3. GoneIsArchived
    BY DEF Init, GoneIsArchived
  <1> QED
    BY <1>1, <1>2, <1>3, InitIInv DEF SInv

LEMMA SerialInvariance == Spec => []SInv
  <1>1. SInv /\ [Next]_vars => SInv'
    BY SerialNext
  <1> QED
    BY <1>1, SerialInit, PTL DEF Spec

\* The trigger is enough as long as requests do not overlap: the company has an
\* admin, whatever roles are changed and whoever is removed.
THEOREM CompanyHasAdminHolds == Spec => []CompanyHasAdmin
  BY SerialInvariance, PTL DEF SInv

\* So is reading before writing: removal closes the card.
THEOREM GoneIsArchivedHolds == Spec => []GoneIsArchived
  BY SerialInvariance, PTL DEF SInv
=============================================================================
