-------------------------- MODULE InvitationsProofs --------------------------
(***************************************************************************)
(* Proofs about Invitations, for any number of people, rows, requests,     *)
(* links and for any term.                                                 *)
(***************************************************************************)
EXTENDS Invitations, TLAPS

\* What a request has found out by the time it writes.
RequestOK(x) ==
    /\ x.op \in {"resend", "accept", "join"} => x.row \in Rows
    /\ x.op \in {"create", "accept", "join"} => x.person \in People
    /\ x.op = "join" /\ ~x.new => x.actor = x.person

RequestsOK == \A r \in Requests : RequestOK(req[r])

\* Only links that were made are in letters.
LettersIssued == \A l \in letters : l[2] <= inv[l[1]].link

\* A row that was not written yet, and only such a row, has no status.
RowsOK ==
    \A i \in Rows : /\ inv[i].status = "NONE" <=> inv[i] = NoRow
                    /\ inv[i] # NoRow => inv[i].email \in People

IInv ==
    /\ TypeOK /\ RequestsOK /\ LettersIssued /\ RowsOK
    /\ NoHalfResult /\ PendingHasLetter /\ OnePending

-----------------------------------------------------------------------------
(* Steps that only move a request. *)

LEMMA IdleOK == Idle \in Request /\ RequestOK(Idle)
  BY DEF Idle, Request, RequestOK

Moves(r) ==
    \/ \E p \in People : CheckMember(r, p)
    \/ InsertConflict(r)
    \/ \E i \in Rows : ReadRow(r, i) \/ (Revoke(r, i) /\ ~Pending(i))
    \/ \E i \in Rows, n \in 1 .. MaxLinks, a \in People \union {None} : OpenLink(r, i, n, a)
    \/ FindAccount(r)
    \/ Leave(r)

Keeps == UNCHANGED <<clock, people, inv, letters>>

\* The record of r after such a step, and how it could come to accept.
LEMMA Moved ==
    ASSUME IInv, NEW r \in Requests, Moves(r)
    PROVE  /\ Keeps
           /\ \E x \in Request :
                 /\ RequestOK(x)
                 /\ req' = [req EXCEPT ![r] = x]
                 /\ x.op \in {"accept", "join"} =>
                       \/ req[r].op = "accept" /\ x.person = req[r].person
                       \/ \E i \in Rows : Usable(i) /\ x.person = inv[i].email
  <1> USE DEF Keeps, people
  <1> DEFINE Good(x) ==
        /\ RequestOK(x)
        /\ req' = [req EXCEPT ![r] = x]
        /\ x.op \in {"accept", "join"} =>
              \/ req[r].op = "accept" /\ x.person = req[r].person
              \/ \E i \in Rows : Usable(i) /\ x.person = inv[i].email
  <1>1. TypeOK /\ RequestsOK /\ RowsOK /\ req[r] \in Request /\ RequestOK(req[r])
    BY DEF IInv, TypeOK, RequestsOK
  <1>2. ASSUME NEW p \in People, CheckMember(r, p)
        PROVE  Keeps /\ \E x \in Request : Good(x)
    <2> DEFINE term == clock + TTL
               x == [Idle EXCEPT !.op = "create", !.person = p, !.expires = term]
    <2>0. term \in Nat
      BY <1>1, InvitationsAssumption DEF TypeOK
    <2>1. x \in Request /\ RequestOK(x) /\ x.op = "create"
      <3> HIDE DEF term
      <3> QED
        BY <2>0 DEF Idle, Request, RequestOK
    <2>2. Good(x)
      BY <2>1, <1>2 DEF CheckMember, Become
    <2> QED
      BY <2>1, <2>2, <1>2 DEF CheckMember
  <1>3. ASSUME InsertConflict(r)
        PROVE  Keeps /\ \E x \in Request : Good(x)
    <2> DEFINE x == [req[r] EXCEPT !.op = "conflict"]
    <2>1. x \in Request /\ RequestOK(x) /\ x.op = "conflict"
      BY <1>1 DEF Request, RequestOK
    <2>2. Good(x)
      BY <2>1, <1>3 DEF InsertConflict, Become
    <2> QED
      BY <2>1, <2>2, <1>3 DEF InsertConflict
  <1>4. ASSUME NEW i \in Rows, ReadRow(r, i)
        PROVE  Keeps /\ \E x \in Request : Good(x)
    <2> DEFINE term == clock + TTL
               x == [Idle EXCEPT !.op = "resend", !.row = i, !.expires = term]
    <2>0. term \in Nat
      BY <1>1, InvitationsAssumption DEF TypeOK
    <2>1. x \in Request /\ RequestOK(x) /\ x.op = "resend"
      <3> HIDE DEF term
      <3> QED
        BY <2>0 DEF Idle, Request, RequestOK
    <2>2. Good(x)
      BY <2>1, <1>4 DEF ReadRow, Become
    <2> QED
      BY <2>1, <2>2, <1>4 DEF ReadRow
  <1>5. ASSUME NEW i \in Rows, Revoke(r, i), ~Pending(i)
        PROVE  Keeps /\ \E x \in Request : Good(x)
    <2> DEFINE x == [Idle EXCEPT !.op = "notFound", !.row = i]
    <2>1. x \in Request /\ RequestOK(x) /\ x.op = "notFound"
      BY DEF Idle, Request, RequestOK
    <2>2. Good(x)
      BY <2>1, <1>5 DEF Revoke, Become
    <2> QED
      BY <2>1, <2>2, <1>5 DEF Revoke
  <1>6. ASSUME NEW i \in Rows, NEW n \in 1 .. MaxLinks, NEW a \in People \union {None},
               OpenLink(r, i, n, a)
        PROVE  Keeps /\ \E x \in Request : Good(x)
    <2> DEFINE x == [Idle EXCEPT !.op = "accept", !.row = i, !.person = inv[i].email, !.actor = a]
    <2>1. inv[i].email \in People
      BY <1>1, <1>6 DEF OpenLink, Usable, Pending, RowsOK, NoRow
    <2>2. x \in Request /\ RequestOK(x) /\ x.op = "accept" /\ x.person = inv[i].email
      BY <2>1 DEF Idle, Request, RequestOK
    <2>3. Good(x)
      BY <2>2, <1>6 DEF OpenLink, Become
    <2> QED
      BY <2>2, <2>3, <1>6 DEF OpenLink
  <1>7. ASSUME FindAccount(r)
        PROVE  Keeps /\ \E x \in Request : Good(x)
    <2> DEFINE isNew == req[r].person \notin account
               x == [req[r] EXCEPT !.op = "join", !.new = isNew]
    <2>1. CASE req[r].actor = (IF req[r].person \in account THEN req[r].person ELSE None)
      <3>1. /\ x \in Request /\ x.op = "join" /\ x.new = isNew
            /\ x.person = req[r].person /\ x.actor = req[r].actor /\ x.row = req[r].row
        BY <1>1 DEF Request
      <3>2. RequestOK(x)
        BY <3>1, <2>1, <1>1, <1>7 DEF FindAccount, RequestOK
      <3>3. req' = [req EXCEPT ![r] = x] /\ req[r].op = "accept"
        BY <2>1, <1>7 DEF FindAccount, Become
      <3>4. Good(x)
        BY <3>1, <3>2, <3>3
      <3> QED
        BY <3>1, <3>4, <1>7 DEF FindAccount
    <2>2. CASE req[r].actor # (IF req[r].person \in account THEN req[r].person ELSE None)
      <3>1. Good(Idle)
        BY <2>2, <1>7, IdleOK DEF FindAccount, Finish, Become, Idle
      <3> QED
        BY <3>1, IdleOK, <1>7 DEF FindAccount
    <2> QED
      BY <2>1, <2>2
  <1>8. ASSUME Leave(r)
        PROVE  Keeps /\ \E x \in Request : Good(x)
    <2>1. Good(Idle)
      BY <1>8, IdleOK DEF Leave, Finish, Become, Idle
    <2> QED
      BY <2>1, IdleOK, <1>8 DEF Leave
  <1> QED
    BY <1>2, <1>3, <1>4, <1>5, <1>6, <1>7, <1>8 DEF Moves

LEMMA MovesStep == ASSUME IInv, NEW r \in Requests, Moves(r) PROVE IInv'
  <1>1. PICK x \in Request : RequestOK(x) /\ req' = [req EXCEPT ![r] = x]
    BY Moved
  <1>2. req' \in [Requests -> Request] /\ RequestsOK'
    BY <1>1 DEF IInv, TypeOK, RequestsOK, RequestOK
  <1> QED
    BY <1>2, Moved DEF IInv, Keeps, people, TypeOK, LettersIssued, RowsOK, NoHalfResult,
         PendingHasLetter, OnePending, Pending

-----------------------------------------------------------------------------
(* Steps that change the tables. *)

LEMMA FinishOK ==
    ASSUME IInv, NEW r \in Requests, Finish(r)
    PROVE  req' \in [Requests -> Request] /\ RequestsOK'
  BY IdleOK DEF IInv, TypeOK, RequestsOK, RequestOK, Finish, Become

\* A new row: nobody else has its email pending, and its letter is new.
LEMMA InsertStep ==
    ASSUME IInv, NEW r \in Requests, NEW i \in Rows, Insert(r, i)
    PROVE  IInv'
  <1> DEFINE row == [email |-> req[r].person, status |-> "PENDING",
                     link |-> 1, expires |-> req[r].expires]
  <1>1. req[r] \in Request /\ req[r].person \in People /\ TypeOK
    BY DEF IInv, TypeOK, RequestsOK, RequestOK, Insert
  <1>2. row \in Row /\ row # NoRow
    BY <1>1 DEF Request, Row, NoRow
  <1>3. inv' = [inv EXCEPT ![i] = row] /\ inv[i] = NoRow
    BY DEF Insert
  <1>4. letters' = letters \union {<<i, 1>>} /\ UNCHANGED <<clock, people>>
    BY DEF Insert
  <1>5. TypeOK' /\ RequestsOK'
    BY <1>1, <1>2, <1>3, <1>4, FinishOK DEF Insert, TypeOK, people
  <1>6. inv'[i] = row /\ \A j \in Rows \ {i} : inv'[j] = inv[j]
    BY <1>1, <1>3 DEF TypeOK
  <1>7. LettersIssued'
    <2> SUFFICES ASSUME NEW l \in letters' PROVE l[2] <= inv'[l[1]].link
      BY DEF LettersIssued
    <2>1. CASE l = <<i, 1>>
      BY <2>1, <1>6
    <2>2. CASE l \in letters
      <3>1. l[1] \in Rows /\ l[2] \in Nat /\ l[2] <= inv[l[1]].link
        BY <2>2, <1>1 DEF IInv, TypeOK, LettersIssued
      <3>2. CASE l[1] = i
        BY <3>1, <3>2, <1>3, <1>6 DEF NoRow
      <3> QED
        BY <3>1, <3>2, <1>6
    <2> QED
      BY <2>1, <2>2, <1>4
  <1>8. RowsOK'
    BY <1>1, <1>2, <1>6 DEF IInv, RowsOK
  <1>9. PendingHasLetter'
    BY <1>4, <1>6 DEF IInv, PendingHasLetter, Pending
  <1>10. OnePending'
    BY <1>6 DEF IInv, OnePending, Pending, Insert, Taken
  <1>11. NoHalfResult'
    BY <1>4 DEF IInv, NoHalfResult, people
  <1> QED
    BY <1>5, <1>7, <1>8, <1>9, <1>10, <1>11 DEF IInv

\* Revoke of a pending row.
LEMMA RevokeStep ==
    ASSUME IInv, NEW r \in Requests, NEW i \in Rows, Revoke(r, i), Pending(i)
    PROVE  IInv'
  <1>1. TypeOK /\ inv[i] \in Row /\ inv[i] # NoRow
    BY DEF IInv, TypeOK, Revoke
  <1>2. inv' = [inv EXCEPT ![i].status = "REVOKED"] /\ UNCHANGED <<clock, people, letters, req>>
    BY DEF Revoke
  <1>3. /\ inv'[i] \in Row /\ inv'[i].status = "REVOKED"
        /\ inv'[i].email = inv[i].email /\ inv'[i].link = inv[i].link
        /\ inv'[i] # NoRow
    BY <1>1, <1>2 DEF TypeOK, Row, NoRow
  <1>4. \A j \in Rows \ {i} : inv'[j] = inv[j]
    BY <1>1, <1>2 DEF TypeOK
  <1>5. TypeOK' /\ RequestsOK' /\ NoHalfResult'
    BY <1>1, <1>2, <1>3, <1>4 DEF IInv, TypeOK, RequestsOK, NoHalfResult, people
  <1>6. LettersIssued'
    BY <1>1, <1>2, <1>3, <1>4 DEF IInv, LettersIssued, TypeOK
  <1>7. RowsOK' /\ PendingHasLetter' /\ OnePending'
    BY <1>2, <1>3, <1>4, <1>1 DEF IInv, RowsOK, PendingHasLetter, OnePending, Pending
  <1> QED
    BY <1>5, <1>6, <1>7 DEF IInv

LEMMA RenewStep ==
    ASSUME IInv, NEW r \in Requests, Renew(r)
    PROVE  IInv'
  <1> DEFINE i == req[r].row
  <1>1. TypeOK /\ i \in Rows /\ inv[i] \in Row /\ req[r].expires \in Nat
    BY DEF IInv, TypeOK, RequestsOK, RequestOK, Renew, Request
  <1>2. req' \in [Requests -> Request] /\ RequestsOK' /\ UNCHANGED <<clock, people>>
    BY FinishOK DEF Renew
  <1>3. CASE Pending(i)
    <2>1. inv' = [inv EXCEPT ![i].link = @ + 1, ![i].expires = req[r].expires]
      BY <1>3 DEF Renew, NewLink
    <2>2. letters' = letters \union {<<i, inv[i].link + 1>>}
      BY <1>3 DEF Renew
    <2> HIDE DEF i
    <2>3. /\ inv'[i] \in Row /\ inv'[i].status = inv[i].status
          /\ inv'[i].email = inv[i].email /\ inv'[i].link = inv[i].link + 1
          /\ inv[i].link \in Nat
      <3> DEFINE next == inv[i].link + 1
                 end == req[r].expires
      <3>1. inv[i].link \in Nat /\ next \in Nat /\ end \in Nat
        BY <1>1 DEF Row
      <3>2. inv'[i] = [inv[i] EXCEPT !.link = next, !.expires = end]
        BY <1>1, <2>1 DEF TypeOK
      <3> HIDE DEF next, end
      <3>3. /\ inv'[i] \in Row /\ inv'[i].status = inv[i].status
            /\ inv'[i].email = inv[i].email /\ inv'[i].link = next
        BY <1>1, <3>1, <3>2 DEF Row
      <3> QED
        BY <3>1, <3>3 DEF next
    <2>4. \A j \in Rows \ {i} : inv'[j] = inv[j]
      BY <1>1, <2>1 DEF TypeOK
    <2>5. TypeOK' /\ NoHalfResult'
      BY <1>1, <1>2, <2>1, <2>2, <2>3, <2>4 DEF IInv, TypeOK, NoHalfResult, people
    <2>6. LettersIssued'
      <3> SUFFICES ASSUME NEW l \in letters' PROVE l[2] <= inv'[l[1]].link
        BY DEF LettersIssued
      <3>1. CASE l = <<i, inv[i].link + 1>>
        BY <3>1, <2>3
      <3>2. CASE l \in letters
        <4>1. l[1] \in Rows /\ l[2] \in Nat /\ l[2] <= inv[l[1]].link
          BY <3>2, <1>1 DEF IInv, TypeOK, LettersIssued
        <4>2. CASE l[1] = i
          BY <4>1, <4>2, <2>3
        <4> QED
          BY <4>1, <4>2, <2>4
      <3> QED
        BY <3>1, <3>2, <2>2
    <2>7. RowsOK'
      BY <1>1, <1>3, <2>3, <2>4 DEF IInv, RowsOK, NoRow, Pending
    <2>8. PendingHasLetter' /\ OnePending'
      BY <1>1, <1>3, <2>2, <2>3, <2>4 DEF IInv, PendingHasLetter, OnePending, Pending
    <2> QED
      BY <1>2, <2>5, <2>6, <2>7, <2>8 DEF IInv
  <1>4. CASE ~Pending(i)
    <2>1. UNCHANGED <<inv, letters>>
      BY <1>4 DEF Renew
    <2> QED
      BY <1>2, <2>1 DEF IInv, TypeOK, LettersIssued, RowsOK, NoHalfResult, PendingHasLetter,
           OnePending, Pending, people
  <1> QED
    BY <1>3, <1>4

\* What a Join leaves of the rows.
LEMMA AcceptedRow ==
    ASSUME IInv, NEW r \in Requests, Join(r)
    PROVE  /\ inv' \in [Rows -> Row]
           /\ \A j \in Rows : /\ inv'[j].email = inv[j].email
                              /\ inv'[j].link = inv[j].link
                              /\ inv'[j].status = "PENDING" => inv[j].status = "PENDING"
                              /\ inv'[j].status = "NONE" <=> inv[j].status = "NONE"
                              /\ inv[j] = NoRow => inv'[j] = NoRow
                              /\ inv'[j].expires = inv[j].expires
                              /\ inv'[j] # inv[j] => inv[j].status = "PENDING"
  <1>1. TypeOK /\ req[r].row \in Rows
    BY DEF IInv, TypeOK, RequestsOK, RequestOK, Join
  <1> DEFINE i == req[r].row
  <1>2. CASE Pending(i)
    <2>1. inv' = [inv EXCEPT ![i].status = "ACCEPTED"]
      BY <1>2 DEF Join, Accepted
    <2> HIDE DEF i
    <2>2. i \in Rows /\ inv[i] \in Row
      BY <1>1 DEF TypeOK, i
    <2>3. /\ inv'[i] \in Row /\ inv'[i].status = "ACCEPTED"
          /\ inv'[i].email = inv[i].email /\ inv'[i].link = inv[i].link
          /\ inv'[i].expires = inv[i].expires
      BY <2>1, <2>2, <1>1 DEF TypeOK, Row
    <2>4. \A j \in Rows \ {i} : inv'[j] = inv[j]
      BY <2>1, <1>1 DEF TypeOK
    <2> QED
      BY <1>1, <1>2, <2>1, <2>2, <2>3, <2>4 DEF TypeOK, Pending, NoRow
  <1>3. CASE ~Pending(i)
    BY <1>1, <1>3 DEF Join, Accepted, TypeOK
  <1> QED
    BY <1>2, <1>3

LEMMA JoinStep ==
    ASSUME IInv, NEW r \in Requests, Join(r)
    PROVE  IInv'
  <1>1. TypeOK /\ req[r].person \in People
    BY DEF IInv, RequestsOK, RequestOK, Join
  <1>2. TypeOK' /\ RequestsOK'
    BY <1>1, FinishOK, AcceptedRow DEF Join, TypeOK
  <1>3. NoHalfResult'
    BY DEF IInv, NoHalfResult, Join
  <1>4. LettersIssued'
    BY <1>1, AcceptedRow DEF IInv, LettersIssued, TypeOK, Join
  <1>5. RowsOK'
    <2> SUFFICES ASSUME NEW j \in Rows
                 PROVE  /\ inv'[j].status = "NONE" <=> inv'[j] = NoRow
                        /\ inv'[j] # NoRow => inv'[j].email \in People
      BY DEF RowsOK
    <2> QED
      BY AcceptedRow DEF IInv, RowsOK, NoRow
  <1>6. PendingHasLetter' /\ OnePending'
    BY AcceptedRow DEF IInv, PendingHasLetter, OnePending, Pending, Join
  <1> QED
    BY <1>2, <1>3, <1>4, <1>5, <1>6 DEF IInv

-----------------------------------------------------------------------------

Writing(r) ==
    \/ \E i \in Rows : Insert(r, i) \/ (Revoke(r, i) /\ Pending(i))
    \/ Renew(r) \/ Join(r)

Outside == (\E p \in People : Register(p) \/ RemoveEmployee(p)) \/ Tick

LEMMA StepsOfNext == Next => (\E r \in Requests : Moves(r) \/ Writing(r)) \/ Outside
  BY DEF Next, Reads, Writes, Moves, Writing, Outside

LEMMA OutsideStep == ASSUME IInv, Outside PROVE IInv'
  <1>1. TypeOK' /\ NoHalfResult' /\ UNCHANGED <<inv, letters, req>>
    BY DEF IInv, TypeOK, NoHalfResult, Outside, Register, RemoveEmployee, Tick, people
  <1> QED
    BY <1>1 DEF IInv, RequestsOK, RequestOK, LettersIssued, RowsOK, PendingHasLetter, OnePending, Pending

LEMMA InitIInv == Init => IInv
  <1> SUFFICES ASSUME Init PROVE IInv
    OBVIOUS
  <1>1. TypeOK
    BY IdleOK DEF Init, TypeOK, Row, NoRow
  <1>2. RequestsOK /\ RowsOK
    BY IdleOK DEF Init, RequestsOK, RowsOK, NoRow
  <1>3. LettersIssued /\ NoHalfResult /\ PendingHasLetter /\ OnePending
    BY DEF Init, LettersIssued, NoHalfResult, PendingHasLetter, OnePending, Pending, NoRow
  <1> QED
    BY <1>1, <1>2, <1>3 DEF IInv

LEMMA NextIInv == ASSUME IInv, [Next]_vars PROVE IInv'
  <1>1. CASE UNCHANGED vars
    BY <1>1 DEF IInv, vars, TypeOK, RequestsOK, RequestOK, LettersIssued, RowsOK, NoHalfResult,
         PendingHasLetter, OnePending, Pending
  <1>2. CASE Next
    BY <1>2, StepsOfNext, MovesStep, InsertStep, RevokeStep, RenewStep, JoinStep, OutsideStep
       DEF Writing
  <1> QED
    BY <1>1, <1>2

LEMMA Invariance == Spec => []IInv
  BY InitIInv, NextIInv, PTL DEF Spec

\* The records keep their types (the tables of migrations 00002 to 00006).
THEOREM TypeCorrect == Spec => []TypeOK
  BY Invariance, PTL DEF IInv

\* A member has an account and a card (invitation.go:231).
THEOREM NoHalfResultHolds == Spec => []NoHalfResult
  BY Invariance, PTL DEF IInv

\* The link that works is in a letter (invitation.go:50, 182).
THEOREM PendingHasLetterHolds == Spec => []PendingHasLetter
  BY Invariance, PTL DEF IInv

\* One pending invitation to an address (invitations_pending_uq).
THEOREM OnePendingHolds == Spec => []OnePending
  BY Invariance, PTL DEF IInv

-----------------------------------------------------------------------------
(* Properties of the steps. *)

LEMMA ClosedStep == ASSUME IInv, [Next]_vars, NEW i \in Rows, Closed(i) PROVE inv'[i] = inv[i]
  <1>1. CASE UNCHANGED vars \/ Outside
    BY <1>1 DEF vars, Outside, Register, RemoveEmployee, Tick
  <1>2. ASSUME NEW r \in Requests, Moves(r) PROVE inv'[i] = inv[i]
    BY <1>2, Moved DEF Keeps
  <1>3. ASSUME NEW r \in Requests, Writing(r) PROVE inv'[i] = inv[i]
    <2>1. TypeOK /\ ~Pending(i) /\ inv[i] # NoRow
      BY DEF IInv, Closed, Pending, NoRow
    <2>2. ASSUME NEW j \in Rows, Insert(r, j) \/ (Revoke(r, j) /\ Pending(j)) PROVE inv'[i] = inv[i]
      BY <2>1, <2>2 DEF Insert, Revoke, TypeOK
    <2>3. CASE Renew(r)
      BY <2>1, <2>3 DEF Renew, NewLink, TypeOK
    <2>4. CASE Join(r)
      BY <2>1, <2>4, AcceptedRow DEF Pending
    <2> QED
      BY <1>3, <2>2, <2>3, <2>4 DEF Writing
  <1> QED
    BY <1>1, <1>2, <1>3, StepsOfNext

\* No Resend that read an invitation while it was open changes it once it is
\* closed (the WHERE of Resend, Revoke and Accept).
THEOREM ClosedIsFinalHolds == Spec => ClosedIsFinal
  <1>1. IInv /\ [Next]_vars => [\A i \in Rows : Closed(i) => inv'[i] = inv[i]]_vars
    BY ClosedStep
  <1> QED
    BY <1>1, Invariance, PTL DEF Spec, ClosedIsFinal

\* Only a Join makes a member.
LEMMA MemberByJoin ==
    ASSUME IInv, [Next]_vars, NEW p \in People, p \in member', p \notin member
    PROVE  \E r \in Requests : Join(r) /\ req[r].person = p
  <1>1. CASE UNCHANGED vars \/ Outside
    BY <1>1 DEF vars, people, Outside, Register, RemoveEmployee, Tick
  <1>2. ASSUME NEW r \in Requests, Moves(r) PROVE FALSE
    BY <1>2, Moved DEF Keeps, people
  <1>3. ASSUME NEW r \in Requests, Writing(r) PROVE Join(r) /\ req[r].person = p
    BY <1>3 DEF Writing, Insert, Revoke, Renew, Join, people
  <1> QED
    BY <1>1, <1>2, <1>3, StepsOfNext

\* Nobody with an account is made a member by somebody else (service.go:214).
THEOREM JoinsHimselfHolds == Spec => JoinsHimself
  <1> DEFINE Himself == \A p \in account : p \in member' \ member =>
                            \E r \in Requests : req[r].op = "join" /\ req[r].actor = p
  <1>1. ASSUME IInv, [Next]_vars PROVE Himself
    <2> SUFFICES ASSUME NEW p \in account, p \in member', p \notin member
                 PROVE  \E r \in Requests : req[r].op = "join" /\ req[r].actor = p
      OBVIOUS
    <2>1. p \in People
      BY <1>1 DEF IInv, TypeOK
    <2>2. PICK r \in Requests : Join(r) /\ req[r].person = p
      BY <1>1, <2>1, MemberByJoin
    <2> QED
      BY <1>1, <2>2 DEF IInv, RequestsOK, RequestOK, Join
  <1>2. IInv /\ [Next]_vars => [Himself]_vars
    BY <1>1
  <1> QED
    BY <1>2, Invariance, PTL DEF Spec, JoinsHimself

\* Without a usable link and without a letter written in the step there is
\* none afterwards.
LEMMA UsableStep ==
    ASSUME IInv, [Next]_vars, letters' = letters, NEW i \in Rows, Usable(i)'
    PROVE  Usable(i) /\ inv'[i].email = inv[i].email
  <1>1. TypeOK /\ inv[i] \in Row
    BY DEF IInv, TypeOK
  <1>2. CASE UNCHANGED vars
    BY <1>2 DEF vars, Usable, Pending
  <1>3. CASE Outside
    <2>1. inv' = inv /\ clock' \in Nat /\ clock <= clock'
      BY <1>1, <1>3 DEF TypeOK, Outside, Register, RemoveEmployee, Tick, people
    <2> QED
      BY <1>1, <2>1 DEF TypeOK, Usable, Pending, Row
  <1>4. ASSUME NEW r \in Requests, Moves(r) PROVE Usable(i) /\ inv'[i].email = inv[i].email
    BY <1>4, Moved DEF Keeps, Usable, Pending
  <1>5. ASSUME NEW r \in Requests, Writing(r) PROVE Usable(i) /\ inv'[i].email = inv[i].email
    <2>1. clock' = clock
      BY <1>5 DEF Writing, Insert, Revoke, Renew, Join
    <2>2. ASSUME NEW j \in Rows, Insert(r, j) PROVE FALSE
      <3>1. <<j, 1>> \in letters /\ inv[j].link = 0
        BY <2>2 DEF Insert, NoRow
      <3> QED
        BY <3>1 DEF IInv, LettersIssued
    <2>3. ASSUME NEW j \in Rows, Revoke(r, j), Pending(j)
          PROVE  Usable(i) /\ inv'[i].email = inv[i].email
      <3>1. inv'[j].status = "REVOKED" /\ (i # j => inv'[i] = inv[i])
        BY <1>1, <2>3 DEF Revoke, TypeOK, Row
      <3> QED
        BY <3>1, <2>1 DEF Usable, Pending
    <2>4. CASE Renew(r)
      <3>1. CASE Pending(req[r].row)
        <4>1. req[r].row \in Rows /\ <<req[r].row, inv[req[r].row].link + 1>> \in letters
          BY <2>4, <3>1 DEF Renew, IInv, RequestsOK, RequestOK
        <4>2. inv[req[r].row].link \in Nat
          BY <1>1, <4>1 DEF TypeOK, Row
        <4> QED
          BY <4>1, <4>2 DEF IInv, LettersIssued
      <3>2. CASE ~Pending(req[r].row)
        BY <2>1, <2>4, <3>2 DEF Renew, Usable, Pending
      <3> QED
        BY <3>1, <3>2
    <2>5. CASE Join(r)
      BY <2>1, <2>5, AcceptedRow DEF Usable, Pending
    <2> QED
      BY <1>5, <2>2, <2>3, <2>4, <2>5 DEF Writing
  <1> QED
    BY <1>2, <1>3, <1>4, <1>5, StepsOfNext

\* A request that has found a usable link for p found it in a row, or had it.
LEMMA FoundStep ==
    ASSUME IInv, [Next]_vars, NEW q \in Requests, req'[q].op \in {"accept", "join"}
    PROVE  \/ req[q].op \in {"accept", "join"} /\ req[q].person = req'[q].person
           \/ \E i \in Rows : Usable(i) /\ inv[i].email = req'[q].person
  <1>1. CASE UNCHANGED vars \/ Outside
    BY <1>1 DEF vars, Outside, Register, RemoveEmployee, Tick
  <1>2. ASSUME NEW r \in Requests, Moves(r)
        PROVE  \/ req[q].op \in {"accept", "join"} /\ req[q].person = req'[q].person
               \/ \E i \in Rows : Usable(i) /\ inv[i].email = req'[q].person
    <2>1. PICK x \in Request :
             /\ req' = [req EXCEPT ![r] = x]
             /\ x.op \in {"accept", "join"} =>
                   \/ req[r].op = "accept" /\ x.person = req[r].person
                   \/ \E i \in Rows : Usable(i) /\ x.person = inv[i].email
      BY <1>2, Moved
    <2>2. req'[q] = IF q = r THEN x ELSE req[q]
      BY <2>1 DEF IInv, TypeOK
    <2> QED
      BY <2>1, <2>2
  <1>3. ASSUME NEW r \in Requests, Writing(r)
        PROVE  req[q].op \in {"accept", "join"} /\ req[q].person = req'[q].person
    <2>1. req' = req \/ req' = [req EXCEPT ![r] = Idle]
      BY <1>3 DEF Writing, Insert, Revoke, Renew, Join, Finish, Become
    <2>2. req'[q] = req[q] \/ req'[q] = Idle
      BY <2>1 DEF IInv, TypeOK
    <2> QED
      BY <2>2 DEF Idle
  <1> QED
    BY <1>1, <1>2, <1>3, StepsOfNext

\* Who has no way in gets none but by a new letter (Usable, ByTokenHash).
THEOREM LinksDieForGoodHolds == Spec => LinksDieForGood
  <1> DEFINE Dies == \A p \in People : NoWayIn(p) /\ letters' = letters =>
                        /\ NoWayIn(p)'
                        /\ p \in member' => p \in member
  <1>1. ASSUME IInv, [Next]_vars PROVE Dies
    <2> SUFFICES ASSUME NEW p \in People, NoWayIn(p), letters' = letters
                 PROVE  NoWayIn(p)' /\ (p \in member' => p \in member)
      OBVIOUS
    <2>1. \A i \in Rows : inv'[i].email = p => ~Usable(i)'
      BY <1>1, UsableStep DEF NoWayIn
    <2>2. \A q \in Requests : req'[q].op \in {"accept", "join"} => req'[q].person # p
      BY <1>1, FoundStep DEF NoWayIn
    <2>3. p \in member' => p \in member
      BY <1>1, MemberByJoin DEF NoWayIn, Join
    <2> QED
      BY <2>1, <2>2, <2>3 DEF NoWayIn
  <1>2. IInv /\ [Next]_vars => [Dies]_vars
    BY <1>1
  <1> QED
    BY <1>2, Invariance, PTL DEF Spec, LinksDieForGood

-----------------------------------------------------------------------------
(* Invitations implements Membership. *)

\* The second Accept of a person finds the membership and the card in place,
\* and changes neither.
LEMMA JoinMaps ==
    ASSUME IInv, NEW r \in Requests, Join(r)
    PROVE  Company!MembershipNext \/ UNCHANGED Company!membershipVars
  <1> DEFINE p == req[r].person
  <1>1. p \in People /\ NoHalfResult
    BY DEF IInv, RequestsOK, RequestOK, Join
  <1>2. member' = member \union {p} /\ card' = card \union {p}
    BY DEF Join
  <1> HIDE DEF p
  <1>3. CASE p \in member
    BY <1>1, <1>2, <1>3 DEF NoHalfResult, Company!membershipVars
  <1>4. CASE p \notin member
    <2>1. Company!Join(p)
      BY <1>2, <1>4 DEF Company!Join
    <2> QED
      BY <1>1, <2>1 DEF Company!MembershipNext
  <1> QED
    BY <1>3, <1>4

LEMMA MembershipStep ==
    ASSUME IInv, [Next]_vars
    PROVE  Company!MembershipNext \/ UNCHANGED Company!membershipVars
  <1> USE DEF Company!membershipVars
  <1>1. CASE UNCHANGED vars
    BY <1>1 DEF vars
  <1>2. ASSUME NEW r \in Requests, Moves(r) PROVE UNCHANGED Company!membershipVars
    BY <1>2, Moved DEF Keeps, people
  <1>3. ASSUME NEW r \in Requests, Writing(r), ~Join(r) PROVE UNCHANGED Company!membershipVars
    BY <1>3 DEF Writing, Insert, Revoke, Renew, people
  <1>4. ASSUME NEW p \in People, RemoveEmployee(p) PROVE Company!MembershipNext
    <2>1. Company!Leave(p)
      BY <1>4 DEF RemoveEmployee, Company!Leave
    <2> QED
      BY <2>1 DEF Company!MembershipNext
  <1>5. ASSUME NEW p \in People, Register(p) PROVE UNCHANGED Company!membershipVars
    BY <1>5 DEF Register
  <1>6. CASE Tick
    BY <1>6 DEF Tick, people
  <1> QED
    BY <1>1, <1>2, <1>3, <1>4, <1>5, <1>6, StepsOfNext, JoinMaps DEF Outside

\* However links are sent, forwarded, accepted twice and raced by a
\* registration, the tables see what Membership promises -- and what Staff,
\* which takes an acceptance for one step, relies on (invitation.go:231).
THEOREM Implementation == Spec => ImplementsMembership
  <1>1. Init => Company!MembershipInit
    BY DEF Init, Company!MembershipInit
  <1> QED
    BY <1>1, Invariance, MembershipStep, PTL
       DEF Spec, ImplementsMembership, Company!MembershipSpec
=============================================================================
