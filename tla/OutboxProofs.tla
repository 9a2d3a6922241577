---------------------------- MODULE OutboxProofs ----------------------------
(***************************************************************************)
(* Proofs about Outbox, for any number of letters, workers and faults.     *)
(***************************************************************************)
EXTENDS Outbox, TLAPS

\* What a worker holds at each point of its program.
WorkerOK(x) ==
    /\ x.pc = "idle" <=> x.batch = {}
    /\ x.pc \in {"sent", "failed"} => x.cur \in x.batch
    /\ x.pc = "sent" => sends[x.cur] > 0
    /\ x.pc = "failed" /\ x.limit = 0 => x.cur \notin Renderable

WorkersOK == \A w \in Workers : WorkerOK(worker[w])

DuePending == \A m \in due : status[m] = "PENDING"

\* Holds of every letter.
GInv == TypeOK /\ WorkersOK /\ DuePending /\ ClosedForAReason

\* Holds of the letters whose leases have not ended early.
Taken(m) == \E w \in Workers : worker[w].pc = "sent" /\ worker[w].cur = m

OneHolder ==
    \A w, v \in Workers : w # v => worker[w].batch \intersect worker[v].batch \subseteq overran

HeldPending ==
    \A w \in Workers : \A m \in worker[w].batch \ overran :
        status[m] = "PENDING" /\ m \notin due

CountsOK ==
    \A m \in Mails \ overran :
        /\ sends[m] <= 1 + faults
        /\ status[m] # "SENT" /\ ~Taken(m) => sends[m] <= faults
        /\ attempts[m] <= MaxAttempts + faults
        /\ status[m] \in {"NONE", "PENDING"} /\ ~Held(m) => attempts[m] < MaxAttempts + faults

LInv == OneHolder /\ HeldPending /\ CountsOK

-----------------------------------------------------------------------------

Step(w) ==
    \/ \E rows \in SUBSET due : Claim(w, rows)
    \/ \E m \in Mails : NotRenderable(w, m) \/ SendOK(w, m) \/ SendError(w, m)
                       \/ SendReplyLost(w, m)
    \/ MarkSent(w) \/ MarkFailed(w) \/ MarkError(w) \/ Restart(w)

LEMMA StepsOfNext ==
    Next <=> \/ \E m \in Mails : Enqueue(m) \/ Ripen(m)
             \/ \E w \in Workers : Step(w)
  BY DEF Next, Step, Deliver, Disturb

\* A step of a worker changes the record of no other.
LEMMA OthersWait ==
    ASSUME TypeOK, NEW w \in Workers, Step(w)
    PROVE  /\ worker' = [worker EXCEPT ![w] = worker'[w]]
           /\ \A v \in Workers \ {w} : worker'[v] = worker[v]
  BY DEF TypeOK, Step, Claim, NotRenderable, SendOK, SendError, SendReplyLost, Returned,
       MarkSent, MarkFailed, MarkError, Advance, Restart

\* Only time ends a lease.
LEMMA LeasesLast ==
    ASSUME NEW w \in Workers, Step(w) PROVE overran' = overran
  BY DEF Step, Claim, NotRenderable, SendOK, SendError, SendReplyLost,
       MarkSent, MarkFailed, MarkError, Restart

\* What becomes of the worker that takes a step.
LEMMA AdvanceOK ==
    ASSUME TypeOK, NEW w \in Workers, Advance(w)
    PROVE  /\ worker'[w] \in Worker
           /\ worker'[w].batch = worker[w].batch \ {worker[w].cur}
           /\ worker'[w].pc \in {"idle", "next"}
           /\ worker'[w].pc = "idle" <=> worker'[w].batch = {}
  <1> DEFINE left == worker[w].batch \ {worker[w].cur}
  <1>1. worker[w].batch \subseteq Mails
    BY DEF TypeOK, Worker
  <1>2. CASE left = {}
    <2>1. worker'[w] = Idle
      BY <1>2 DEF TypeOK, Advance
    <2> QED
      BY <2>1, <1>2 DEF Idle, Worker
  <1>3. CASE left # {}
    <2>1. worker'[w] = [Idle EXCEPT !.pc = "next", !.batch = left]
      BY <1>3 DEF TypeOK, Advance
    <2> QED
      BY <2>1, <1>1, <1>3 DEF Idle, Worker
  <1> QED
    BY <1>2, <1>3

LEMMA ReturnedOK ==
    ASSUME TypeOK, NEW w \in Workers, NEW m \in Mails,
           NEW pc \in {"sent", "failed"}, NEW limit \in {0, MaxAttempts},
           Returned(w, m, pc, limit)
    PROVE  /\ worker'[w] \in Worker
           /\ worker'[w].batch = worker[w].batch
           /\ worker'[w].pc = pc /\ worker'[w].cur = m /\ worker'[w].limit = limit
  <1>1. worker'[w] = [worker[w] EXCEPT !.pc = pc, !.cur = m, !.limit = limit]
    BY DEF TypeOK, Returned
  <1>2. worker[w] \in Worker
    BY DEF TypeOK
  <1> QED
    BY <1>1, <1>2 DEF Worker

LEMMA ClaimOK ==
    ASSUME TypeOK, NEW w \in Workers, NEW rows \in SUBSET due, Claim(w, rows)
    PROVE  /\ worker'[w] \in Worker
           /\ worker'[w].batch = rows /\ rows # {}
           /\ worker'[w].pc = "next"
  <1>1. worker'[w] = [Idle EXCEPT !.pc = "next", !.batch = rows]
    BY DEF TypeOK, Claim
  <1> QED
    BY <1>1 DEF TypeOK, Claim, IsBatch, Idle, Worker

-----------------------------------------------------------------------------
(* The invariant that needs no assumption on leases. *)

LEMMA GInit == Init => GInv
  <1> SUFFICES ASSUME Init PROVE GInv
    OBVIOUS
  <1>1. TypeOK
    BY OutboxAssumption DEF Init, TypeOK, Idle, Worker, Statuses
  <1>2. WorkersOK
    BY DEF Init, WorkersOK, WorkerOK, Idle
  <1>3. DuePending /\ ClosedForAReason
    BY DEF Init, DuePending, ClosedForAReason
  <1> QED
    BY <1>1, <1>2, <1>3 DEF GInv

\* A worker keeps to its program, whatever others do to the rows it holds.
LEMMA WorkersKeep ==
    ASSUME GInv, NEW w \in Workers, Step(w), worker'[w] \in Worker,
           \A m \in Mails : sends'[m] >= sends[m],
           sends' \in [Mails -> Nat],
           WorkerOK(worker[w])'
    PROVE  worker' \in [Workers -> Worker] /\ WorkersOK'
  <1>1. worker' \in [Workers -> Worker]
    BY OthersWait DEF GInv, TypeOK
  <1>2. ASSUME NEW v \in Workers \ {w} PROVE WorkerOK(worker[v])'
    <2>1. worker'[v] = worker[v] /\ WorkerOK(worker[v]) /\ worker[v] \in Worker
      BY OthersWait DEF GInv, TypeOK, WorkersOK
    <2>2. worker[v].pc \in {"sent", "failed"} => worker[v].cur \in Mails
      BY <2>1 DEF WorkerOK, Worker
    <2>3. worker[v].pc = "sent" => sends'[worker[v].cur] > 0
      BY <2>1, <2>2 DEF WorkerOK, GInv, TypeOK
    <2> QED
      BY <2>1, <2>3 DEF WorkerOK
  <1> QED
    BY <1>1, <1>2 DEF WorkersOK

LEMMA GStep == ASSUME GInv, NEW w \in Workers, Step(w) PROVE GInv'
  <1> DEFINE x == worker[w]
  <1>5. overran' \subseteq Mails
    BY LeasesLast DEF GInv, TypeOK
  <1>0. /\ TypeOK /\ DuePending /\ ClosedForAReason /\ x \in Worker /\ WorkerOK(x)
        /\ status \in [Mails -> Statuses] /\ attempts \in [Mails -> Nat]
        /\ due \subseteq Mails /\ sends \in [Mails -> Nat] /\ faults \in Nat
        /\ MaxAttempts \in Nat \ {0}
    BY OutboxAssumption DEF GInv, TypeOK, WorkersOK
  <1>1. CASE \E rows \in SUBSET due : Claim(w, rows)
    <2>1. PICK rows \in SUBSET due : Claim(w, rows)
      BY <1>1
    <2>2. /\ worker'[w] \in Worker /\ worker'[w].pc = "next"
          /\ worker'[w].batch = rows /\ rows # {}
      BY <1>0, <2>1, ClaimOK
    <2>3. sends' = sends /\ status' = status /\ faults' = faults /\ due' \subseteq due
      BY <2>1 DEF Claim
    <2>4. /\ attempts' \in [Mails -> Nat]
          /\ \A m \in Mails : attempts'[m] >= attempts[m]
      BY <1>0, <2>1 DEF Claim
    <2>5. WorkerOK(worker[w])'
      BY <2>2 DEF WorkerOK
    <2>6. worker' \in [Workers -> Worker] /\ WorkersOK'
      BY <1>0, <2>2, <2>3, <2>5, WorkersKeep
    <2>7. ClosedForAReason'
      BY <1>0, <2>3, <2>4 DEF ClosedForAReason
    <2> QED
      BY <1>0, <2>3, <2>4, <2>6, <2>7, <1>5 DEF GInv, TypeOK, DuePending
  <1>2. CASE \E m \in Mails : NotRenderable(w, m) \/ SendOK(w, m) \/ SendError(w, m)
                          \/ SendReplyLost(w, m)
    <2>1. PICK m \in Mails : NotRenderable(w, m) \/ SendOK(w, m) \/ SendError(w, m)
                          \/ SendReplyLost(w, m)
      BY <1>2
    <2>2. m \in x.batch
      BY <2>1 DEF NotRenderable, SendOK, SendError, SendReplyLost, Sending
    <2>3. /\ status' = status /\ due' = due /\ attempts' = attempts
          /\ sends' \in [Mails -> Nat] /\ faults' \in Nat
          /\ \A n \in Mails : sends'[n] >= sends[n]
      BY <1>0, <2>1 DEF NotRenderable, SendOK, SendError, SendReplyLost, Fault
    <2>4. worker'[w] \in Worker /\ WorkerOK(worker[w])'
      <3>1. CASE NotRenderable(w, m)
        <4>1. Returned(w, m, "failed", 0) /\ m \notin Renderable
          BY <3>1 DEF NotRenderable
        <4> QED
          BY <4>1, <2>2, <1>0, ReturnedOK DEF WorkerOK
      <3>2. CASE SendOK(w, m)
        <4>1. Returned(w, m, "sent", 0) /\ sends'[m] > 0
          BY <3>2, <1>0 DEF SendOK
        <4> QED
          BY <4>1, <2>2, <1>0, ReturnedOK DEF WorkerOK
      <3>3. CASE SendError(w, m) \/ SendReplyLost(w, m)
        <4>1. Returned(w, m, "failed", MaxAttempts)
          BY <3>3 DEF SendError, SendReplyLost
        <4> QED
          BY <4>1, <2>2, <1>0, ReturnedOK DEF WorkerOK
      <3> QED
        BY <2>1, <3>1, <3>2, <3>3
    <2>5. worker' \in [Workers -> Worker] /\ WorkersOK'
      BY <2>3, <2>4, WorkersKeep
    <2>6. ClosedForAReason'
      BY <1>0, <2>3 DEF ClosedForAReason
    <2> QED
      BY <1>0, <1>5, <2>3, <2>5, <2>6 DEF GInv, TypeOK, DuePending
  <1>3. CASE MarkSent(w) \/ MarkFailed(w) \/ MarkError(w)
    <2>1. Advance(w) /\ x.pc \in {"sent", "failed"}
      BY <1>3 DEF MarkSent, MarkFailed, MarkError
    <2>2. x.cur \in Mails
      BY <1>0, <2>1 DEF WorkerOK, Worker
    <2>3. /\ sends' = sends /\ attempts' = attempts /\ faults' \in Nat
          /\ due' \subseteq due
      BY <1>0, <1>3 DEF MarkSent, MarkFailed, MarkError, Fault
    <2>4. worker' \in [Workers -> Worker] /\ WorkersOK'
      <3>1. worker'[w] \in Worker /\ WorkerOK(worker[w])'
        BY <1>0, <2>1, AdvanceOK DEF WorkerOK
      <3> QED
        BY <1>0, <3>1, <2>3, WorkersKeep
    <2>5. status' \in [Mails -> Statuses] /\ DuePending' /\ ClosedForAReason'
      <3>1. CASE MarkSent(w)
        BY <3>1, <1>0, <2>2 DEF MarkSent, Statuses, DuePending, ClosedForAReason, WorkerOK
      <3>2. CASE MarkFailed(w)
        <4>1. x.limit \in {0, MaxAttempts} /\ (x.limit = 0 => x.cur \notin Renderable)
          BY <1>0, <3>2 DEF MarkFailed, WorkerOK, Worker
        <4> QED
          BY <3>2, <1>0, <2>2, <4>1 DEF MarkFailed, Statuses, DuePending, ClosedForAReason
      <3>3. CASE MarkError(w)
        BY <3>3, <1>0 DEF MarkError, DuePending, ClosedForAReason
      <3> QED
        BY <1>3, <3>1, <3>2, <3>3
    <2> QED
      BY <1>0, <1>5, <2>3, <2>4, <2>5 DEF GInv, TypeOK
  <1>4. CASE Restart(w)
    <2>1. /\ worker'[w] = Idle /\ faults' \in Nat
          /\ UNCHANGED <<status, attempts, due, sends>>
      BY <1>0, <1>4 DEF Restart, Fault, TypeOK
    <2>2. worker'[w] \in Worker /\ WorkerOK(worker[w])'
      BY <2>1 DEF Idle, Worker, WorkerOK
    <2>3. worker' \in [Workers -> Worker] /\ WorkersOK'
      BY <1>0, <2>1, <2>2, WorkersKeep
    <2> QED
      BY <1>0, <1>5, <2>1, <2>3 DEF GInv, TypeOK, DuePending, ClosedForAReason
  <1> QED
    BY <1>1, <1>2, <1>3, <1>4 DEF Step

LEMMA GNext == ASSUME GInv, [Next]_vars PROVE GInv'
  <1>1. CASE \E m \in Mails : Enqueue(m) \/ Ripen(m)
    <2>1. PICK m \in Mails : Enqueue(m) \/ Ripen(m)
      BY <1>1
    <2>2. TypeOK'
      BY <2>1 DEF GInv, TypeOK, Enqueue, Ripen, Statuses
    <2>3. WorkersOK'
      BY <2>1 DEF GInv, WorkersOK, WorkerOK, Enqueue, Ripen
    <2>4. DuePending' /\ ClosedForAReason'
      BY <2>1 DEF GInv, TypeOK, DuePending, ClosedForAReason, Enqueue, Ripen
    <2> QED
      BY <2>2, <2>3, <2>4 DEF GInv
  <1>2. CASE UNCHANGED vars
    BY <1>2 DEF vars, GInv, TypeOK, WorkersOK, WorkerOK, DuePending, ClosedForAReason
  <1> QED
    BY <1>1, <1>2, GStep, StepsOfNext

LEMMA GInvariance == Spec => []GInv
  <1>1. GInv /\ [Next]_vars => GInv'
    BY GNext
  <1> QED
    BY <1>1, GInit, PTL DEF Spec

\* The columns and the workers keep their types.
THEOREM TypeCorrect == Spec => []TypeOK
  BY GInvariance, PTL DEF GInv

\* A letter is given up or called sent for a reason, whatever the leases do.
THEOREM ClosedForAReasonHolds == Spec => []ClosedForAReason
  BY GInvariance, PTL DEF GInv

-----------------------------------------------------------------------------
(* While leases last. *)

LEMMA LInit == Init => LInv
  BY OutboxAssumption
     DEF Init, LInv, OneHolder, HeldPending, CountsOK, Taken, Held, Idle

\* Claiming: nobody held the rows, so every one of them had an attempt left or
\* a fault to its account.
LEMMA LClaim ==
    ASSUME GInv, LInv, NEW w \in Workers, NEW rows \in SUBSET due, Claim(w, rows)
    PROVE  LInv'
  <1>0. /\ due \subseteq Mails /\ status \in [Mails -> Statuses]
        /\ attempts \in [Mails -> Nat] /\ sends \in [Mails -> Nat] /\ faults \in Nat
        /\ \A v \in Workers : worker[v] \in Worker
        /\ MaxAttempts \in Nat
    BY OutboxAssumption DEF GInv, TypeOK
  <1>1. /\ worker'[w].batch = rows /\ worker'[w].pc = "next"
        /\ \A v \in Workers \ {w} : worker'[v] = worker[v]
    BY ClaimOK, OthersWait DEF GInv, Step
  <1>2. /\ status' = status /\ sends' = sends /\ faults' = faults /\ due' = due \ rows
        /\ \A m \in Mails : attempts'[m] = IF m \in rows THEN attempts[m] + 1 ELSE attempts[m]
        /\ worker[w].pc = "idle"
    BY <1>0 DEF Claim
  <1>3. /\ \A m \in rows \ overran : ~Held(m)
        /\ \A m \in rows : status[m] = "PENDING"
    BY DEF LInv, HeldPending, Held, GInv, DuePending
  <1>8. overran' = overran
    BY LeasesLast DEF Step
  <1>4. worker[w].batch = {}
    BY <1>2 DEF GInv, WorkersOK, WorkerOK
  <1>5. OneHolder'
    BY <1>1, <1>3, <1>8 DEF LInv, OneHolder, Held
  <1>6. HeldPending'
    BY <1>1, <1>2, <1>3, <1>8 DEF LInv, HeldPending, Held
  <1>7. CountsOK'
    <2> SUFFICES ASSUME NEW m \in Mails \ overran
                 PROVE  /\ sends'[m] <= 1 + faults'
                        /\ status'[m] # "SENT" /\ ~Taken(m)' => sends'[m] <= faults'
                        /\ attempts'[m] <= MaxAttempts + faults'
                        /\ status'[m] \in {"NONE", "PENDING"} /\ ~Held(m)'
                              => attempts'[m] < MaxAttempts + faults'
      BY <1>8 DEF CountsOK
    <2>1. Taken(m)' <=> Taken(m)
      BY <1>1, <1>2 DEF Taken
    <2>2. Held(m)' <=> Held(m) \/ m \in rows
      BY <1>1, <1>4 DEF Held
    <2>3. CASE m \in rows
      BY <1>0, <1>2, <1>3, <2>1, <2>2, <2>3 DEF LInv, CountsOK
    <2>4. CASE m \notin rows
      BY <1>0, <1>2, <2>1, <2>2, <2>4 DEF LInv, CountsOK
    <2> QED
      BY <2>3, <2>4
  <1> QED
    BY <1>5, <1>6, <1>7 DEF LInv

\* A Send returns: only the one holder can have sent, so a second copy needs a
\* fault before.
LEMMA LSend ==
    ASSUME GInv, LInv, NEW w \in Workers, NEW m \in Mails,
           \/ NotRenderable(w, m) \/ SendOK(w, m) \/ SendError(w, m)
           \/ SendReplyLost(w, m)
    PROVE  LInv'
  <1>0. /\ sends \in [Mails -> Nat] /\ faults \in Nat /\ attempts \in [Mails -> Nat]
        /\ MaxAttempts \in Nat
        /\ worker[w].pc = "next" /\ m \in worker[w].batch
    BY OutboxAssumption
       DEF GInv, TypeOK, NotRenderable, SendOK, SendError, SendReplyLost, Sending
  <1>1. /\ worker'[w].batch = worker[w].batch
        /\ worker'[w].pc = "sent" <=> SendOK(w, m)
        /\ worker'[w].cur = m
        /\ \A v \in Workers \ {w} : worker'[v] = worker[v]
    <2>1. \A v \in Workers \ {w} : worker'[v] = worker[v]
      BY OthersWait DEF GInv, Step
    <2>2. CASE SendOK(w, m)
      <3>1. Returned(w, m, "sent", 0)
        BY <2>2 DEF SendOK
      <3> QED
        BY <2>1, <2>2, <3>1, ReturnedOK DEF GInv
    <2>3. CASE ~SendOK(w, m)
      <3>1. Returned(w, m, "failed", 0) \/ Returned(w, m, "failed", MaxAttempts)
        BY <2>3 DEF NotRenderable, SendError, SendReplyLost
      <3>2. worker'[w].batch = worker[w].batch /\ worker'[w].pc = "failed" /\ worker'[w].cur = m
        BY <3>1, ReturnedOK DEF GInv
      <3> QED
        BY <2>1, <2>3, <3>2
    <2> QED
      BY <2>2, <2>3
  <1>2. UNCHANGED <<status, attempts, due>>
    BY DEF NotRenderable, SendOK, SendError, SendReplyLost
  <1>8. overran' = overran
    BY LeasesLast DEF Step
  <1>3. m \notin overran => ~Taken(m) /\ status[m] = "PENDING"
    BY <1>0 DEF LInv, OneHolder, HeldPending, Taken, GInv, WorkersOK, WorkerOK
  <1>4. OneHolder' /\ HeldPending'
    BY <1>1, <1>2, <1>8 DEF LInv, OneHolder, HeldPending
  <1>5. CountsOK'
    <2> SUFFICES ASSUME NEW n \in Mails \ overran
                 PROVE  /\ sends'[n] <= 1 + faults'
                        /\ status'[n] # "SENT" /\ ~Taken(n)' => sends'[n] <= faults'
                        /\ attempts'[n] <= MaxAttempts + faults'
                        /\ status'[n] \in {"NONE", "PENDING"} /\ ~Held(n)'
                              => attempts'[n] < MaxAttempts + faults'
      BY <1>8 DEF CountsOK
    <2>1. Held(n)' <=> Held(n)
      BY <1>1 DEF Held
    <2>2. n # m => (Taken(n)' <=> Taken(n))
      BY <1>0, <1>1 DEF Taken
    <2>3. SendOK(w, m) => Taken(m)'
      BY <1>1 DEF Taken
    <2>4. /\ faults' \in Nat /\ faults' >= faults
          /\ n # m => sends'[n] = sends[n]
          /\ sends'[m] = IF SendOK(w, m) THEN sends[m] + 1
                         ELSE IF faults' = faults THEN sends[m] ELSE sends'[m]
          /\ ~SendOK(w, m) => sends'[m] - faults' <= sends[m] - faults
          /\ sends'[n] \in Nat
      BY <1>0 DEF NotRenderable, SendOK, SendError, SendReplyLost, Fault
    <2>5. CASE n # m
      BY <1>0, <1>2, <2>1, <2>2, <2>4, <2>5 DEF LInv, CountsOK
    <2>6. CASE n = m
      <3>1. sends[m] <= faults
        BY <1>3, <2>6 DEF LInv, CountsOK
      <3>2. CASE SendOK(w, m)
        BY <1>0, <1>2, <2>1, <2>3, <2>4, <2>6, <3>1, <3>2 DEF LInv, CountsOK
      <3>3. CASE ~SendOK(w, m)
        BY <1>0, <1>2, <2>1, <2>4, <2>6, <3>1, <3>3 DEF LInv, CountsOK
      <3> QED
        BY <3>2, <3>3
    <2> QED
      BY <2>5, <2>6
  <1> QED
    BY <1>4, <1>5 DEF LInv

\* The outcome is written, or the write fails: a fault more to its account.
LEMMA LMark ==
    ASSUME GInv, LInv, NEW w \in Workers, MarkSent(w) \/ MarkFailed(w) \/ MarkError(w)
    PROVE  LInv'
  <1> DEFINE m == worker[w].cur
  <1>0. /\ sends \in [Mails -> Nat] /\ faults \in Nat /\ attempts \in [Mails -> Nat]
        /\ status \in [Mails -> Statuses] /\ due \subseteq Mails
        /\ MaxAttempts \in Nat
        /\ worker[w] \in Worker
        /\ worker[w].pc \in {"sent", "failed"} /\ m \in worker[w].batch /\ m \in Mails
    BY OutboxAssumption
       DEF GInv, TypeOK, WorkersOK, WorkerOK, Worker, MarkSent, MarkFailed, MarkError
  <1>1. /\ worker'[w].batch = worker[w].batch \ {m} /\ worker'[w].pc # "sent"
        /\ \A v \in Workers \ {w} : worker'[v] = worker[v]
    BY AdvanceOK, OthersWait DEF GInv, Step, MarkSent, MarkFailed, MarkError
  <1>2. /\ UNCHANGED <<attempts, sends>>
        /\ due' \subseteq due
        /\ \A n \in Mails \ {m} : status'[n] = status[n]
    BY <1>0 DEF MarkSent, MarkFailed, MarkError
  <1>3. m \notin overran => \A v \in Workers \ {w} : m \notin worker[v].batch
    BY <1>0 DEF LInv, OneHolder
  <1>8. overran' = overran
    BY LeasesLast DEF Step
  <1>4. OneHolder'
    BY <1>1, <1>8 DEF LInv, OneHolder
  <1>5. HeldPending'
    <2>1. \A v \in Workers :
              /\ worker'[v].batch \subseteq worker[v].batch
              /\ m \in worker'[v].batch => m \in overran
      BY <1>1, <1>3
    <2>2. \A v \in Workers : worker[v].batch \subseteq Mails
      BY DEF GInv, TypeOK, Worker
    <2> QED
      BY <1>2, <1>8, <2>1, <2>2 DEF LInv, HeldPending
  <1>6. CountsOK'
    <2> SUFFICES ASSUME NEW n \in Mails \ overran
                 PROVE  /\ sends'[n] <= 1 + faults'
                        /\ status'[n] # "SENT" /\ ~Taken(n)' => sends'[n] <= faults'
                        /\ attempts'[n] <= MaxAttempts + faults'
                        /\ status'[n] \in {"NONE", "PENDING"} /\ ~Held(n)'
                              => attempts'[n] < MaxAttempts + faults'
      BY <1>8 DEF CountsOK
    <2>1. CASE n # m
      <3>1. (Taken(n)' <=> Taken(n)) /\ (Held(n)' <=> Held(n))
        BY <1>0, <1>1, <2>1 DEF Taken, Held
      <3>2. faults' \in Nat /\ faults' >= faults
        BY <1>0 DEF MarkSent, MarkFailed, MarkError, Fault
      <3> QED
        BY <1>0, <1>2, <2>1, <3>1, <3>2 DEF LInv, CountsOK
    <2>2. CASE n = m
      <3>1. Taken(m) <=> worker[w].pc = "sent"
        BY <1>0, <1>3, <2>2 DEF Taken, GInv, WorkersOK, WorkerOK
      <3>2. status[m] = "PENDING"
        BY <1>0, <2>2 DEF LInv, HeldPending
      <3>3. /\ sends[m] <= 1 + faults /\ attempts[m] <= MaxAttempts + faults
            /\ worker[w].pc # "sent" => sends[m] <= faults
        BY <1>0, <2>2, <3>1, <3>2 DEF LInv, CountsOK
      <3>4. CASE MarkSent(w)
        <4>1. status'[m] = "SENT" /\ faults' = faults
          BY <1>0, <3>4 DEF MarkSent
        <4> QED
          BY <1>0, <1>2, <2>2, <3>3, <4>1
      <3>5. CASE MarkFailed(w)
        <4>1. /\ faults' = faults /\ worker[w].pc # "sent"
              /\ status'[m] = IF attempts[m] >= worker[w].limit THEN "FAILED" ELSE "PENDING"
          BY <1>0, <3>5 DEF MarkFailed
        <4>2. worker[w].limit \in {0, MaxAttempts}
          BY <1>0 DEF Worker
        <4> QED
          BY <1>0, <1>2, <2>2, <3>3, <4>1, <4>2
      <3>6. CASE MarkError(w)
        <4>1. faults' = faults + 1
          BY <3>6 DEF MarkError, Fault
        <4> QED
          BY <1>0, <1>2, <2>2, <3>3, <4>1
      <3> QED
        BY <3>4, <3>5, <3>6
    <2> QED
      BY <2>1, <2>2
  <1> QED
    BY <1>4, <1>5, <1>6 DEF LInv

\* A restart drops the batch, and is a fault to the account of each letter.
LEMMA LRestart == ASSUME GInv, LInv, NEW w \in Workers, Restart(w) PROVE LInv'
  <1>0. /\ sends \in [Mails -> Nat] /\ faults \in Nat /\ attempts \in [Mails -> Nat]
        /\ MaxAttempts \in Nat /\ faults' = faults + 1
    BY OutboxAssumption DEF GInv, TypeOK, Restart, Fault
  <1>1. /\ worker'[w].batch = {} /\ worker'[w].pc = "idle"
        /\ \A v \in Workers \ {w} : worker'[v] = worker[v]
        /\ UNCHANGED <<status, attempts, due, sends, overran>>
    BY DEF GInv, TypeOK, Restart, Idle
  <1>2. OneHolder' /\ HeldPending'
    BY <1>1 DEF LInv, OneHolder, HeldPending
  <1>3. CountsOK'
    <2>1. \A m \in Mails \ overran : sends[m] <= 1 + faults /\ attempts[m] <= MaxAttempts + faults
      BY DEF LInv, CountsOK
    <2> QED
      BY <1>0, <1>1, <2>1 DEF CountsOK
  <1> QED
    BY <1>2, <1>3 DEF LInv

LEMMA LNext == ASSUME GInv, LInv, [Next]_vars PROVE LInv'
  <1>1. ASSUME NEW m \in Mails, Enqueue(m) \/ Ripen(m) PROVE LInv'
    <2>0. UNCHANGED <<worker, sends, attempts, faults>> /\ due' = due \union {m}
      BY <1>1 DEF Enqueue, Ripen
    <2>1. /\ overran \subseteq overran'
          /\ Held(m) => m \in overran'
          /\ \A n \in Mails \ {m} : status'[n] = status[n]
          /\ status[m] \in {"NONE", "PENDING"} /\ status'[m] = "PENDING"
      <3>1. CASE Enqueue(m)
        BY <3>1 DEF GInv, TypeOK, LInv, HeldPending, Held, Enqueue
      <3>2. CASE Ripen(m)
        BY <3>2 DEF Ripen
      <3> QED
        BY <1>1, <3>1, <3>2
    <2>2. OneHolder'
      BY <2>0, <2>1 DEF LInv, OneHolder
    <2>3. HeldPending'
      BY <2>0, <2>1 DEF LInv, HeldPending, Held, GInv, TypeOK, Worker
    <2>4. CountsOK'
      BY <2>0, <2>1 DEF LInv, CountsOK, Taken, Held
    <2> QED
      BY <2>2, <2>3, <2>4 DEF LInv
  <1>2. CASE UNCHANGED vars
    BY <1>2 DEF vars, LInv, OneHolder, HeldPending, CountsOK, Taken, Held
  <1> QED
    BY <1>1, <1>2, StepsOfNext, LClaim, LSend, LMark, LRestart DEF Step

LEMMA LInvariance == Spec => [](GInv /\ LInv)
  <1>1. GInv /\ LInv /\ [Next]_vars => (GInv /\ LInv)'
    BY GNext, LNext
  <1> QED
    BY <1>1, GInit, LInit, PTL DEF Spec

\* While its leases last, every copy of a letter after the first is paid for by
\* a fault: without faults it is not sent twice, by however many workers.
THEOREM CopiesArePaidForHolds == Spec => []CopiesArePaidFor
  <1>1. LInv => CopiesArePaidFor
    BY DEF LInv, CountsOK, CopiesArePaidFor
  <1> QED
    BY <1>1, LInvariance, PTL

\* So is every attempt after the last.
THEOREM AttemptsArePaidForHolds == Spec => []AttemptsArePaidFor
  <1>1. LInv => AttemptsArePaidFor
    BY DEF LInv, CountsOK, AttemptsArePaidFor
  <1> QED
    BY <1>1, LInvariance, PTL

\* Nobody holds a settled letter whose leases lasted, so nothing moves it.
THEOREM SettledIsFinalHolds == Spec => SettledIsFinal
  <1> DEFINE Still(m) == status'[m] = status[m] /\ sends'[m] = sends[m]
                            /\ attempts'[m] = attempts[m]
  <1>1. ASSUME GInv, LInv, [Next]_vars,
               NEW m \in Mails \ overran, status[m] \in {"SENT", "FAILED"}
        PROVE  Still(m)
    <2>0. TypeOK
      BY <1>1 DEF GInv
    <2>1. ~Held(m) /\ m \notin due
      BY <1>1 DEF Held, LInv, HeldPending, GInv, DuePending
    <2>2. ASSUME NEW n \in Mails, Enqueue(n) \/ Ripen(n) PROVE Still(m)
      BY <1>1, <2>0, <2>2 DEF Enqueue, Ripen, TypeOK
    <2>3. ASSUME NEW w \in Workers, NEW rows \in SUBSET due, Claim(w, rows) PROVE Still(m)
      BY <2>0, <2>1, <2>3 DEF Claim, TypeOK
    <2>4. ASSUME NEW w \in Workers, NEW n \in Mails,
                 \/ NotRenderable(w, n) \/ SendOK(w, n) \/ SendError(w, n)
                 \/ SendReplyLost(w, n)
          PROVE  Still(m)
      <3>1. n # m
        BY <2>1, <2>4 DEF NotRenderable, SendOK, SendError, SendReplyLost, Sending, Held
      <3> QED
        BY <2>0, <2>4, <3>1 DEF NotRenderable, SendOK, SendError, SendReplyLost, TypeOK
    <2>5. ASSUME NEW w \in Workers, MarkSent(w) \/ MarkFailed(w) PROVE Still(m)
      <3>1. worker[w].cur # m
        BY <1>1, <2>1, <2>5 DEF MarkSent, MarkFailed, GInv, WorkersOK, WorkerOK, Held
      <3> QED
        BY <2>0, <2>5, <3>1 DEF MarkSent, MarkFailed, TypeOK
    <2>6. ASSUME NEW w \in Workers, MarkError(w) \/ Restart(w) PROVE Still(m)
      BY <2>6 DEF MarkError, Restart
    <2>7. UNCHANGED vars => Still(m)
      BY DEF vars
    <2> QED
      BY <1>1, <2>2, <2>3, <2>4, <2>5, <2>6, <2>7, StepsOfNext DEF Step
  <1>2. GInv /\ LInv /\ [Next]_vars =>
            [\A m \in Mails \ overran : status[m] \in {"SENT", "FAILED"} =>
                status'[m] = status[m] /\ sends'[m] = sends[m]
                   /\ attempts'[m] = attempts[m]]_vars
    BY <1>1
  <1> QED
    BY <1>2, LInvariance, PTL DEF Spec, SettledIsFinal

-----------------------------------------------------------------------------
(* The queue implements MailDelivery. *)

Handed == {m \in Mails : sends[m] > 0}

LEMMA MailStutter ==
    ASSUME UNCHANGED <<status, sends, overran>> PROVE UNCHANGED Mail!mailVars
  BY DEF Mail!mailVars

\* A letter that a worker holds is pending, or outlived its lease.
LEMMA HeldOpen ==
    ASSUME LInv, NEW w \in Workers, NEW m \in worker[w].batch
    PROVE  Mail!Open(m)
  BY DEF LInv, HeldPending, Mail!Open

LEMMA MailStep ==
    ASSUME GInv, LInv, [Next]_vars
    PROVE  [Mail!MailNext]_(Mail!mailVars)
  <1>0. sends \in [Mails -> Nat] /\ status \in [Mails -> Statuses]
    BY DEF GInv, TypeOK
  <1>1. ASSUME NEW m \in Mails, Enqueue(m) PROVE Mail!MailNext
    <2>1. Mail!Put(m)
      BY <1>1 DEF Enqueue, Mail!Put
    <2> QED
      BY <2>1 DEF Mail!MailNext
  <1>2. ASSUME NEW w \in Workers, NEW m \in Mails, SendOK(w, m) \/ SendReplyLost(w, m)
        PROVE  Mail!MailNext
    <2>1. Mail!Open(m)
      BY <1>2, HeldOpen DEF SendOK, SendReplyLost, Sending
    <2>2. UNCHANGED <<status, overran>> /\ sends' = [sends EXCEPT ![m] = @ + 1]
      BY <1>2 DEF SendOK, SendReplyLost
    <2>3. Handed' = Handed \union {m}
      BY <1>0, <2>2 DEF Handed
    <2>4. Mail!HandOver(m)
      BY <2>1, <2>2, <2>3 DEF Mail!HandOver, Handed
    <2> QED
      BY <2>4 DEF Mail!MailNext
  <1>3. ASSUME NEW w \in Workers, MarkSent(w) \/ MarkFailed(w)
        PROVE  Mail!MailNext
    <2> DEFINE m == worker[w].cur
    <2>1. m \in Mails /\ m \in worker[w].batch /\ (worker[w].pc = "sent" => sends[m] > 0)
      <3>1. worker[w] \in Worker /\ WorkerOK(worker[w]) /\ worker[w].pc \in {"sent", "failed"}
        BY <1>3 DEF GInv, TypeOK, WorkersOK, MarkSent, MarkFailed
      <3> QED
        BY <3>1 DEF WorkerOK, Worker
    <2>2. UNCHANGED <<sends, overran>> /\ Handed' = Handed
      BY <1>3 DEF MarkSent, MarkFailed, Handed
    <2>3. PICK end \in {"PENDING", "SENT", "FAILED"} :
              /\ status' = [status EXCEPT ![m] = end]
              /\ end = "SENT" => m \in Handed
      BY <1>3, <2>1 DEF MarkSent, MarkFailed, Handed
    <2>4. Mail!Open(m)
      BY <2>1, HeldOpen
    <2>5. Mail!Settle(m)
      BY <2>2, <2>3, <2>4 DEF Mail!Settle, Handed
    <2> QED
      BY <2>1, <2>5 DEF Mail!MailNext
  <1>4. ASSUME NEW w \in Workers, NEW m \in Mails, NotRenderable(w, m) \/ SendError(w, m)
        PROVE  UNCHANGED <<status, sends, overran>>
    BY <1>4 DEF NotRenderable, SendError
  <1>5. ASSUME NEW m \in Mails, Ripen(m)
        PROVE  [Mail!MailNext]_(Mail!mailVars)
    <2>1. status[m] = "PENDING" /\ UNCHANGED <<status, sends>>
      BY <1>5 DEF Ripen
    <2>2. CASE overran' = overran
      BY <2>1, <2>2, MailStutter
    <2>3. CASE overran' = overran \union {m}
      <3>1. Mail!RunLate(m)
        BY <2>1, <2>3 DEF Mail!RunLate
      <3> QED
        BY <3>1 DEF Mail!MailNext
    <2> QED
      BY <1>5, <2>2, <2>3 DEF Ripen
  <1>6. ASSUME NEW w \in Workers,
               (\E rows \in SUBSET due : Claim(w, rows)) \/ MarkError(w) \/ Restart(w)
        PROVE  UNCHANGED <<status, sends, overran>>
    BY <1>6 DEF Claim, MarkError, Restart
  <1>7. UNCHANGED vars => UNCHANGED <<status, sends, overran>>
    BY DEF vars
  <1> QED
    BY <1>1, <1>2, <1>3, <1>4, <1>5, <1>6, <1>7, StepsOfNext, MailStutter DEF Step

\* Handed over at least once or given up, called sent only if it was, and not
\* touched again while its leases last: every run of the workers is a run of
\* MailDelivery.
THEOREM Implementation == Spec => ImplementsMail
  <1>1. Init => Mail!MailInit
    BY DEF Init, Mail!MailInit
  <1> QED
    BY <1>1, LInvariance, MailStep, PTL DEF Spec, ImplementsMail, Mail!MailSpec

=============================================================================
