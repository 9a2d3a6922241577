------------------------------- MODULE Outbox -------------------------------
(***************************************************************************)
(* The mail queue: the table email_outbox (repository/postgres/outbox.go)  *)
(* and the workers that empty it (internal/worker/outbox.go), one in each  *)
(* replica of the process.                                                 *)
(*                                                                         *)
(* Time is the order in which letters become due: a claimed letter when    *)
(* its lease of two minutes ends, a failed one when its backoff ends.  The *)
(* lengths of the two are abstracted.  Nothing in the code bounds how long *)
(* a batch takes, so a letter may come due while a worker still holds it;  *)
(* overran remembers the letters to which that happened.                   *)
(***************************************************************************)
EXTENDS Naturals, FiniteSets

CONSTANTS
    Mails,          \* rows of email_outbox
    Renderable,     \* those that the worker can render
    Workers,        \* replicas that run Outbox.Run
    MaxAttempts,    \* maxAttempts
    BatchSize,      \* OUTBOX_BATCH_SIZE
    MaxFaults,      \* bound: crashes, lost replies and failed writes
    None

ASSUME OutboxAssumption ==
    /\ Renderable \subseteq Mails
    /\ MaxAttempts \in Nat \ {0} /\ BatchSize \in Nat \ {0} /\ MaxFaults \in Nat
    /\ None \notin Mails

VARIABLES
    status,     \* NONE until the row is inserted
    attempts,   \* the column attempts
    due,        \* the pending rows with next_attempt_at <= now()
    worker,     \* the batch and the position of each worker
    sends,      \* how often the server has taken the letter (external)
    faults,     \* faults so far
    overran     \* history: the letters whose lease ended in a worker's hands

vars == <<status, attempts, due, worker, sends, faults, overran>>

Statuses == {"NONE", "PENDING", "SENT", "FAILED"}

Worker ==
    [pc    : {"idle", "next", "sent", "failed"},
     batch : SUBSET Mails,          \* claimed and not dealt with
     cur   : Mails \union {None},   \* whose Send has returned
     limit : {0, MaxAttempts}]      \* the attempts that MarkFailed allows

Idle == [pc |-> "idle", batch |-> {}, cur |-> None, limit |-> 0]

TypeOK ==
    /\ status \in [Mails -> Statuses]
    /\ attempts \in [Mails -> Nat]
    /\ due \subseteq Mails
    /\ worker \in [Workers -> Worker]
    /\ sends \in [Mails -> Nat]
    /\ faults \in Nat
    /\ overran \subseteq Mails

Init ==
    /\ status = [m \in Mails |-> "NONE"]
    /\ attempts = [m \in Mails |-> 0]
    /\ due = {}
    /\ worker = [w \in Workers |-> Idle]
    /\ sends = [m \in Mails |-> 0]
    /\ faults = 0
    /\ overran = {}

-----------------------------------------------------------------------------

Held(m) == \E w \in Workers : m \in worker[w].batch

Fault == faults < MaxFaults /\ faults' = faults + 1

\* Mutant of Enqueue: a row that is no longer pending is used again.
EnqueueAgain(m) ==
    /\ status[m] # "PENDING"
    /\ status' = [status EXCEPT ![m] = "PENDING"]
    /\ due' = due \union {m}
    /\ UNCHANGED <<attempts, worker, sends, faults, overran>>

\* enqueueEmail, in the transaction of Create or Resend.
Enqueue(m) ==
    /\ status[m] = "NONE"
    /\ status' = [status EXCEPT ![m] = "PENDING"]
    /\ due' = due \union {m}
    /\ UNCHANGED <<attempts, worker, sends, faults, overran>>

\* Mutant of Ripen: a row that was claimed is never due again.
RipenUnclaimed(m) ==
    /\ status[m] = "PENDING" /\ m \notin due
    /\ attempts[m] = 0
    /\ due' = due \union {m}
    /\ UNCHANGED <<status, attempts, worker, sends, faults, overran>>

\* next_attempt_at passes: the end of a lease or of a backoff.
Ripen(m) ==
    /\ status[m] = "PENDING" /\ m \notin due
    /\ due' = due \union {m}
    /\ overran' = IF Held(m) THEN overran \union {m} ELSE overran
    /\ UNCHANGED <<status, attempts, worker, sends, faults>>

IsBatch(rows) ==
    /\ rows # {} /\ rows \subseteq due
    /\ Cardinality(rows) <= BatchSize
    /\ rows # due => Cardinality(rows) = BatchSize

\* Mutant of Claim: it leases nothing, and the rows stay due.
ClaimWithoutLease(w, rows) ==
    /\ worker[w].pc = "idle"
    /\ IsBatch(rows)
    /\ attempts' = [m \in Mails |-> IF m \in rows THEN attempts[m] + 1 ELSE attempts[m]]
    /\ worker' = [worker EXCEPT ![w] = [Idle EXCEPT !.pc = "next", !.batch = rows]]
    /\ UNCHANGED <<status, due, sends, faults, overran>>

\* A tick of the worker: up to BatchSize due rows, the oldest first (see
\* Fairness), are leased and their attempts counted, in one statement.
Claim(w, rows) ==
    /\ worker[w].pc = "idle"
    /\ IsBatch(rows)
    /\ attempts' = [m \in Mails |-> IF m \in rows THEN attempts[m] + 1 ELSE attempts[m]]
    /\ due' = due \ rows
    /\ worker' = [worker EXCEPT ![w] = [Idle EXCEPT !.pc = "next", !.batch = rows]]
    /\ UNCHANGED <<status, sends, faults, overran>>

-----------------------------------------------------------------------------
(* deliver, for one letter of the batch. *)

Returned(w, m, pc, limit) ==
    worker' = [worker EXCEPT ![w] = [@ EXCEPT !.pc = pc, !.cur = m, !.limit = limit]]

Sending(w, m) == worker[w].pc = "next" /\ m \in worker[w].batch

\* Mutant of NotRenderable: the two last arguments of fail are swapped.
NotRenderableSwapped(w, m) ==
    /\ Sending(w, m) /\ m \notin Renderable
    /\ Returned(w, m, "failed", 3600)
    /\ UNCHANGED <<status, attempts, due, sends, faults, overran>>

\* Cannot be rendered: MarkFailed with no attempts allowed.
NotRenderable(w, m) ==
    /\ Sending(w, m) /\ m \notin Renderable
    /\ Returned(w, m, "failed", 0)
    /\ UNCHANGED <<status, attempts, due, sends, faults, overran>>

SendOK(w, m) ==
    /\ Sending(w, m) /\ m \in Renderable
    /\ Returned(w, m, "sent", 0)
    /\ sends' = [sends EXCEPT ![m] = @ + 1]
    /\ UNCHANGED <<status, attempts, due, faults, overran>>

\* Mutant of SendError: it gives up at once.
SendErrorGivesUp(w, m) ==
    /\ Sending(w, m) /\ m \in Renderable
    /\ Returned(w, m, "failed", 0)
    /\ UNCHANGED <<status, attempts, due, sends, faults, overran>>

SendError(w, m) ==
    /\ Sending(w, m) /\ m \in Renderable
    /\ Returned(w, m, "failed", MaxAttempts)
    /\ UNCHANGED <<status, attempts, due, sends, faults, overran>>

\* The server takes the letter and its reply is lost: an error for Send.
SendReplyLost(w, m) ==
    /\ Sending(w, m) /\ m \in Renderable
    /\ Fault
    /\ Returned(w, m, "failed", MaxAttempts)
    /\ sends' = [sends EXCEPT ![m] = @ + 1]
    /\ UNCHANGED <<status, attempts, due, overran>>

\* The current letter is dealt with: the next one, or the end of the tick.
Advance(w) ==
    LET left == worker[w].batch \ {worker[w].cur}
    IN  worker' = [worker EXCEPT ![w] =
            IF left = {} THEN Idle ELSE [Idle EXCEPT !.pc = "next", !.batch = left]]

MarkSent(w) ==
    LET m == worker[w].cur
    IN  /\ worker[w].pc = "sent"
        /\ status' = [status EXCEPT ![m] = "SENT"]
        /\ due' = due \ {m}
        /\ Advance(w)
        /\ UNCHANGED <<attempts, sends, faults, overran>>

\* Mutant of MarkFailed: the comparison with the limit is off by one.
MarkFailedLate(w) ==
    LET m == worker[w].cur
    IN  /\ worker[w].pc = "failed"
        /\ status' = [status EXCEPT ![m] =
               IF attempts[m] > worker[w].limit THEN "FAILED" ELSE "PENDING"]
        /\ due' = due \ {m}
        /\ Advance(w)
        /\ UNCHANGED <<attempts, sends, faults, overran>>

MarkFailed(w) ==
    LET m == worker[w].cur
    IN  /\ worker[w].pc = "failed"
        /\ status' = [status EXCEPT ![m] =
               IF attempts[m] >= worker[w].limit THEN "FAILED" ELSE "PENDING"]
        /\ due' = due \ {m}
        /\ Advance(w)
        /\ UNCHANGED <<attempts, sends, faults, overran>>

\* MarkSent or MarkFailed fails, is only logged, and the worker goes on.
MarkError(w) ==
    /\ worker[w].pc \in {"sent", "failed"}
    /\ Fault
    /\ Advance(w)
    /\ UNCHANGED <<status, attempts, due, sends, overran>>

\* The process dies or is stopped, and comes back: a stop cancels the context,
\* which ends the loop over the batch and fails the write that follows a Send.
Restart(w) ==
    /\ worker[w] # Idle
    /\ Fault
    /\ worker' = [worker EXCEPT ![w] = Idle]
    /\ UNCHANGED <<status, attempts, due, sends, overran>>

-----------------------------------------------------------------------------

Deliver(w) ==
    \/ \E m \in Mails : NotRenderable(w, m) \/ SendOK(w, m) \/ SendError(w, m)
    \/ MarkSent(w) \/ MarkFailed(w)

Disturb(w) == (\E m \in Mails : SendReplyLost(w, m)) \/ MarkError(w) \/ Restart(w)

Next ==
    \/ \E m \in Mails : Enqueue(m) \/ Ripen(m)
    \/ \E w \in Workers : (\E rows \in SUBSET due : Claim(w, rows)) \/ Deliver(w) \/ Disturb(w)

Spec == Init /\ [][Next]_vars

\* Time passes; every Send returns; the ticker of every worker fires, and
\* ORDER BY next_attempt_at lets no due row be overtaken for ever.
Fairness ==
    /\ \A m \in Mails : WF_vars(Ripen(m))
    /\ \A w \in Workers : WF_vars(Deliver(w))
    /\ \A m \in Mails :
          SF_vars(\E w \in Workers, rows \in SUBSET due : m \in rows /\ Claim(w, rows))

FairSpec == Spec /\ Fairness

-----------------------------------------------------------------------------
(* Properties *)

\* outbox.go:33: workers do not send a letter twice.  While its leases last, a
\* second copy is paid for by a fault -- a restart, a lost reply, a failed
\* write -- as outbox.go of the worker accepts in its line 123.
CopiesArePaidFor == \A m \in Mails \ overran : sends[m] <= 1 + faults

\* The same whatever the leases do: outbox.go:34 says that lines given to one
\* worker are passed over by another (README, finding 3).
NotSentTwice == faults = 0 => \A m \in Mails : sends[m] <= 1

\* worker/outbox.go:35: the attempts of a letter are bounded; only a fault,
\* which leaves a claimed letter undecided, or a lease that ended early adds
\* one.
AttemptsArePaidFor == \A m \in Mails \ overran : attempts[m] <= MaxAttempts + faults

\* A letter is given up only when it cannot be rendered or has had all its
\* attempts, and is called sent only if it was, whatever the leases do.
ClosedForAReason ==
    \A m \in Mails :
        /\ status[m] = "FAILED" => m \notin Renderable \/ attempts[m] >= MaxAttempts
        /\ status[m] = "SENT" => sends[m] > 0

\* While its leases last, a letter is in the hands of one worker at most, and
\* when it is settled in nobody's: it is not sent again, not opened again and
\* not counted again, whatever the workers, faults and restarts do.
SettledIsFinal ==
    [][\A m \in Mails \ overran : status[m] \in {"SENT", "FAILED"} =>
          status'[m] = status[m] /\ sends'[m] = sends[m] /\ attempts'[m] = attempts[m]]_vars

\* The queue does what MailDelivery promises.
Mail == INSTANCE MailDelivery WITH
            state <- status, handed <- {m \in Mails : sends[m] > 0}, late <- overran
ImplementsMail == Mail!MailSpec

\* Once faults have stopped, every letter is sent or given up for good, even
\* when leases end early and slow workers reopen what others have settled.
SettlesForGood ==
    \A m \in Mails : <>[](status[m] = "NONE") \/ <>[](status[m] \in {"SENT", "FAILED"})
=============================================================================
