---------------------------- MODULE MailDelivery ----------------------------
(***************************************************************************)
(* What the mail queue promises to those who put a letter into it: it is   *)
(* handed to the mail server at least once or given up, is called sent     *)
(* only after it was handed over, and is not touched after that -- unless  *)
(* its delivery took longer than its lease.                                *)
(***************************************************************************)
CONSTANT Mails

VARIABLES
    state,      \* NONE, PENDING, SENT or FAILED
    handed,     \* the mails that the server has taken at least once
    late        \* the mails that outlived a lease while being delivered

mailVars == <<state, handed, late>>

MailInit == state = [m \in Mails |-> "NONE"] /\ handed = {} /\ late = {}

Put(m) ==
    /\ state[m] = "NONE"
    /\ state' = [state EXCEPT ![m] = "PENDING"]
    /\ UNCHANGED <<handed, late>>

\* Whoever was late may still act on a letter that is settled.
Open(m) == state[m] = "PENDING" \/ m \in late

RunLate(m) ==
    /\ state[m] = "PENDING"
    /\ late' = late \union {m}
    /\ UNCHANGED <<state, handed>>

HandOver(m) ==
    /\ Open(m)
    /\ handed' = handed \union {m}
    /\ UNCHANGED <<state, late>>

Settle(m) ==
    /\ Open(m)
    /\ \E end \in {"PENDING", "SENT", "FAILED"} :
          /\ end = "SENT" => m \in handed
          /\ state' = [state EXCEPT ![m] = end]
    /\ UNCHANGED <<handed, late>>

MailNext == \E m \in Mails : Put(m) \/ RunLate(m) \/ HandOver(m) \/ Settle(m)

MailSpec == MailInit /\ [][MailNext]_mailVars
=============================================================================
