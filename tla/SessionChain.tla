---------------------------- MODULE SessionChain ----------------------------
(***************************************************************************)
(* What the refresh sessions promise, without rows, locks or requests.  A  *)
(* login is named by its first token.  It has at most one token that can   *)
(* be exchanged; a token that was exchanged or closed is spent for ever;   *)
(* a login that was closed never opens again.                              *)
(***************************************************************************)
CONSTANTS Tokens, None

VARIABLES
    current,    \* the exchangeable token of each login, None without one
    spent       \* tokens that will never be accepted again

vars == <<current, spent>>

TypeOK ==
    /\ current \in [Tokens -> Tokens \union {None}]
    /\ spent \subseteq Tokens

Unseen(t) == t \notin spent /\ \A f \in Tokens : current[f] # t

Init == current = [f \in Tokens |-> None] /\ spent = {}

Open(f) ==
    /\ Unseen(f)
    /\ current' = [current EXCEPT ![f] = f]
    /\ UNCHANGED spent

Exchange(f, t) ==
    /\ current[f] # None
    /\ Unseen(t)
    /\ spent' = spent \union {current[f]}
    /\ current' = [current EXCEPT ![f] = t]

Close(F) ==
    /\ \A f \in F : current[f] # None
    /\ spent' = spent \union {current[f] : f \in F}
    /\ current' = [f \in Tokens |-> IF f \in F THEN None ELSE current[f]]

Next ==
    \/ \E f \in Tokens : Open(f) \/ \E t \in Tokens : Exchange(f, t)
    \/ \E F \in SUBSET Tokens : Close(F)

Spec == Init /\ [][Next]_vars
=============================================================================
