----------------------------- MODULE PendingReq -----------------------------
(***************************************************************************)
(* What the room's message time queue promises for the requests it keeps:  *)
(* a request is outstanding once, it is let go by an answer or by a        *)
(* timeout, and never by a timeout before it has waited longer than its    *)
(* limit, the seconds counted that the clock skipped meanwhile.            *)
(***************************************************************************)
EXTENDS Integers

CONSTANTS
    Requests,   \* what can be outstanding
    Limit,      \* seconds each request may wait
    Exclusive,  \* requests of which only one may be outstanding
    Cap,        \* waiting times are counted up to Cap
    MaxJump     \* the most seconds the clock skips at once

VARIABLES
    waited,     \* seconds each request has waited, -1: not outstanding
    skipped     \* seconds the clock skipped in that time

vars == <<waited, skipped>>

Outstanding == {r \in Requests : waited[r] >= 0}

Init ==
    /\ waited = [r \in Requests |-> -1]
    /\ skipped = [r \in Requests |-> 0]

Admit(r) ==
    /\ r \notin Outstanding
    /\ r \in Exclusive => Exclusive \cap Outstanding = {}
    /\ waited' = [waited EXCEPT ![r] = 0]
    /\ UNCHANGED skipped

Answer(r) ==
    /\ r \in Outstanding
    /\ waited' = [waited EXCEPT ![r] = -1]
    /\ skipped' = [skipped EXCEPT ![r] = 0]

\* One sweep may let several requests go.
Expire(S) ==
    /\ S \subseteq Outstanding
    /\ \A r \in S : waited[r] + skipped[r] > Limit[r]
    /\ waited' = [r \in Requests |-> IF r \in S THEN -1 ELSE waited[r]]
    /\ skipped' = [r \in Requests |-> IF r \in S THEN 0 ELSE skipped[r]]

Tick ==
    /\ waited' = [r \in Requests |->
                    IF waited[r] >= 0 /\ waited[r] < Cap THEN waited[r] + 1 ELSE waited[r]]
    /\ UNCHANGED skipped

\* The clock skips d seconds.
Jump(d) ==
    /\ skipped' = [r \in Requests |->
                     IF r \in Outstanding THEN skipped[r] + d ELSE skipped[r]]
    /\ UNCHANGED waited

Next ==
    \/ \E r \in Requests : Admit(r) \/ Answer(r)
    \/ \E S \in SUBSET Requests : Expire(S)
    \/ Tick
    \/ \E d \in 1 .. MaxJump : Jump(d)

Spec == Init /\ [][Next]_vars
=============================================================================
