---------------------------- MODULE SingleHolder ----------------------------
(***************************************************************************)
(* What the Publisher lease promises (module docstring of                  *)
(* publisher_session.py): an account has at most one session; the newest   *)
(* one holds it, and one that lost it never holds it again.                *)
(***************************************************************************)
CONSTANTS Users, Sessions, Nobody

VARIABLES
    holder,  \* the session that holds each account, or Nobody
    spent    \* sessions that ever held an account

vars == <<holder, spent>>

Init == /\ holder = [u \in Users |-> Nobody]
        /\ spent = {}

TakeOver(u, s) ==
    /\ s \notin spent
    /\ holder' = [holder EXCEPT ![u] = s]
    /\ spent' = spent \cup {s}

Release(u) ==
    /\ holder' = [holder EXCEPT ![u] = Nobody]
    /\ UNCHANGED spent

Next == \E u \in Users : Release(u) \/ \E s \in Sessions : TakeOver(u, s)

Spec == Init /\ [][Next]_vars
=============================================================================
