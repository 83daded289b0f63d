----------------------------- MODULE TaskLedger -----------------------------
(***************************************************************************)
(* What completing tasks promises: a listed task becomes a completed one   *)
(* in a single step, stays completed, and disappears only when the server  *)
(* goes down.                                                              *)
(***************************************************************************)
CONSTANTS Users, Lists

VARIABLES lists, completed, up

Init == lists = Lists /\ completed = {} /\ up = TRUE

Move(u, t) ==
    /\ t \in lists[u]
    /\ lists' = [lists EXCEPT ![u] = @ \ {t}]
    /\ completed' = completed \cup {t}
    /\ up' = up

GoDown ==
    /\ up
    /\ up' = FALSE
    /\ completed' = completed
    /\ \/ lists' = lists
       \/ \E u \in Users, t \in UNION {lists[v] : v \in Users} :
             lists' = [lists EXCEPT ![u] = @ \ {t}]

ComeUp == ~up /\ up' = TRUE /\ UNCHANGED <<lists, completed>>

Next ==
    \/ \E u \in Users : \E t \in lists[u] : Move(u, t)
    \/ GoDown
    \/ ComeUp

Spec == Init /\ [][Next]_<<lists, completed, up>>
=============================================================================
