----------------------------- MODULE DurableTodos -----------------------------
(***************************************************************************)
(* What TodoDatabase promises of one todo list: a list kept in memory,     *)
(* written behind to a durable copy, that loses no todo and forgets no     *)
(* check except by falling back to the durable copy in a crash.            *)
(***************************************************************************)
EXTENDS Naturals, Sequences

VARIABLES volatile, durable

\* List b continues list a: the same todos in the same places, those that
\* were done still done, and perhaps new ones at the end.
Continues(a, b) ==
    /\ Len(a) <= Len(b)
    /\ \A i \in 1 .. Len(a) :
          /\ a[i].title = b[i].title
          /\ a[i].done => b[i].done

Init == volatile = <<>> /\ durable = <<>>

Work ==
    /\ Continues(volatile, volatile')
    /\ durable' = durable

\* The durable copy catches up; it never goes back.
Persist ==
    /\ durable' = volatile
    /\ Continues(durable, durable')
    /\ volatile' = volatile

Crash ==
    /\ volatile' = durable
    /\ durable' = durable

Next == Work \/ Persist \/ Crash

Spec == Init /\ [][Next]_<<volatile, durable>>
=============================================================================
