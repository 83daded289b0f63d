------------------------------- MODULE MCWatch -------------------------------
(* What the watch makes of its context, for TLC: the scores and the order of   *)
(* a page (MCContextScore), and the notification service with its cache on,    *)
(* two loops, and services stopped by the system. "part" names the one that a  *)
(* behaviour runs.                                                             *)
EXTENDS MCContextScore, NotificationService

VARIABLE part       \* "order", "cache"

Item(title, priority, where, when) ==
    [title |-> title, priority |-> priority, place |-> where, time |-> when]
MCTodos ==
    [k \in {"personal", "group"} |->
        IF k = "personal"
        THEN <<Item("Buy concert ticket", "MEDIUM", "GENERAL", "GENERAL"),
               Item("Buy groceries", "LOW", "STORE", "WORKING")>>
        ELSE <<Item("Plan group presentation", "HIGH", "WORK", "WORKING")>>]

\* A day of work and rest, nowhere known and the store.
MCDay == <<600, 1100>>
MCPositions == {<<0, 0>>, <<32870, -117210>>}

WatchInit ==
    /\ part \in {"order", "cache"}
    /\ PageInit
    /\ part = "order" \/ (minute = 0 /\ order = CHOOSE o \in Orders : TRUE)
    /\ Init
    /\ part # "order" \/ period = 1

OrderRuns(A) == part = "order" /\ A /\ UNCHANGED <<part, vars>>
CacheRuns(A) == part = "cache" /\ A /\ UNCHANGED <<part, pageVars>>

WatchNext == OrderRuns(PageNext) \/ CacheRuns(Next)
WatchSpec == WatchInit /\ [][WatchNext]_<<part, pageVars, vars>>
==============================================================================
