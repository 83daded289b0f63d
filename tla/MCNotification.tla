---------------------------- MODULE MCNotification ----------------------------
(* A day of three periods, two personal todos and a group one.                 *)
EXTENDS NotificationService

Item(title, priority, place, time) ==
    [title |-> title, priority |-> priority, place |-> place, time |-> time]
MCTodos ==
    [k \in {"personal", "group"} |->
        IF k = "personal"
        THEN <<Item("Buy concert ticket", "MEDIUM", "GENERAL", "GENERAL"),
               Item("Buy groceries", "LOW", "STORE", "WORKING")>>
        ELSE <<Item("Plan group presentation", "HIGH", "WORK", "WORKING")>>]

\* A whole day, nowhere known.
MCWholeDay == <<480, 600, 1400>>
MCNowhere == {<<0, 0>>}

\* Test mode only: the cache and what fills it are run by MCWatch.
RemindersNext == TestMode /\ Next
RemindersSpec == Init /\ [][RemindersNext]_vars /\ Fairness
=============================================================================
