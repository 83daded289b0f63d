------------------------------ MODULE MCTodoApp ------------------------------
(***************************************************************************)
(* Small instances of TodoApp: two seeds in one list and one in the other, *)
(* so that a page orders zero, one or two open todos.                      *)
(***************************************************************************)
EXTENDS TodoApp

CONSTANTS ticket, groceries, plan, u1, u2, afternoon, morning

MCTitles == {ticket, groceries, plan}
MCSeed == [k \in Kinds |-> IF k = "personal" THEN <<ticket, groceries>> ELSE <<plan>>]
MCUserIds == {u1, u2}
MCTimes == {afternoon, morning}
MCBadTimes == {morning}
=============================================================================
