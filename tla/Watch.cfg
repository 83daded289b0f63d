\* Order: every minute of a day in every order of the map's entries; every list of
\* three todos, checked off one by one. Cache: two loops and a day of two periods.
CONSTANTS
    None = None
    TestMode = FALSE
    Todos <- MCTodos
    Readings <- MCDay
    Positions <- MCPositions
    Loads = {FALSE, TRUE}
    Faults = {"stop"}
    MaxLoops = 2
SPECIFICATION WatchSpec
CHECK_DEADLOCK FALSE
INVARIANTS
    DayIsCovered
    PageIsInOrder
    NotificationInv
